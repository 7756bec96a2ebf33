------------------------ MODULE ConfigWrites_proofs ------------------------
(***************************************************************************)
(* Safety of concurrent write requests for any number of requests, keys    *)
(* and operations and any limits of a batch.  AckMeansWritten is not       *)
(* inductive: IInv follows the operations of every request that Consul has *)
(* applied (Covered), knows where the one transaction of a waiting handler *)
(* starts (InflightInPlace), and that a settled request can do nothing any *)
(* more (SettledIsOver).                                                   *)
(***************************************************************************)
EXTENDS ConfigWrites, SequenceTheorems, TLAPS

Live == {"sending", "waiting", "answered", "ok"}

(* A transaction continues where its request stands. *)
InflightInPlace ==
    \A t \in inflight : /\ t.first = pos[t.req] + 1
                        /\ phase[t.req] \in {"waiting", "error"}

(* A handler that has all its answers has nothing on its way. *)
OneTxnAtATime == \A t, u \in inflight : t.req = u.req => t = u

SettledIsOver == \A r \in Request : \A q \in settled[r] :
                    phase[q] \in Final /\ ~ HasInflight(q)

NotBeforeArrival == \A r \in Request : r \notin settled[r]

(* Every key of an operation already applied holds the value of a request *)
(* that was not over when this one arrived.                               *)
Covered == \A r \in Request : phase[r] \in Live =>
              \A i \in 1 .. pos[r] : \A k \in body[r].ops[i].keys :
                 \E q \in Request : MayOverwrite(q, r, k) /\ store[k] = ValueOf(q)

NewIsUntouched == \A r \in Request : phase[r] \in {"new", "rejected"} => pos[r] = 0

OkIsComplete == \A r \in Request : phase[r] = "ok" => pos[r] = Len(body[r].ops)

IInv == /\ TypeOK
        /\ InflightInPlace
        /\ OneTxnAtATime
        /\ SettledIsOver
        /\ NotBeforeArrival
        /\ Covered
        /\ OkIsComplete
        /\ NewIsUntouched

-----------------------------------------------------------------------------
(* The operations of a body are a sequence of sets of keys. *)
Operations == [keys : SUBSET Key, size : Nat]

LEMMA BodyOps ==
  ASSUME NEW b \in Bodies
  PROVE  /\ b.ops \in Seq(Operations)
         /\ Len(b.ops) \in Nat
         /\ \A i \in 1 .. Len(b.ops) : b.ops[i].keys \subseteq Key
<1>1. ASSUME NEW kind \in {"add", "delete"}, b.ops \in OpLists(kind)
      PROVE  b.ops \in Seq(Operations)
  <2>1. Lengths[kind] \subseteq Nat
    BY WritesAssumption
  <2>2. PICK n \in 0 .. MaxOps :
           b.ops \in [1 .. n -> [keys : {{k} : k \in Key}, size : Lengths[kind]]]
    BY <1>1 DEF OpLists
  <2>3. [keys : {{k} : k \in Key}, size : Lengths[kind]] \subseteq Operations
    BY <2>1 DEF Operations
  <2>4. b.ops \in [1 .. n -> Operations] /\ n \in Nat
    BY <2>2, <2>3, WritesAssumption
  <2> QED
    BY <2>4, IsASeq
<1>2. CASE b.ops = <<[keys |-> Key, size |-> 0]>>
  <2>1. [keys |-> Key, size |-> 0] \in Operations
    BY DEF Operations
  <2> QED
    BY <1>2, <2>1
<1>3. b.ops \in Seq(Operations)
  BY <1>1, <1>2 DEF Bodies
<1>4. Len(b.ops) \in Nat /\ \A i \in 1 .. Len(b.ops) : b.ops[i] \in Operations
  BY <1>3, ElementOfSeq, LenProperties
<1>5. \A op \in Operations : op.keys \subseteq Key
  BY DEF Operations
<1> QED
  BY <1>3, <1>4, <1>5

LEMMA InitIInv == Init => IInv
<1> SUFFICES ASSUME Init PROVE IInv
  OBVIOUS
<1>1. \A r \in Request : Len(body[r].ops) \in Nat
  BY BodyOps DEF Init
<1>2. TypeOK
  BY <1>1 DEF Init, TypeOK, Phases
<1>3. InflightInPlace /\ OneTxnAtATime /\ SettledIsOver /\ NotBeforeArrival
  BY DEF Init, InflightInPlace, OneTxnAtATime, SettledIsOver, NotBeforeArrival
<1>4. Covered /\ OkIsComplete /\ NewIsUntouched
  BY DEF Init, Covered, OkIsComplete, NewIsUntouched, Live
<1> QED
  BY <1>2, <1>3, <1>4 DEF IInv

(* The keys of a transaction are keys its request asked for. *)
LEMMA TxnKeysRequested ==
  ASSUME TypeOK, NEW t \in inflight, NEW k \in KeysOfTxn(t)
  PROVE  k \in KeysOf(body[t.req])
<1>1. t \in Txns /\ t.req \in Request /\ Len(body[t.req].ops) \in Nat
  BY BodyOps DEF TypeOK, Txns
<1>2. PICK i \in t.first .. t.last : k \in body[t.req].ops[i].keys
  BY DEF KeysOfTxn
<1>3. i \in 1 .. Len(body[t.req].ops)
  BY <1>1 DEF Txns
<1> QED
  BY <1>2, <1>3 DEF KeysOf

(* Coverage survives a step that leaves the store, the bodies and the      *)
(* positions alone, the settled set of every request that has begun too,   *)
(* and moves handlers forward only.                                        *)
LEMMA CoveredWhenStoreKept ==
  ASSUME IInv, UNCHANGED <<store, body, pos>>,
         \A r \in Request : /\ pos[r] # 0 => settled'[r] = settled[r]
                            /\ phase'[r] \in Live => phase[r] \in Live \/ pos[r] = 0
                            /\ phase[r] \notin {"new", "rejected"}
                                  => phase'[r] \notin {"new", "rejected"}
  PROVE  Covered'
<1> SUFFICES ASSUME NEW r \in Request, phase'[r] \in Live, NEW i \in 1 .. pos[r],
                    NEW k \in body[r].ops[i].keys
             PROVE  \E q \in Request : MayOverwrite(q, r, k)' /\ store[k] = ValueOf(q)
  BY DEF Covered, ValueOf
<1>1. phase[r] \in Live /\ settled'[r] = settled[r]
  BY DEF IInv, TypeOK
<1>2. PICK q \in Request : MayOverwrite(q, r, k) /\ store[k] = ValueOf(q)
  BY <1>1 DEF IInv, Covered
<1> QED
  BY <1>1, <1>2 DEF MayOverwrite, KeysOf

-----------------------------------------------------------------------------
LEMMA ArriveKeepsIInv ==
  ASSUME IInv, NEW r \in Request, Arrive(r) PROVE IInv'
<1>1. TypeOK'
  BY DEF IInv, TypeOK, Arrive, Settled, Phases, Running, Txns
<1>2. InflightInPlace' /\ OneTxnAtATime'
  BY DEF IInv, TypeOK, Arrive, InflightInPlace, OneTxnAtATime, Txns
<1>3. SettledIsOver'
  <2> SUFFICES ASSUME NEW x \in Request, NEW q \in settled'[x]
               PROVE  phase'[q] \in Final /\ ~ HasInflight(q)
    BY DEF SettledIsOver, Arrive, HasInflight
  <2>1. phase[q] \in Final /\ ~ HasInflight(q) /\ q \in Request
    BY DEF IInv, TypeOK, SettledIsOver, Arrive, Settled
  <2> QED
    BY <2>1 DEF IInv, TypeOK, Arrive, Final
<1>4. NotBeforeArrival'
  BY DEF IInv, TypeOK, NotBeforeArrival, Arrive, Settled, Final
<1>5. Covered'
  <2>1. pos[r] = 0
    BY DEF IInv, NewIsUntouched, Arrive
  <2> QED
    BY <2>1, CoveredWhenStoreKept DEF IInv, TypeOK, Arrive, Live
<1>6. OkIsComplete' /\ NewIsUntouched'
  BY DEF IInv, TypeOK, OkIsComplete, NewIsUntouched, Arrive
<1> QED
  BY <1>1, <1>2, <1>3, <1>4, <1>5, <1>6 DEF IInv

(* Steps of a handler that only move its phase on. *)
LEMMA PhaseStepKeepsIInv ==
  ASSUME IInv, NEW r \in Request, NEW p \in Phases \ {"new"},
         phase' = [phase EXCEPT ![r] = p],
         UNCHANGED <<store, body, pos, inflight, settled>>,
         phase[r] \notin Final,
         HasInflight(r) => p = "error",
         p \in Live => phase[r] \in Live,
         p = "rejected" => phase[r] = "new",
         p = "ok" => pos[r] = Len(body[r].ops)
  PROVE  IInv'
<1>1. TypeOK'
  BY DEF IInv, TypeOK, Txns
<1>2. InflightInPlace' /\ OneTxnAtATime'
  BY DEF IInv, TypeOK, InflightInPlace, OneTxnAtATime, Txns, HasInflight
<1>3. SettledIsOver' /\ NotBeforeArrival'
  BY DEF IInv, TypeOK, SettledIsOver, NotBeforeArrival, HasInflight
<1>4. Covered'
  BY CoveredWhenStoreKept DEF IInv, TypeOK, Live, Final
<1>5. OkIsComplete' /\ NewIsUntouched'
  BY DEF IInv, TypeOK, OkIsComplete, NewIsUntouched
<1> QED
  BY <1>1, <1>2, <1>3, <1>4, <1>5 DEF IInv

(* A handler that is not waiting and has not failed has nothing in flight. *)
LEMMA NothingInflight ==
  ASSUME IInv, NEW r \in Request, phase[r] \notin {"waiting", "error"}
  PROVE  ~ HasInflight(r)
BY DEF IInv, InflightInPlace, HasInflight

LEMMA SendTxnKeepsIInv ==
  ASSUME IInv, NEW r \in Request, SendTxn(r) PROVE IInv'
<1> DEFINE T(n) == [req |-> r, first |-> pos[r] + 1, last |-> pos[r] + n]
<1>1. PICK n \in BatchSizes(r) : inflight' = inflight \cup {T(n)}
  BY DEF SendTxn
<1>2. pos[r] \in Nat /\ Len(body[r].ops) \in Nat /\ pos[r] < Len(body[r].ops)
  BY BodyOps DEF IInv, TypeOK, SendTxn
<1>3. ~ HasInflight(r)
  BY NothingInflight DEF SendTxn
<1>4. /\ n \in Nat \ {0} /\ pos[r] + n <= Len(body[r].ops)
      /\ T(n) \in [req : Request, first : Nat \ {0}, last : Nat \ {0}]
  BY <1>2, WritesAssumption DEF BatchSizes
<1>5. T(n) \in Txns
  BY <1>2, <1>4 DEF Txns
<1>6. /\ UNCHANGED <<store, body, pos, settled>> /\ phase[r] = "sending"
      /\ phase' = [phase EXCEPT ![r] = "waiting"]
  BY DEF SendTxn
<1>7. TypeOK'
  BY <1>1, <1>5, <1>6 DEF IInv, TypeOK, Txns, Phases, Running
<1>8. InflightInPlace'
  BY <1>1, <1>3, <1>6 DEF IInv, TypeOK, InflightInPlace, Txns, HasInflight
<1>9. OneTxnAtATime'
  BY <1>1, <1>3 DEF IInv, OneTxnAtATime, HasInflight
<1>10. SettledIsOver' /\ NotBeforeArrival'
  BY <1>1, <1>6 DEF IInv, TypeOK, SettledIsOver, NotBeforeArrival, HasInflight, Final
<1>11. Covered'
  BY <1>6, CoveredWhenStoreKept DEF IInv, TypeOK, Live
<1>12. OkIsComplete' /\ NewIsUntouched'
  BY <1>6 DEF IInv, TypeOK, OkIsComplete, NewIsUntouched
<1> QED
  BY <1>7, <1>8, <1>9, <1>10, <1>11, <1>12 DEF IInv

LEMMA ApplyTxnKeepsIInv ==
  ASSUME IInv, NEW t \in inflight, ApplyTxn(t) PROVE IInv'
<1>1. /\ t \in Txns /\ t.req \in Request /\ t.first \in Nat /\ t.last \in Nat
      /\ t.first <= t.last /\ t.last <= Len(body[t.req].ops)
      /\ t.first = pos[t.req] + 1 /\ phase[t.req] \in {"waiting", "error"}
  BY DEF IInv, TypeOK, InflightInPlace, Txns
<1>2. /\ UNCHANGED <<body, settled>> /\ inflight' = inflight \ {t}
      /\ pos' = [pos EXCEPT ![t.req] = t.last]
      /\ \A r \in Request : phase'[r] = IF r = t.req /\ phase[r] = "waiting"
                                        THEN "answered" ELSE phase[r]
      /\ phase' \in [Request -> Phases]
  BY <1>1 DEF ApplyTxn, IInv, TypeOK, Phases, Running
<1>3. \A r \in Request : ValueOf(r)' = ValueOf(r) /\ ValueOf(r) \in Request \cup {Old, Absent}
  BY <1>2 DEF ValueOf
<1>4. store' = [k \in Key |-> IF k \in KeysOfTxn(t) THEN ValueOf(t.req) ELSE store[k]]
  BY DEF ApplyTxn
<1>5. TypeOK'
  BY <1>1, <1>2, <1>3, <1>4 DEF IInv, TypeOK, Txns
<1>6. \A u \in inflight' : u.req # t.req
  BY <1>2 DEF IInv, OneTxnAtATime
<1>7. InflightInPlace'
  BY <1>1, <1>2, <1>6 DEF IInv, TypeOK, InflightInPlace, Txns
<1>8. OneTxnAtATime'
  BY <1>2 DEF IInv, OneTxnAtATime
<1>9. SettledIsOver' /\ NotBeforeArrival'
  BY <1>1, <1>2 DEF IInv, TypeOK, SettledIsOver, NotBeforeArrival, HasInflight, Final
<1>10. Covered'
  <2> SUFFICES ASSUME NEW r \in Request, phase'[r] \in Live, NEW i \in 1 .. pos'[r],
                      NEW k \in body[r].ops[i].keys
               PROVE  \E q \in Request : MayOverwrite(q, r, k)' /\ store'[k] = ValueOf(q)
    BY <1>2, <1>3 DEF Covered
  <2>1. phase[r] \in Live /\ pos[r] \in Nat
    BY <1>2 DEF Live, IInv, TypeOK
  <2>2. k \in Key
    <3>1. i \in 1 .. Len(body[r].ops)
      BY <1>5, <1>2, BodyOps DEF TypeOK
    <3> QED
      BY <3>1, BodyOps DEF IInv, TypeOK
  <2>3. CASE k \in KeysOfTxn(t)
    <3>1. t.req \notin settled[r]
      BY DEF IInv, SettledIsOver, HasInflight
    <3>2. k \in KeysOf(body[t.req])
      BY <2>3, TxnKeysRequested DEF IInv
    <3>3. MayOverwrite(t.req, r, k)'
      BY <1>1, <1>2, <3>1, <3>2 DEF MayOverwrite, KeysOf
    <3> QED
      BY <1>1, <1>4, <2>2, <2>3, <3>3
  <2>4. CASE k \notin KeysOfTxn(t)
    <3>1. i \in 1 .. pos[r]
      <4>1. CASE r = t.req
        BY <1>1, <1>2, <2>1, <2>4, <4>1 DEF KeysOfTxn, IInv, TypeOK
      <4>2. CASE r # t.req
        BY <1>2, <4>2 DEF IInv, TypeOK
      <4> QED
        BY <4>1, <4>2
    <3>2. PICK q \in Request : MayOverwrite(q, r, k) /\ store[k] = ValueOf(q)
      BY <2>1, <3>1 DEF IInv, Covered
    <3>3. MayOverwrite(q, r, k)'
      BY <1>2, <3>2 DEF MayOverwrite, KeysOf
    <3> QED
      BY <1>4, <2>2, <2>4, <3>2, <3>3
  <2> QED
    BY <2>3, <2>4
<1>11. OkIsComplete' /\ NewIsUntouched'
  BY <1>1, <1>2 DEF IInv, TypeOK, OkIsComplete, NewIsUntouched
<1> QED
  BY <1>5, <1>7, <1>8, <1>9, <1>10, <1>11 DEF IInv

LEMMA LoseTxnKeepsIInv ==
  ASSUME IInv, NEW t \in inflight, LoseTxn(t) PROVE IInv'
<1>1. UNCHANGED <<store, body, phase, pos, settled>> /\ inflight' = inflight \ {t}
  BY DEF LoseTxn
<1>2. TypeOK' /\ OkIsComplete' /\ NewIsUntouched' /\ NotBeforeArrival'
  BY <1>1 DEF IInv, TypeOK, Txns, OkIsComplete, NewIsUntouched, NotBeforeArrival
<1>3. InflightInPlace' /\ OneTxnAtATime' /\ SettledIsOver'
  BY <1>1 DEF IInv, InflightInPlace, OneTxnAtATime, SettledIsOver, HasInflight
<1>4. Covered'
  BY <1>1, CoveredWhenStoreKept
<1> QED
  BY <1>2, <1>3, <1>4 DEF IInv

LEMMA NextKeepsIInv == IInv /\ [Next]_vars => IInv'
<1> SUFFICES ASSUME IInv, [Next]_vars PROVE IInv'
  OBVIOUS
<1> USE DEF Phases, Running, Final, Live
<1>1. ASSUME NEW r \in Request, Arrive(r) PROVE IInv'
  BY <1>1, ArriveKeepsIInv
<1>2. ASSUME NEW r \in Request, Reject(r) PROVE IInv'
  BY <1>2, PhaseStepKeepsIInv, NothingInflight DEF Reject
<1>3. ASSUME NEW r \in Request, SendTxn(r) PROVE IInv'
  BY <1>3, SendTxnKeepsIInv
<1>4. ASSUME NEW r \in Request, TxnAnswered(r) PROVE IInv'
  BY <1>4, PhaseStepKeepsIInv, NothingInflight DEF TxnAnswered
<1>5. ASSUME NEW r \in Request, TxnFails(r) PROVE IInv'
  BY <1>5, PhaseStepKeepsIInv DEF TxnFails
<1>6. ASSUME NEW r \in Request, Acknowledge(r) PROVE IInv'
  BY <1>6, PhaseStepKeepsIInv, NothingInflight DEF Acknowledge
<1>7. ASSUME NEW t \in inflight, ApplyTxn(t) PROVE IInv'
  BY <1>7, ApplyTxnKeepsIInv
<1>8. ASSUME NEW t \in inflight, LoseTxn(t) PROVE IInv'
  BY <1>8, LoseTxnKeepsIInv
<1>9. CASE UNCHANGED vars
  <2>1. UNCHANGED <<store, body, phase, pos, inflight, settled>>
    BY <1>9 DEF vars
  <2>2. Covered'
    BY <2>1, CoveredWhenStoreKept
  <2> QED
    BY <2>1, <2>2 DEF IInv, TypeOK, Txns, InflightInPlace, OneTxnAtATime, SettledIsOver,
       HasInflight, NotBeforeArrival, OkIsComplete, NewIsUntouched
<1> QED
  BY <1>1, <1>2, <1>3, <1>4, <1>5, <1>6, <1>7, <1>8, <1>9 DEF Next, Handle, Consul, AllDone

(* The inductive invariant holds in every reachable state. *)
THEOREM Inductive == Spec => []IInv
<1> QED
  BY InitIInv, NextKeepsIInv, PTL DEF Spec

(* Type correctness for any requests, keys and limits. *)
THEOREM TypeCorrect == Spec => []TypeOK
<1>1. IInv => TypeOK
  BY DEF IInv
<1> QED
  BY <1>1, Inductive, PTL

(* No acknowledged write is lost to anything that was over when it arrived. *)
THEOREM AcknowledgedIsWritten == Spec => []AckMeansWritten
<1>1. IInv => AckMeansWritten
  <2> SUFFICES ASSUME IInv, NEW r \in Request, phase[r] = "ok", NEW k \in KeysOf(body[r])
               PROVE  \E q \in Request : MayOverwrite(q, r, k) /\ store[k] = ValueOf(q)
    BY DEF AckMeansWritten
  <2>1. PICK i \in 1 .. pos[r] : k \in body[r].ops[i].keys
    BY DEF KeysOf, IInv, OkIsComplete
  <2> QED
    BY <2>1 DEF IInv, Covered, Live
<1> QED
  BY <1>1, Inductive, PTL

(* An acknowledged or rejected request has nothing on its way to Consul. *)
THEOREM AcknowledgedIsFinal == Spec => []AckIsFinal
<1>1. IInv => AckIsFinal
  BY DEF IInv, AckIsFinal, InflightInPlace, HasInflight
<1> QED
  BY <1>1, Inductive, PTL

-----------------------------------------------------------------------------
(* A step leaves the values of a key alone or stores the one its request   *)
(* asked for, and no request goes back behind its validation.              *)
LEMMA StepKeepsRequested == IInv /\ ValuesAreRequested /\ [Next]_vars => ValuesAreRequested'
<1> SUFFICES ASSUME IInv, ValuesAreRequested, [Next]_vars, NEW k \in Key,
                    store'[k] \notin {Old, Absent}
             PROVE  /\ phase'[store'[k]] \notin {"new", "rejected"}
                    /\ body'[store'[k]].kind = "add"
                    /\ k \in KeysOf(body'[store'[k]])
  BY DEF ValuesAreRequested, KeysOf
<1> USE DEF KeysOf
<1>1. CASE UNCHANGED <<store, body>>
  <2>1. /\ store[k] \in Request /\ phase[store[k]] \notin {"new", "rejected"}
        /\ body[store[k]].kind = "add" /\ k \in KeysOf(body[store[k]])
    BY <1>1 DEF IInv, TypeOK, ValuesAreRequested
  <2>2. phase'[store[k]] \notin {"new", "rejected"}
    BY <2>1 DEF Next, Handle, Consul, AllDone, vars, Arrive, Reject, SendTxn, TxnAnswered,
       TxnFails, Acknowledge, ApplyTxn, LoseTxn, IInv, TypeOK
  <2> QED
    BY <1>1, <2>1, <2>2
<1>2. ASSUME NEW t \in inflight, ApplyTxn(t)
      PROVE  /\ phase'[store'[k]] \notin {"new", "rejected"}
             /\ body'[store'[k]].kind = "add"
             /\ k \in KeysOf(body'[store'[k]])
  <2>1. /\ t.req \in Request /\ phase[t.req] \in {"waiting", "error"} /\ body' = body
        /\ \A r \in Request : phase[r] \notin {"new", "rejected"}
                               => phase'[r] \notin {"new", "rejected"}
    BY <1>2 DEF ApplyTxn, IInv, TypeOK, InflightInPlace, Txns
  <2>2. CASE k \in KeysOfTxn(t)
    <3>1. store'[k] = t.req /\ body[t.req].kind = "add"
      BY <1>2, <2>2 DEF ApplyTxn, ValueOf
    <3>2. k \in KeysOf(body[t.req])
      BY <2>2, TxnKeysRequested DEF IInv
    <3> QED
      BY <2>1, <3>1, <3>2
  <2>3. CASE k \notin KeysOfTxn(t)
    <3>1. store'[k] = store[k] /\ store[k] \in Request
      BY <1>2, <2>3 DEF ApplyTxn, IInv, TypeOK
    <3> QED
      BY <2>1, <3>1 DEF ValuesAreRequested
  <2> QED
    BY <2>2, <2>3
<1> QED
  BY <1>1, <1>2 DEF Next, Handle, Consul, AllDone, vars, Arrive, Reject, SendTxn, TxnAnswered,
     TxnFails, Acknowledge, LoseTxn

(* Whatever a key holds was there before or asked for by a request that    *)
(* passed its validation.                                                  *)
THEOREM StoredIsRequested == Spec => []ValuesAreRequested
<1>1. Init => ValuesAreRequested
  BY DEF Init, ValuesAreRequested
<1> QED
  BY <1>1, StepKeepsRequested, Inductive, PTL DEF Spec

-----------------------------------------------------------------------------
(* A request that fits one transaction is sent as one, and never stands in *)
(* the middle.                                                             *)
Whole == \A r \in Request : body[r] \in OneTxn => pos[r] \in {0, Len(body[r].ops)}

WholeTxns == /\ Whole
             /\ \A t \in inflight : body[t.req] \in OneTxn => t.last = Len(body[t.req].ops)

(* Its first batch has all of its operations. *)
LEMMA WholeBatch ==
  ASSUME NEW r \in Request, body[r] \in OneTxn, pos[r] = 0,
         Len(body[r].ops) \in Nat, NEW n \in BatchSizes(r)
  PROVE  n = Len(body[r].ops)
<1> DEFINE ops == body[r].ops
<1>1. FitsOneTxn(ops, 0 + 1, 0 + Len(ops))
  BY DEF OneTxn
<1>2. n \in 1 .. Len(ops) /\ \A m \in n + 1 .. Len(ops) : ~ FitsOneTxn(ops, 0 + 1, 0 + m)
  BY DEF BatchSizes
<1> QED
  BY <1>1, <1>2

LEMMA StepKeepsWhole ==
  ASSUME IInv, WholeTxns, [Next]_vars
  PROVE  WholeTxns'
<1>1. ASSUME NEW r \in Request, SendTxn(r) PROVE WholeTxns'
  <2>1. PICK n \in BatchSizes(r) :
           inflight' = inflight \cup {[req |-> r, first |-> pos[r] + 1, last |-> pos[r] + n]}
    BY <1>1 DEF SendTxn
  <2>2. /\ pos[r] \in Nat /\ Len(body[r].ops) \in Nat /\ body' = body /\ pos' = pos
        /\ pos[r] < Len(body[r].ops) /\ n \in Nat
    BY <1>1, BodyOps DEF IInv, TypeOK, BatchSizes, SendTxn
  <2>3. body[r] \in OneTxn => pos[r] = 0 /\ n = Len(body[r].ops)
    BY <2>2, WholeBatch DEF WholeTxns, Whole
  <2> QED
    BY <2>1, <2>2, <2>3 DEF WholeTxns, Whole
<1>2. ASSUME NEW t \in inflight, ApplyTxn(t) PROVE WholeTxns'
  BY <1>2 DEF WholeTxns, Whole, ApplyTxn, IInv, TypeOK, Txns
<1>3. CASE UNCHANGED <<body, pos>> /\ inflight' \subseteq inflight
  BY <1>3 DEF WholeTxns, Whole
<1> QED
  BY <1>1, <1>2, <1>3 DEF Next, Handle, Consul, AllDone, vars, Arrive, Reject, TxnAnswered,
     TxnFails, Acknowledge, LoseTxn

(* What AtomicWrites sees of a request. *)
Outcome == [r \in Request |-> IF phase[r] \in Running THEN "running" ELSE phase[r]]

(* A transaction that is applied is the next stretch of its request. *)
LEMMA ApplyTakesEffect ==
  ASSUME IInv, WholeTxns, NEW t \in inflight, ApplyTxn(t)
  PROVE  Atomic!TakeEffect(t.req)
<1>1. /\ t.req \in Request /\ t.first = pos[t.req] + 1 /\ t.last \in Nat
      /\ pos[t.req] \in Nat /\ Len(body[t.req].ops) \in Nat
      /\ t.last \in pos[t.req] + 1 .. Len(body[t.req].ops)
      /\ phase[t.req] \in {"waiting", "error"}
  BY BodyOps DEF IInv, TypeOK, InflightInPlace, Txns
<1>2. body[t.req] \in OneTxn => t.last = Len(body[t.req].ops)
  BY DEF WholeTxns
<1>3. KeysOfTxn(t) = Atomic!KeysUpTo(t.req, t.last)
  BY <1>1 DEF KeysOfTxn, Atomic!KeysUpTo
<1>4. store' = [k \in Key |-> IF k \in Atomic!KeysUpTo(t.req, t.last)
                             THEN IF body[t.req].kind = "add" THEN t.req ELSE Absent
                             ELSE store[k]]
  BY <1>3 DEF ApplyTxn, ValueOf
<1>5. Outcome' = Outcome /\ Outcome[t.req] \in {"running", "error"} /\ body' = body
  BY <1>1 DEF Outcome, ApplyTxn, IInv, TypeOK, Running
<1>6. pos' = [pos EXCEPT ![t.req] = t.last]
  BY DEF ApplyTxn
<1> QED
  BY <1>1, <1>2, <1>4, <1>5, <1>6 DEF Atomic!TakeEffect, Outcome

LEMMA StepIsAtomic ==
  ASSUME IInv, WholeTxns, [Next]_vars
  PROVE  [Atomic!Next]_(Atomic!avars)
<1> USE DEF Running
<1>1. ASSUME NEW r \in Request, Arrive(r) PROVE Atomic!Begin(r)
  BY <1>1 DEF Arrive, Atomic!Begin, IInv, TypeOK
<1>2. ASSUME NEW r \in Request, Reject(r) PROVE Atomic!Begin(r)
  BY <1>2 DEF Reject, Atomic!Begin, IInv, TypeOK
<1>3. ASSUME NEW r \in Request, SendTxn(r) PROVE UNCHANGED Atomic!avars
  BY <1>3 DEF SendTxn, Atomic!avars, IInv, TypeOK
<1>4. ASSUME NEW r \in Request, TxnAnswered(r) PROVE UNCHANGED Atomic!avars
  BY <1>4 DEF TxnAnswered, Atomic!avars, IInv, TypeOK
<1>5. ASSUME NEW r \in Request, TxnFails(r) PROVE Atomic!Answer(r)
  BY <1>5 DEF TxnFails, Atomic!Answer, IInv, TypeOK
<1>6. ASSUME NEW r \in Request, Acknowledge(r) PROVE Atomic!Answer(r)
  BY <1>6 DEF Acknowledge, Atomic!Answer, IInv, TypeOK
<1>7. ASSUME NEW t \in inflight, ApplyTxn(t) PROVE t.req \in Request /\ Atomic!TakeEffect(t.req)
  BY <1>7, ApplyTakesEffect DEF IInv, TypeOK, Txns
<1>8. ASSUME NEW t \in inflight, LoseTxn(t) PROVE UNCHANGED Atomic!avars
  BY <1>8 DEF LoseTxn, Atomic!avars
<1>9. CASE UNCHANGED vars
  BY <1>9 DEF vars, Atomic!avars
<1> QED
  BY <1>1, <1>2, <1>3, <1>4, <1>5, <1>6, <1>7, <1>8, <1>9
     DEF Next, Handle, Consul, AllDone, Atomic!Next

(* A request takes effect in growing prefixes, at once if it fits one      *)
(* transaction in count and in length: each step of the handlers and of Consul is a step of       *)
(* AtomicWrites or changes nothing it sees.                                *)
THEOREM RefinesAtomicWrites == Spec => ImplementsAtomicWrites
<1>1. Init => Atomic!Init
  BY DEF Init, Atomic!Init, Running
<1>2. Init => WholeTxns
  BY DEF Init, WholeTxns, Whole
<1>3. IInv /\ WholeTxns /\ [Next]_vars => WholeTxns'
  BY StepKeepsWhole
<1>4. IInv /\ WholeTxns /\ [Next]_vars => [Atomic!Next]_(Atomic!avars)
  BY StepIsAtomic
<1> QED
  BY <1>1, <1>2, <1>3, <1>4, Inductive, PTL DEF Spec, ImplementsAtomicWrites, Atomic!Spec
=============================================================================
