---------------------------- MODULE ConfigWrites ----------------------------
(***************************************************************************)
(* Write requests to one application and profile, handled concurrently by  *)
(* any number of replicas: ConfigController.AddProperties and              *)
(* DeleteProperties, the ConsulService operations they call, and Consul,   *)
(* which applies one transaction at a time.  No lock is taken anywhere.    *)
(*                                                                         *)
(* A request is a sequence of operations sent in batches (TxnBatcher), the *)
(* next one only after the answer to the previous one.  An answer can be   *)
(* lost and a transaction delayed: the handler then fails while its        *)
(* transaction is still on its way.  A crash of the replica is the same to *)
(* the client and to Consul, and is covered by the same step.              *)
(*                                                                         *)
(* The value an add stores is named after its request, so that the store   *)
(* tells who wrote what.                                                   *)
(***************************************************************************)
EXTENDS Naturals, Sequences, Functions

CONSTANTS Request,                 \* the write requests
          Key,                     \* the property keys of the profile
          Old,                     \* a value stored before any of them
          Absent,                  \* the "value" of a key that is not stored
          Lengths,                 \* of the operations of an add and a delete
          consulTxOperationLimit,
          txnMaxReqLen,
          MaxOps                   \* bound: operations in one request

ASSUME WritesAssumption ==
    /\ Old \notin Request /\ Absent \notin Request /\ Old # Absent
    /\ Lengths \in [{"add", "delete"} -> SUBSET Nat]
    /\ consulTxOperationLimit \in Nat \ {0}
    /\ txnMaxReqLen \in Nat
    /\ MaxOps \in Nat

VARIABLES store,     \* Consul: the value of every key
          body,      \* the request's kind and operations
          phase,     \* where its handler is
          pos,       \* number of operations Consul has applied
          inflight,  \* transactions sent and not applied
          settled    \* history: the requests over and done with at arrival

vars == <<store, body, phase, pos, inflight, settled>>

Running == {"sending", "waiting", "answered"}
Final == {"ok", "error", "rejected"}

-----------------------------------------------------------------------------
(* An operation has the keys it writes, one for KVSet and KVDelete and all *)
(* of them for the DeleteTree of DeleteProfile, and a length.  The keys of *)
(* an add are the keys of a JSON object, so they are distinct and ranged   *)
(* over in any order; a delete may name a key twice, and an empty list     *)
(* deletes nothing while no list at all deletes the profile.               *)
OpLists(kind) ==
    LET ops == [keys : {{k} : k \in Key}, size : Lengths[kind]]
    IN  UNION {[1 .. n -> ops] : n \in 0 .. MaxOps}

Distinct(s) == \A i, j \in DOMAIN s : i # j => s[i].keys # s[j].keys

Bodies == [kind : {"add"}, ops : {s \in OpLists("add") : Distinct(s)}]
          \cup [kind : {"delete"}, ops : OpLists("delete")]
          \cup [kind : {"deleteProfile"}, ops : {<<[keys |-> Key, size |-> 0]>>}]

KeysOf(b) == UNION {b.ops[i].keys : i \in 1 .. Len(b.ops)}

ValueOf(r) == IF body[r].kind = "add" THEN r ELSE Absent

Init == /\ store \in [Key -> {Old, Absent}]
        /\ body \in [Request -> Bodies]
        /\ phase = [r \in Request |-> "new"]
        /\ pos = [r \in Request |-> 0]
        /\ inflight = {}
        /\ settled = [r \in Request |-> {}]

-----------------------------------------------------------------------------
HasInflight(r) == \E t \in inflight : t.req = r

Settled == {q \in Request : phase[q] \in Final /\ ~ HasInflight(q)}

(* The controller accepts the body and calls the service. *)
Arrive(r) == /\ phase[r] = "new"
             /\ phase' = [phase EXCEPT ![r] = "sending"]
             /\ settled' = [settled EXCEPT ![r] = Settled]
             /\ UNCHANGED <<store, body, pos, inflight>>

(* Mutant: the keys are validated while they are written. *)
Reject_AfterWriting(r) ==
    /\ phase[r] = "new"
    /\ phase' = [phase EXCEPT ![r] = "rejected"]
    /\ store' = [k \in Key |-> IF k \in KeysOf(body[r]) THEN ValueOf(r) ELSE store[k]]
    /\ UNCHANGED <<body, pos, inflight, settled>>

(* The body does not parse or, for an add, a value is not a scalar or a    *)
(* key starts with a dot: 400, before the service is called.               *)
Reject(r) == /\ phase[r] = "new"
             /\ phase' = [phase EXCEPT ![r] = "rejected"]
             /\ UNCHANGED <<store, body, pos, inflight, settled>>

LengthOf(s, i, j) == SumFunction([n \in i .. j |-> s[n].size])

(* The operations i to j of s fit one transaction: an operation alone does *)
(* whatever its length, more of them within the limits on count and length.*)
FitsOneTxn(s, i, j) ==
    \/ i = j
    \/ j < i + consulTxOperationLimit /\ LengthOf(s, i, j) <= txnMaxReqLen

(* The bodies that the batcher never splits. *)
OneTxn == {b \in Bodies : FitsOneTxn(b.ops, 1, Len(b.ops))}

(* Mutant: a batch of exactly the length limit is split. *)
BatchSizes_Shorter(r) ==
    LET ops == body[r].ops
        Fits(n) == n = 1 \/ /\ n <= consulTxOperationLimit
                            /\ LengthOf(ops, pos[r] + 1, pos[r] + n) < txnMaxReqLen
    IN  {n \in 1 .. Len(ops) - pos[r] :
            Fits(n) /\ \A m \in n + 1 .. Len(ops) - pos[r] : ~ Fits(m)}

(* The size of the next batch, the longest that fits one transaction: add() *)
(* flushes only when the next operation does not fit.                       *)
BatchSizes(r) ==
    LET ops == body[r].ops
        Fits(n) == FitsOneTxn(ops, pos[r] + 1, pos[r] + n)
    IN  {n \in 1 .. Len(ops) - pos[r] :
            Fits(n) /\ \A m \in n + 1 .. Len(ops) - pos[r] : ~ Fits(m)}

(* Mutant: the batches are sent without waiting for their answers. *)
SendTxn_NoWait(r) ==
    /\ phase[r] = "sending"
    /\ pos[r] < Len(body[r].ops)
    /\ \E n \in BatchSizes(r) :
          /\ inflight' = inflight \cup
                 {[req |-> r, first |-> pos[r] + 1, last |-> pos[r] + n]}
          /\ pos' = [pos EXCEPT ![r] = @ + n]
    /\ UNCHANGED <<store, body, phase, settled>>

(* Mutant: the batch after the last one is empty and is sent too. *)
SendTxn_PastTheEnd(r) ==
    /\ phase[r] = "sending"
    /\ \E n \in {1} :
          inflight' = inflight \cup
              {[req |-> r, first |-> pos[r] + 1, last |-> pos[r] + n]}
    /\ phase' = [phase EXCEPT ![r] = "waiting"]
    /\ UNCHANGED <<store, body, pos, settled>>

SendTxn(r) == /\ phase[r] = "sending"
              /\ pos[r] < Len(body[r].ops)
              /\ \E n \in BatchSizes(r) :
                    inflight' = inflight \cup
                        {[req |-> r, first |-> pos[r] + 1, last |-> pos[r] + n]}
              /\ phase' = [phase EXCEPT ![r] = "waiting"]
              /\ UNCHANGED <<store, body, pos, settled>>

KeysOfTxn(t) == UNION {body[t.req].ops[i].keys : i \in t.first .. t.last}

(* Consul applies a transaction as a whole, whether its handler still      *)
(* waits for the answer or not.  One that is too long for it ends in       *)
(* TxnFails and LoseTxn.                                                   *)
ApplyTxn(t) ==
    /\ store' = [k \in Key |-> IF k \in KeysOfTxn(t) THEN ValueOf(t.req) ELSE store[k]]
    /\ inflight' = inflight \ {t}
    /\ pos' = [pos EXCEPT ![t.req] = t.last]
    /\ phase' = [phase EXCEPT ![t.req] = IF @ = "waiting" THEN "answered" ELSE @]
    /\ UNCHANGED <<body, settled>>

(* The answer arrives and the batcher goes on. *)
TxnAnswered(r) == /\ phase[r] = "answered"
                  /\ phase' = [phase EXCEPT ![r] = "sending"]
                  /\ UNCHANGED <<store, body, pos, inflight, settled>>

(* The transaction is refused or lost, or its answer is: 500.  A           *)
(* transaction that was not applied yet may still be on its way.           *)
TxnFails(r) == /\ phase[r] \in {"waiting", "answered"}
               /\ phase' = [phase EXCEPT ![r] = "error"]
               /\ UNCHANGED <<store, body, pos, inflight, settled>>

(* A transaction whose handler is gone never reaches Consul. *)
LoseTxn(t) == /\ phase[t.req] \in Final
              /\ inflight' = inflight \ {t}
              /\ UNCHANGED <<store, body, phase, pos, settled>>

(* Mutant: the last batch is not flushed. *)
Acknowledge_NoDone(r) == /\ phase[r] = "sending"
                         /\ pos[r] + consulTxOperationLimit >= Len(body[r].ops)
                         /\ phase' = [phase EXCEPT ![r] = "ok"]
                         /\ UNCHANGED <<store, body, pos, inflight, settled>>

(* Everything was applied: 201 or 200. *)
Acknowledge(r) == /\ phase[r] = "sending"
                  /\ pos[r] = Len(body[r].ops)
                  /\ phase' = [phase EXCEPT ![r] = "ok"]
                  /\ UNCHANGED <<store, body, pos, inflight, settled>>

Handle(r) == SendTxn(r) \/ TxnAnswered(r) \/ TxnFails(r) \/ Acknowledge(r)

Consul == \E t \in inflight : ApplyTxn(t) \/ LoseTxn(t)

AllDone == /\ \A r \in Request : phase[r] \in Final
           /\ inflight = {}
           /\ UNCHANGED vars

Next == \/ \E r \in Request : Arrive(r) \/ Reject(r) \/ Handle(r)
        \/ Consul
        \/ AllDone

Spec == Init /\ [][Next]_vars

-----------------------------------------------------------------------------
Phases == {"new"} \cup Running \cup Final

Txns == {t \in [req : Request, first : Nat \ {0}, last : Nat \ {0}] :
            t.first <= t.last /\ t.last <= Len(body[t.req].ops)}

(* No request is further than its operations, and every transaction under  *)
(* way holds a stretch of the operations of one.                           *)
TypeOK == /\ store \in [Key -> Request \cup {Old, Absent}]
          /\ body \in [Request -> Bodies]
          /\ phase \in [Request -> Phases]
          /\ pos \in [Request -> Nat]
          /\ \A r \in Request : pos[r] <= Len(body[r].ops)
          /\ inflight \subseteq Txns
          /\ settled \in [Request -> SUBSET Request]

(* q is not over when r arrives, and writes k. *)
MayOverwrite(q, r, k) == /\ q \notin settled[r]
                         /\ phase[q] \notin {"new", "rejected"}
                         /\ k \in KeysOf(body[q])

(* A key an acknowledged request wrote or deleted holds what that request  *)
(* asked for, unless a request that was not over and done with when it     *)
(* arrived wrote the key as well: no earlier write, no rejected request    *)
(* and no value from before can be there, however the batches of the       *)
(* handlers interleave and whatever answers were lost                      *)
(* (docs/03-why-writes-take-no-lock.md:7-9).                               *)
AckMeansWritten ==
    \A r \in Request : phase[r] = "ok" =>
        \A k \in KeysOf(body[r]) :
            \E q \in Request : MayOverwrite(q, r, k) /\ store[k] = ValueOf(q)

(* An acknowledged request is over: nothing of it is still on its way to   *)
(* Consul, so it cannot undo what the client or anyone else does next.     *)
AckIsFinal == \A r \in Request : phase[r] \in {"ok", "rejected"} => ~ HasInflight(r)

(* Whatever a key holds was there before or was asked for by a request     *)
(* that passed validation: values are never made up or mixed.              *)
ValuesAreRequested ==
    \A k \in Key :
        \/ store[k] \in {Old, Absent}
        \/ LET r == store[k] IN /\ phase[r] \notin {"new", "rejected"}
                                /\ body[r].kind = "add"
                                /\ k \in KeysOf(body[r])

Atomic == INSTANCE AtomicWrites WITH
            outcome <- [r \in Request |-> IF phase[r] \in Running
                                          THEN "running" ELSE phase[r]],
            done <- pos

(* Each request behaves as if its operations took effect in a few steps of *)
(* the store, each a prefix, and in one step if they fit one transaction,  *)
(* in count and in length, before its acknowledgement and never after it.  *)
ImplementsAtomicWrites == Atomic!Spec
=============================================================================
