------------------------- MODULE TxnBatcher_proofs -------------------------
(***************************************************************************)
(* Safety of TxnBatcher for every set of operations, every size function   *)
(* and all limits, and the refinement of PartialWrite.  The inductive      *)
(* invariant IInv adds to the checked invariants that an empty batch has   *)
(* size 0, and, for a call that fits one transaction, that nothing is      *)
(* committed before done() and the batch's size is the running total.      *)
(***************************************************************************)
EXTENDS TxnBatcher, SequenceTheorems, TLAPS

RunningSizes(s) == {r \in [0 .. Len(s) -> 0 .. txnMaxReqLen] : RunningSize(r, s)}

EmptyBatchHasNoSize == ops = <<>> => size = 0

OneBatch ==
    Len(input) <= consulTxOperationLimit =>
        \A r \in RunningSizes(input) :
            /\ committed \in {<<>>, input}
            /\ reply = "none" => committed = <<>> /\ size = r[next - 1]

IInv == /\ TypeOK
        /\ BatchWithinLimits
        /\ NothingLost
        /\ OkMeansAll
        /\ EmptyBatchHasNoSize
        /\ OneBatch

-----------------------------------------------------------------------------
(* Every bounded input is a sequence of operations. *)
LEMMA InputsAreSeqs == Inputs \subseteq Seq(Op)
<1> SUFFICES ASSUME NEW s \in Inputs PROVE s \in Seq(Op)
  OBVIOUS
<1>1. PICK n \in 0 .. MaxOps : s \in [1 .. n -> Op]
  BY DEF Inputs
<1>2. n \in Nat
  BY BatcherAssumption
<1> QED
  BY <1>1, <1>2, IsASeq

(* Appending the next operation of the input to a prefix gives a prefix. *)
LEMMA AppendKeepsPrefix ==
  ASSUME TypeOK, NEW s \in Seq(Op), NEW t \in Seq(Op), IsPrefixOfInput(s \o t),
         Len(s) + Len(t) = next - 1, next <= Len(input)
  PROVE  /\ Append(t, input[next]) \in Seq(Op)
         /\ Len(Append(t, input[next])) = Len(t) + 1
         /\ IsPrefixOfInput(s \o Append(t, input[next]))
<1> DEFINE u == Append(t, input[next])
<1>1. input[next] \in Op
  BY ElementOfSeq DEF TypeOK
<1>2. /\ u \in Seq(Op)
      /\ Len(u) = Len(t) + 1
      /\ \A i \in 1 .. Len(t) : u[i] = t[i]
      /\ u[Len(t) + 1] = input[next]
  BY <1>1, AppendProperties
<1>3. /\ Len(s \o u) = Len(s) + Len(u)
      /\ \A i \in 1 .. Len(s) + Len(u) :
            (s \o u)[i] = IF i <= Len(s) THEN s[i] ELSE u[i - Len(s)]
  BY <1>2, ConcatProperties
<1>4. /\ Len(s \o t) = Len(s) + Len(t)
      /\ \A i \in 1 .. Len(s) + Len(t) :
            (s \o t)[i] = IF i <= Len(s) THEN s[i] ELSE t[i - Len(s)]
  BY ConcatProperties
<1>5. /\ Len(s) \in Nat /\ Len(t) \in Nat /\ Len(input) \in Nat /\ next \in Nat
      /\ Len(s) + Len(u) = next
  BY <1>2, LenProperties DEF TypeOK
<1> HIDE DEF u
<1>6. ASSUME NEW i \in 1 .. Len(s) + Len(u) PROVE (s \o u)[i] = input[i]
  <2>1. CASE i = next
    BY <1>2, <1>3, <1>5, <2>1
  <2>2. CASE i # next
    <3>1. i \in 1 .. Len(s) + Len(t)
      BY <1>2, <1>5, <2>2
    <3>2. (s \o t)[i] = input[i]
      BY <1>4, <3>1 DEF IsPrefixOfInput
    <3>3. (s \o u)[i] = (s \o t)[i]
      <4>1. CASE i <= Len(s)
        BY <1>3, <1>4, <3>1, <4>1
      <4>2. CASE ~ (i <= Len(s))
        <5>1. i - Len(s) \in 1 .. Len(t)
          BY <1>5, <3>1, <4>2
        <5> QED
          BY <1>2, <1>3, <1>4, <3>1, <4>2, <5>1
      <4> QED
        BY <4>1, <4>2
    <3> QED
      BY <3>2, <3>3
  <2> QED
    BY <2>1, <2>2
<1> QED
  BY <1>2, <1>3, <1>5, <1>6 DEF u, IsPrefixOfInput

(* A prefix of the input that is as long as the input is the input. *)
LEMMA FullPrefix ==
  ASSUME TypeOK, NEW s \in Seq(Op), IsPrefixOfInput(s), Len(s) = Len(input)
  PROVE  s = input
BY SeqEqual DEF TypeOK, IsPrefixOfInput

(* What a transaction may do to the committed operations. *)
LEMMA CommittedAfterTxn ==
  ASSUME IInv, reply = "none",
         \/ committed' = committed
         \/ committed' = committed \o ops
  PROVE  /\ committed' \in Seq(Op)
         /\ IsPrefixOfInput(committed')
         /\ committed' = committed \o ops => Len(committed') = next - 1
<1>1. committed \o ops \in Seq(Op) /\ Len(committed \o ops) = Len(committed) + Len(ops)
  BY ConcatProperties DEF IInv, TypeOK
<1> QED
  BY <1>1 DEF IInv, TypeOK, NothingLost
-----------------------------------------------------------------------------
LEMMA InitIInv == Init => IInv
<1> SUFFICES ASSUME Init PROVE IInv
  OBVIOUS
<1>1. input \in Seq(Op) /\ Len(input) \in Nat
  BY InputsAreSeqs, LenProperties DEF Init
<1>2. <<>> \in Seq(Op) /\ Len(<<>>) = 0
  BY EmptySeq
<1>3. <<>> \o <<>> = <<>>
  BY ConcatEmptySeq, EmptySeq
<1>4. TypeOK /\ BatchWithinLimits
  BY <1>1, <1>2, BatcherAssumption DEF Init, TypeOK, BatchWithinLimits
<1>5. NothingLost /\ OkMeansAll /\ EmptyBatchHasNoSize
  BY <1>1, <1>2, <1>3 DEF Init, NothingLost, IsPrefixOfInput, OkMeansAll, EmptyBatchHasNoSize
<1>6. OneBatch
  BY <1>1, <1>2 DEF Init, OneBatch, RunningSizes, RunningSize
<1> QED
  BY <1>4, <1>5, <1>6 DEF IInv

(* add() with room in the batch keeps the invariant. *)
LEMMA AddOpKeepsIInv == IInv /\ AddOp => IInv'
<1> SUFFICES ASSUME IInv, AddOp PROVE IInv'
  OBVIOUS
<1> USE BatcherAssumption
<1>1. /\ reply = "none" /\ next <= Len(input) /\ next \in Nat /\ Len(input) \in Nat
      /\ input[next] \in Op /\ Size[input[next]] \in Nat
      /\ Len(ops) \in Nat /\ Len(committed) \in Nat
      /\ UNCHANGED <<input, committed, reply>> /\ next' = next + 1
      /\ size' = size + Size[input[next]] /\ ops' = Append(ops, input[next])
      /\ ~ MustFlushFirst(input[next])
  BY ElementOfSeq, LenProperties DEF IInv, TypeOK, AddOp, Adding
<1>2. /\ ops' \in Seq(Op)
      /\ Len(ops') = Len(ops) + 1
      /\ IsPrefixOfInput(committed \o ops')
  BY <1>1, AppendKeepsPrefix DEF IInv, TypeOK, NothingLost
<1>3. Len(ops) = 0 => size = 0
  BY EmptySeq DEF IInv, EmptyBatchHasNoSize, TypeOK
<1>4. TypeOK'
  BY <1>1, <1>2 DEF IInv, TypeOK
<1>5. BatchWithinLimits'
  BY <1>1, <1>2, <1>3 DEF IInv, TypeOK, BatchWithinLimits, MustFlushFirst
<1>6. NothingLost'
  BY <1>1, <1>2 DEF IInv, NothingLost, IsPrefixOfInput
<1>7. OkMeansAll'
  BY <1>1 DEF IInv, OkMeansAll
<1>8. EmptyBatchHasNoSize'
  BY <1>1, <1>2, EmptySeq DEF EmptyBatchHasNoSize
<1>9. OneBatch'
  <2> SUFFICES ASSUME Len(input) <= consulTxOperationLimit,
                      NEW r \in RunningSizes(input)
               PROVE  size + Size[input[next]] = r[next]
    BY <1>1 DEF IInv, OneBatch
  <2>1. size = r[next - 1]
    BY <1>1 DEF IInv, OneBatch
  <2>2. r[next] = r[next - 1] + Size[input[next]]
    BY <1>1 DEF RunningSizes, RunningSize, IInv, TypeOK
  <2> QED
    BY <2>1, <2>2
<1> QED
  BY <1>4, <1>5, <1>6, <1>7, <1>8, <1>9 DEF IInv

(* A call that fits one transaction never flushes before done(). *)
LEMMA SmallCallNeverSplits ==
  ASSUME IInv, Adding, MustFlushFirst(input[next]),
         Len(input) <= consulTxOperationLimit
  PROVE  RunningSizes(input) = {}
<1> SUFFICES ASSUME NEW r \in RunningSizes(input) PROVE FALSE
  OBVIOUS
<1> USE BatcherAssumption
<1>1. committed = <<>> /\ size = r[next - 1]
  BY DEF IInv, OneBatch, Adding
<1>2. next \in 1 .. Len(input) /\ Len(input) \in Nat /\ Len(ops) \in Nat
  BY LenProperties DEF IInv, TypeOK, Adding
<1>3. r[next] = r[next - 1] + Size[input[next]] /\ r[next] \in 0 .. txnMaxReqLen
  BY <1>2 DEF RunningSizes, RunningSize
<1>4. Len(ops) = next - 1
  BY <1>1, <1>2, EmptySeq DEF IInv, NothingLost, Adding
<1> QED
  BY <1>1, <1>2, <1>3, <1>4 DEF MustFlushFirst

(* A flush from add() that succeeds keeps the invariant. *)
LEMMA FlushThenAddKeepsIInv == IInv /\ FlushThenAdd => IInv'
<1> SUFFICES ASSUME IInv, FlushThenAdd PROVE IInv'
  OBVIOUS
<1> USE BatcherAssumption
<1>1. /\ reply = "none" /\ next <= Len(input) /\ next \in Nat \ {0} /\ Len(input) \in Nat
      /\ input[next] \in Op /\ Size[input[next]] \in Nat
      /\ Len(ops) \in Nat /\ Len(committed) \in Nat
      /\ UNCHANGED <<input, reply>> /\ next' = next + 1
      /\ size' = Size[input[next]] /\ ops' = <<input[next]>>
      /\ committed' = committed \o ops
  BY ElementOfSeq, LenProperties DEF IInv, TypeOK, FlushThenAdd, Adding, TxnSucceeds
<1>2. committed' \in Seq(Op) /\ IsPrefixOfInput(committed') /\ Len(committed') = next - 1
  BY <1>1, CommittedAfterTxn
<1>3. ops' \in Seq(Op) /\ Len(ops') = 1
  BY <1>1
<1>4. IsPrefixOfInput(committed' \o ops')
  <2>1. committed' \o <<>> = committed' /\ <<>> \in Seq(Op) /\ Len(<<>>) = 0
    BY <1>2, ConcatEmptySeq, EmptySeq
  <2>2. Append(<<>>, input[next]) = ops'
    BY <1>1
  <2>3. TypeOK
    BY DEF IInv
  <2>4. IsPrefixOfInput(committed' \o <<>>)
    BY <1>2, <2>1
  <2>5. Len(committed') + Len(<<>>) = next - 1
    BY <1>1, <1>2, <2>1
  <2>6. IsPrefixOfInput(committed' \o Append(<<>>, input[next]))
    BY ONLY <1>1, <1>2, <2>1, <2>3, <2>4, <2>5, AppendKeepsPrefix
  <2> QED
    BY <2>2, <2>6
<1>5. TypeOK'
  BY <1>1, <1>2, <1>3 DEF IInv, TypeOK
<1>6. BatchWithinLimits' /\ EmptyBatchHasNoSize'
  BY <1>1, <1>3 DEF BatchWithinLimits, EmptyBatchHasNoSize
<1>7. NothingLost'
  BY <1>1, <1>2, <1>3, <1>4 DEF NothingLost, IsPrefixOfInput
<1>8. OkMeansAll'
  BY <1>1 DEF IInv, OkMeansAll
<1>9. OneBatch'
  <2> SUFFICES ASSUME Len(input) <= consulTxOperationLimit,
                      NEW r \in RunningSizes(input)
               PROVE  FALSE
    BY <1>1 DEF OneBatch, RunningSizes, RunningSize
  <2> QED
    BY SmallCallNeverSplits DEF FlushThenAdd
<1> QED
  BY <1>5, <1>6, <1>7, <1>8, <1>9 DEF IInv

(* done() keeps the invariant, and what it leaves committed is the input. *)
LEMMA DoneCommitsAll == IInv /\ Done => committed' = input /\ committed' \in Seq(Op)
<1> SUFFICES ASSUME IInv, Done PROVE committed' = input /\ committed' \in Seq(Op)
  OBVIOUS
<1>1. reply = "none" /\ next = Len(input) + 1 /\ Len(input) \in Nat
  BY LenProperties DEF IInv, TypeOK, Done
<1>2. committed' = committed \o ops
  BY ConcatEmptySeq DEF Done, TxnSucceeds, IInv, TypeOK
<1>3. committed' \in Seq(Op) /\ IsPrefixOfInput(committed') /\ Len(committed') = Len(input)
  BY <1>1, <1>2, CommittedAfterTxn
<1> QED
  BY <1>3, FullPrefix DEF IInv

LEMMA DoneKeepsIInv == IInv /\ Done => IInv'
<1> SUFFICES ASSUME IInv, Done PROVE IInv'
  OBVIOUS
<1>1. committed' = input /\ input \in Seq(Op) /\ Len(input) \in Nat
  BY DoneCommitsAll, LenProperties DEF IInv, TypeOK
<1>2. /\ reply' = "ok" /\ UNCHANGED <<input, next>>
      /\ ops' = <<>> /\ size' = 0
  BY DEF Done, IInv, EmptyBatchHasNoSize
<1>3. <<>> \in Seq(Op) /\ Len(<<>>) = 0
  BY EmptySeq
<1>4. TypeOK' /\ EmptyBatchHasNoSize'
  BY <1>1, <1>2, <1>3 DEF IInv, TypeOK, EmptyBatchHasNoSize
<1>5. BatchWithinLimits'
  BY <1>2, <1>3, BatcherAssumption DEF BatchWithinLimits
<1>6. NothingLost' /\ OkMeansAll' /\ OneBatch'
  BY <1>1, <1>2 DEF NothingLost, IsPrefixOfInput, OkMeansAll, OneBatch
<1> QED
  BY <1>4, <1>5, <1>6 DEF IInv

(* A flush that fails keeps the invariant. *)
LEMMA FlushFailsKeepsIInv == IInv /\ FlushFails => IInv'
<1> SUFFICES ASSUME IInv, FlushFails PROVE IInv'
  OBVIOUS
<1>1. /\ reply = "none" /\ reply' = "error" /\ UNCHANGED <<input, next, ops, size>>
      /\ \/ committed' = committed
         \/ committed' = committed \o ops
  BY DEF FlushFails, TxnFails, TxnSucceeds
<1>2. /\ committed' \in Seq(Op)
      /\ IsPrefixOfInput(committed')
      /\ committed' = committed \o ops => Len(committed') = next - 1
  BY <1>1, CommittedAfterTxn
<1>3. TypeOK' /\ BatchWithinLimits' /\ EmptyBatchHasNoSize' /\ OkMeansAll'
  BY <1>1, <1>2 DEF IInv, TypeOK, BatchWithinLimits, EmptyBatchHasNoSize, OkMeansAll
<1>4. NothingLost'
  BY <1>1, <1>2 DEF NothingLost, IsPrefixOfInput
<1>5. OneBatch'
  <2> SUFFICES ASSUME Len(input) <= consulTxOperationLimit,
                      NEW r \in RunningSizes(input)
               PROVE  committed' \in {<<>>, input}
    BY <1>1 DEF OneBatch, RunningSizes, RunningSize
  <2>1. CASE committed' = committed
    BY <2>1 DEF IInv, OneBatch
  <2>2. CASE committed' = committed \o ops
    <3>1. next = Len(input) + 1
      BY SmallCallNeverSplits, LenProperties DEF FlushFails, Adding, IInv, TypeOK
    <3>2. Len(committed') = Len(input)
      BY <1>2, <2>2, <3>1, LenProperties DEF IInv, TypeOK
    <3> QED
      BY <1>2, <3>2, FullPrefix DEF IInv
  <2> QED
    BY <1>1, <2>1, <2>2
<1> QED
  BY <1>3, <1>4, <1>5 DEF IInv

LEMMA NextKeepsIInv == IInv /\ [Next]_vars => IInv'
<1> SUFFICES ASSUME IInv, [Next]_vars PROVE IInv'
  OBVIOUS
<1>1. CASE AddOp
  BY <1>1, AddOpKeepsIInv
<1>2. CASE FlushThenAdd
  BY <1>2, FlushThenAddKeepsIInv
<1>3. CASE Done
  BY <1>3, DoneKeepsIInv
<1>4. CASE FlushFails
  BY <1>4, FlushFailsKeepsIInv
<1>5. CASE UNCHANGED vars
  BY <1>5 DEF vars, IInv, TypeOK, BatchWithinLimits, NothingLost, IsPrefixOfInput,
     OkMeansAll, EmptyBatchHasNoSize, OneBatch, RunningSizes, RunningSize
<1> QED
  BY <1>1, <1>2, <1>3, <1>4, <1>5 DEF Next, Returned

(* The inductive invariant holds in every reachable state. *)
THEOREM Inductive == Spec => []IInv
<1>1. Init => IInv
  BY InitIInv
<1>2. IInv /\ [Next]_vars => IInv'
  BY NextKeepsIInv
<1> QED
  BY <1>1, <1>2, PTL DEF Spec

(* Type correctness of the batcher, for any operations, sizes and limits. *)
THEOREM TypeCorrect == Spec => []TypeOK
<1>1. IInv => TypeOK
  BY DEF IInv
<1> QED
  BY <1>1, Inductive, PTL

(* No batch handed to Consul exceeds the limits of consul_txn_batcher.go, *)
(* whatever the sizes of the operations.                                  *)
THEOREM BatchLimits == Spec => []BatchWithinLimits
<1>1. IInv => BatchWithinLimits
  BY DEF IInv
<1> QED
  BY <1>1, Inductive, PTL

(* Splitting a call into transactions loses, repeats and reorders nothing. *)
THEOREM NoOperationLost == Spec => []NothingLost
<1>1. IInv => NothingLost
  BY DEF IInv
<1> QED
  BY <1>1, Inductive, PTL

(* A call that is answered "ok" has been applied completely. *)
THEOREM OkIsComplete == Spec => []OkMeansAll
<1>1. IInv => OkMeansAll
  BY DEF IInv
<1> QED
  BY <1>1, Inductive, PTL

(* A call that fits one transaction is applied at once or not at all. *)
THEOREM SmallCallIsAtomic == Spec => []SmallCallAtomic
<1>1. IInv => SmallCallAtomic
  BY DEF IInv, SmallCallAtomic, FitsOneTxn, OneBatch, RunningSizes
<1> QED
  BY <1>1, Inductive, PTL

-----------------------------------------------------------------------------
(* A prefix of the input, as PartialWrite writes it. *)
LEMMA PrefixIsSubSeq ==
  ASSUME TypeOK, NEW s \in Seq(Op), IsPrefixOfInput(s)
  PROVE  s = SubSeq(input, 1, Len(s))
<1>1. Len(s) \in Nat /\ Len(input) \in Nat
  BY LenProperties DEF TypeOK
<1>2. \A i \in 1 .. Len(s) : input[i] \in Op
  BY <1>1, ElementOfSeq DEF TypeOK, IsPrefixOfInput
<1>3. /\ SubSeq(input, 1, Len(s)) \in Seq(Op)
      /\ Len(SubSeq(input, 1, Len(s))) = Len(s)
      /\ \A i \in 1 .. Len(s) : SubSeq(input, 1, Len(s))[i] = input[i]
  BY <1>1, <1>2, SubSeqProperties
<1> QED
  BY <1>3, SeqEqual DEF IsPrefixOfInput

(* A transaction that is applied is an Apply step of PartialWrite. *)
LEMMA TxnApplies ==
  ASSUME IInv, reply = "none", ops # <<>>, committed' = committed \o ops,
         input' = input,
         \/ next > Len(input)
         \/ Adding /\ MustFlushFirst(input[next]),
         \/ reply' \in {"none", "error"}
         \/ reply' = "ok" /\ next > Len(input)
  PROVE  PW!Apply
<1>1. /\ committed' \in Seq(Op) /\ IsPrefixOfInput(committed')
      /\ Len(committed') = next - 1
  BY CommittedAfterTxn
<1>2. TypeOK /\ Len(input) \in Nat /\ Len(committed) \in Nat /\ Len(ops) \in Nat /\ next \in Nat
  BY LenProperties DEF IInv, TypeOK
<1>3. committed' = SubSeq(input, 1, next - 1)
  BY <1>1, <1>2, PrefixIsSubSeq
<1>4. next - 1 \in Len(committed) + 1 .. Len(input)
  <2>1. Len(ops) > 0
    BY <1>2, EmptySeq DEF TypeOK
  <2> QED
    BY <1>2, <2>1 DEF IInv, NothingLost, TypeOK
<1>5. input \in OneTxn => next - 1 = Len(input)
  <2>1. CASE next > Len(input)
    BY <1>2, <2>1 DEF TypeOK
  <2>2. CASE Adding /\ MustFlushFirst(input[next])
    BY <2>2, SmallCallNeverSplits DEF OneTxn, FitsOneTxn, RunningSizes
  <2> QED
    BY <2>1, <2>2
<1>6. reply' = "ok" => next - 1 = Len(input)
  BY <1>2 DEF TypeOK
<1> QED
  BY <1>3, <1>4, <1>5, <1>6 DEF PW!Apply

LEMMA StepRefines == IInv /\ [Next]_vars => [PW!Next]_PW!pvars
<1> SUFFICES ASSUME IInv, [Next]_vars PROVE [PW!Next]_PW!pvars
  OBVIOUS
<1> USE DEF PW!Next, PW!pvars
<1>1. CASE AddOp
  BY <1>1 DEF AddOp
<1>2. CASE FlushThenAdd
  <2>1. ops # <<>>
    BY <1>2, EmptySeq DEF FlushThenAdd, MustFlushFirst
  <2> QED
    BY <1>2, <2>1, TxnApplies DEF FlushThenAdd, TxnSucceeds, Adding
<1>3. CASE Done
  <2>1. CASE ops = <<>>
    BY <1>3, <2>1, DoneCommitsAll DEF Done, PW!Answer
  <2>2. CASE ops # <<>>
    BY <1>3, <2>2, TxnApplies DEF Done, TxnSucceeds
  <2> QED
    BY <2>1, <2>2
<1>4. CASE FlushFails
  <2>1. CASE committed' = committed
    BY <1>4, <2>1 DEF FlushFails, PW!Answer
  <2>2. CASE committed' = committed \o ops
    <3>1. ops # <<>>
      BY <1>4, EmptySeq DEF FlushFails, MustFlushFirst
    <3> QED
      BY <1>4, <2>2, <3>1, TxnApplies DEF FlushFails, Adding
  <2> QED
    BY <1>4, <2>1, <2>2 DEF FlushFails, TxnFails, TxnSucceeds
<1>5. CASE UNCHANGED vars
  BY <1>5 DEF vars
<1> QED
  BY <1>1, <1>2, <1>3, <1>4, <1>5 DEF Next, Returned

(* The batcher implements PartialWrite: every state it can reach and every *)
(* step it takes is one the promise to the caller allows.                  *)
THEOREM RefinesPartialWrite == Spec => PW!Spec
<1>1. Init => PW!Init
  BY InputsAreSeqs DEF Init, PW!Init
<1>2. IInv /\ [Next]_vars => [PW!Next]_PW!pvars
  BY StepRefines
<1> QED
  BY <1>1, <1>2, Inductive, PTL DEF Spec, PW!Spec
=============================================================================
