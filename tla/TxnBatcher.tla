----------------------------- MODULE TxnBatcher -----------------------------
(***************************************************************************)
(* One call of ConsulService.AddProperties or DeleteProperties and the     *)
(* txnBatcher it drives: the operations are added one by one, the batch is *)
(* flushed as a Consul transaction when the next operation does not fit,   *)
(* and done() flushes the rest.  AddProperties ranges over a Go map, so    *)
(* its operations arrive in any order; DeleteProperties follows the list   *)
(* of the request, which may name a key twice.  Both are covered by taking *)
(* every sequence of operations as input.                                  *)
(***************************************************************************)
EXTENDS Naturals, Sequences

CONSTANTS Op,                    \* KV operations (a KVSet or a KVDelete)
          Size,                  \* calculateOperationSize of each of them
          consulTxOperationLimit,
          txnMaxReqLen,
          MaxOps                 \* bound: the longest input explored

ASSUME BatcherAssumption ==
    /\ Size \in [Op -> Nat]
    /\ consulTxOperationLimit \in Nat \ {0}
    /\ txnMaxReqLen \in Nat
    /\ MaxOps \in Nat

VARIABLES input,      \* the operations of the call
          next,       \* index of the operation add() gets next
          ops, size,  \* the fields of the txnBatcher
          committed,  \* the operations Consul has applied, in order
          reply       \* "none" while the call runs, then "ok" or "error"

vars == <<input, next, ops, size, committed, reply>>

Inputs == UNION {[1 .. n -> Op] : n \in 0 .. MaxOps}

Init == /\ input \in Inputs
        /\ next = 1
        /\ ops = <<>>
        /\ size = 0
        /\ committed = <<>>
        /\ reply = "none"

-----------------------------------------------------------------------------
(* Consul's side of a transaction.  It is applied as a whole or not at all *)
(* and one that is too large is refused.  The call can fail for any other  *)
(* reason too (no leader, lost connection, cancelled context), and then    *)
(* the transaction may have been applied although the answer was lost.     *)
Accepted == size <= txnMaxReqLen

TxnSucceeds == Accepted /\ committed' = committed \o ops

TxnFails == \/ committed' = committed
            \/ TxnSucceeds

-----------------------------------------------------------------------------
(* Mutant: the count limit is noticed one operation too late. *)
MustFlushFirst_LateCount(op) ==
    /\ Len(ops) > 0
    /\ \/ size + Size[op] > txnMaxReqLen
       \/ Len(ops) > consulTxOperationLimit

(* Mutant: a batch is flushed one operation too early. *)
MustFlushFirst_EarlyCount(op) ==
    /\ Len(ops) > 0
    /\ \/ size + Size[op] > txnMaxReqLen
       \/ Len(ops) + 1 >= consulTxOperationLimit

MustFlushFirst(op) ==
    /\ Len(ops) > 0
    /\ \/ size + Size[op] > txnMaxReqLen
       \/ Len(ops) = consulTxOperationLimit

Adding == reply = "none" /\ next <= Len(input)

(* Mutant: the loop steps over an operation. *)
AddOp_Skips == /\ Adding
               /\ ~ MustFlushFirst(input[next])
               /\ ops' = Append(ops, input[next])
               /\ size' = size + Size[input[next]]
               /\ next' = next + 2
               /\ UNCHANGED <<input, committed, reply>>

(* add() with room in the batch. *)
AddOp == /\ Adding
         /\ ~ MustFlushFirst(input[next])
         /\ ops' = Append(ops, input[next])
         /\ size' = size + Size[input[next]]
         /\ next' = next + 1
         /\ UNCHANGED <<input, committed, reply>>

(* Mutant: flushBatch() does not reset b.ops. *)
FlushThenAdd_KeepsOps == /\ Adding
                         /\ MustFlushFirst(input[next])
                         /\ TxnSucceeds
                         /\ ops' = Append(ops, input[next])
                         /\ size' = Size[input[next]]
                         /\ next' = next + 1
                         /\ UNCHANGED <<input, reply>>

(* Mutant: add() drops the error of flushBatch() and goes on. *)
FlushThenAdd_IgnoresError == /\ Adding
                             /\ MustFlushFirst(input[next])
                             /\ TxnSucceeds \/ TxnFails
                             /\ ops' = <<input[next]>>
                             /\ size' = Size[input[next]]
                             /\ next' = next + 1
                             /\ UNCHANGED <<input, reply>>

(* add() with a full batch: flushBatch() succeeds, resets the batch, and the *)
(* operation starts the next one.                                            *)
FlushThenAdd == /\ Adding
                /\ MustFlushFirst(input[next])
                /\ TxnSucceeds
                /\ ops' = <<input[next]>>
                /\ size' = Size[input[next]]
                /\ next' = next + 1
                /\ UNCHANGED <<input, reply>>

(* Mutant: done() is not called after the loop. *)
Done_NoFlush == /\ reply = "none"
                /\ next > Len(input)
                /\ reply' = "ok"
                /\ UNCHANGED <<input, next, ops, size, committed>>

(* done(): nothing is left to flush, or the last batch is flushed. *)
Done == /\ reply = "none"
        /\ next > Len(input)
        /\ \/ ops = <<>> /\ UNCHANGED <<ops, size, committed>>
           \/ /\ ops # <<>>
              /\ TxnSucceeds
              /\ ops' = <<>>
              /\ size' = 0
        /\ reply' = "ok"
        /\ UNCHANGED <<input, next>>

(* Mutant: a failed transaction is tried again until it succeeds. *)
FlushFails_Retries == /\ reply = "none"
                      /\ \/ next <= Len(input) /\ MustFlushFirst(input[next])
                         \/ next > Len(input) /\ ops # <<>>
                      /\ committed' = committed
                      /\ UNCHANGED <<input, next, ops, size, reply>>

(* flushBatch() returns an error from add() or done(): the call gives up *)
(* and leaves the batch as it was.                                       *)
FlushFails == /\ reply = "none"
              /\ \/ next <= Len(input) /\ MustFlushFirst(input[next])
                 \/ next > Len(input) /\ ops # <<>>
              /\ TxnFails
              /\ reply' = "error"
              /\ UNCHANGED <<input, next, ops, size>>

(* The handler has returned. *)
Returned == reply # "none" /\ UNCHANGED vars

Next == AddOp \/ FlushThenAdd \/ Done \/ FlushFails \/ Returned

Spec == Init /\ [][Next]_vars

(* The loop runs on, and Consul or the transport answers every transaction *)
(* one way or the other.                                                   *)
FairSpec == Spec /\ WF_vars(Next)

-----------------------------------------------------------------------------
(* The batch holds operations of the call, and the loop never runs past it. *)
TypeOK == /\ input \in Seq(Op)
          /\ next \in 1 .. Len(input) + 1
          /\ ops \in Seq(Op)
          /\ size \in Nat
          /\ committed \in Seq(Op)
          /\ reply \in {"none", "ok", "error"}

IsPrefixOfInput(s) == /\ Len(s) <= Len(input)
                      /\ \A i \in 1 .. Len(s) : s[i] = input[i]

(* A batch handed to Consul respects the two limits of                     *)
(* consul_txn_batcher.go:9-10; only an operation that is too large on its  *)
(* own exceeds the length limit, and then it travels alone.                *)
BatchWithinLimits == /\ Len(ops) <= consulTxOperationLimit
                     /\ size > txnMaxReqLen => Len(ops) = 1

(* Splitting a call loses, repeats and reorders nothing: while the call    *)
(* runs, what Consul applied followed by what the batch holds is exactly   *)
(* what the loop has passed, and Consul never has more than a prefix of    *)
(* the request.                                                            *)
NothingLost ==
    /\ IsPrefixOfInput(committed)
    /\ reply = "none" => /\ Len(committed) + Len(ops) = next - 1
                         /\ IsPrefixOfInput(committed \o ops)

(* AddProperties and DeleteProperties return nil, and the client gets its  *)
(* 201 or 200, only after Consul has applied every operation requested.    *)
OkMeansAll == reply = "ok" => committed = input

(* A running total of the sizes in s that stays within the length limit. *)
RunningSize(r, s) == /\ r[0] = 0
                     /\ \A i \in 1 .. Len(s) : r[i] = r[i - 1] + Size[s[i]]

FitsOneTxn(s) ==
    /\ Len(s) <= consulTxOperationLimit
    /\ \E r \in [0 .. Len(s) -> 0 .. txnMaxReqLen] : RunningSize(r, s)

(* A call within both limits is one transaction: no failure, whenever it   *)
(* strikes, leaves a part of it behind.                                    *)
SmallCallAtomic == FitsOneTxn(input) => committed \in {<<>>, input}

(* Every call ends with an answer when Consul answers every transaction:   *)
(* add() always makes room, even for an operation no batch can hold.       *)
EveryCallAnswered == <>(reply # "none")

OneTxn == {s \in Seq(Op) : FitsOneTxn(s)}

PW == INSTANCE PartialWrite

(* The batcher implements the promise of PartialWrite to its caller. *)
ImplementsPartialWrite == PW!FairSpec
=============================================================================
