---------------------------- MODULE PartialWrite ----------------------------
(***************************************************************************)
(* What one call of ConsulService.AddProperties or DeleteProperties        *)
(* promises to its caller, with no batcher in sight: a growing prefix of   *)
(* the requested operations takes effect, a call that fits one Consul      *)
(* transaction takes effect at once or not at all, "ok" is answered only   *)
(* when everything took effect, and an error tells nothing about how far   *)
(* the call came.  TxnBatcher is shown to implement it.                    *)
(***************************************************************************)
EXTENDS Naturals, Sequences

CONSTANTS Op,      \* the Consul KV operations a call may ask for
          OneTxn   \* the calls that fit one transaction

VARIABLES input,      \* the operations of the call, in the order they are sent
          committed,  \* the operations Consul has applied
          reply       \* what the caller was told: "none", "ok" or "error"

pvars == <<input, committed, reply>>

Init == /\ input \in Seq(Op)
        /\ committed = <<>>
        /\ reply = "none"

(* Consul applies some more of the call; the answer may be lost with it. *)
Apply == /\ reply = "none"
         /\ \E n \in Len(committed) + 1 .. Len(input) :
               /\ input \in OneTxn => n = Len(input)
               /\ committed' = SubSeq(input, 1, n)
               /\ \/ reply' \in {"none", "error"}
                  \/ reply' = "ok" /\ n = Len(input)
         /\ UNCHANGED input

Answer == /\ reply = "none"
          /\ \/ reply' = "ok" /\ committed = input
             \/ reply' = "error"
          /\ UNCHANGED <<input, committed>>

Next == Apply \/ Answer

Spec == Init /\ [][Next]_pvars

FairSpec == Spec /\ WF_pvars(Next)
=============================================================================
