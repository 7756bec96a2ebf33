-------------------------- MODULE MCConfigWrites --------------------------
(* ConfigWrites for TLC: requests and keys are model values.  Handlers     *)
(* share nothing but the store, so the last writer of a key and the        *)
(* request it may not overwrite are all a violation takes.  Two operations *)
(* make a transaction, unless both are long: 3 is the limit on length.     *)
EXTENDS ConfigWrites, TLC

CONSTANTS r1, r2, k1, k2, k3

TwoRequests == {r1, r2}
ThreeKeys == {k1, k2, k3}

ShortAndLong == [add |-> {1, 2}, delete |-> {1}]

Symmetric == Permutations(TwoRequests) \cup Permutations(ThreeKeys)
=============================================================================
