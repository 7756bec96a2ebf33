--------------------------- MODULE MCMergedRead ---------------------------
(* MergedRead for TLC: the global profile and two of an application. *)
EXTENDS MergedRead, TLC

CONSTANTS global, dev, prod, k, v1, v2

AllProfiles == {global, dev, prod}
OneKey == {k}
Values == {v1, v2}

Symmetric == Permutations({dev, prod}) \cup Permutations(Values)
=============================================================================
