-------------------------- MODULE MCStartupInit --------------------------
(* StartupInit for TLC: two global defaults, so that one can be there and *)
(* the other missing, and one property in each other step.                *)
EXTENDS StartupInit, TLC

CONSTANTS r1, r2, g1, g2, b1, t1, d1, v

OneReplica == {r1}
TwoReplicas == {r1, r2}
AllPaths == {g1, g2, b1, t1, d1}
FewPaths == {g1, b1, t1, d1}
OneValue == {v}

AllDefaults == [s \in AllSteps |-> CASE s = "global"         -> {g1, g2}
                                     [] s = "baseline"       -> {b1}
                                     [] s = "tenant-manager" -> {t1}
                                     [] OTHER                -> {d1}]

(* A single property in each step; a baseline property can also be one of *)
(* the global defaults.                                                   *)
FewDefaults == [s \in AllSteps |-> CASE s = "global"         -> {g1}
                                     [] s = "baseline"       -> {g1, b1}
                                     [] s = "tenant-manager" -> {t1}
                                     [] OTHER                -> {d1}]

Symmetric == Permutations(TwoReplicas)
=============================================================================
