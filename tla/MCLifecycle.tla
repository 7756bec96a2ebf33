---------------------------- MODULE MCLifecycle ----------------------------
(* Lifecycle for TLC.  Pods share nothing but Consul, and it may change at *)
(* any time: one pod shows all that can happen to each.                    *)
EXTENDS Lifecycle

CONSTANT p1

OnePod == {p1}
=============================================================================
