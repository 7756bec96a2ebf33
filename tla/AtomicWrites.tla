---------------------------- MODULE AtomicWrites ----------------------------
(***************************************************************************)
(* What a client may rely on when it writes: a request takes effect once,  *)
(* as a growing prefix of its operations, and in one step if they fit one  *)
(* transaction; an acknowledged request has taken effect before its answer *)
(* is given, a rejected one never does, and one that failed may still take *)
(* effect later.  ConfigWrites is shown to implement it.                   *)
(***************************************************************************)
EXTENDS Naturals, Sequences

CONSTANTS Request, Key, Bodies, Old, Absent,
          OneTxn   \* the bodies that fit one transaction

VARIABLES store,    \* the value of every key of the profile
          body,     \* the bodies of the requests
          outcome,  \* "new", "running", "ok", "error" or "rejected"
          done      \* how many operations of each request have taken effect

avars == <<store, body, outcome, done>>

Init == /\ store \in [Key -> {Old, Absent}]
        /\ body \in [Request -> Bodies]
        /\ outcome = [r \in Request |-> "new"]
        /\ done = [r \in Request |-> 0]

Begin(r) == /\ outcome[r] = "new"
            /\ \E o \in {"running", "rejected"} : outcome' = [outcome EXCEPT ![r] = o]
            /\ UNCHANGED <<store, body, done>>

KeysUpTo(r, n) == UNION {body[r].ops[i].keys : i \in done[r] + 1 .. n}

TakeEffect(r) ==
    /\ outcome[r] \in {"running", "error"}
    /\ \E n \in done[r] + 1 .. Len(body[r].ops) :
          /\ body[r] \in OneTxn => n = Len(body[r].ops)
          /\ store' = [k \in Key |-> IF k \in KeysUpTo(r, n)
                                     THEN IF body[r].kind = "add" THEN r ELSE Absent
                                     ELSE store[k]]
          /\ done' = [done EXCEPT ![r] = n]
    /\ UNCHANGED <<body, outcome>>

Answer(r) ==
    /\ outcome[r] = "running"
    /\ \/ done[r] = Len(body[r].ops) /\ outcome' = [outcome EXCEPT ![r] = "ok"]
       \/ outcome' = [outcome EXCEPT ![r] = "error"]
    /\ UNCHANGED <<store, body, done>>

Next == \E r \in Request : Begin(r) \/ TakeEffect(r) \/ Answer(r)

Spec == Init /\ [][Next]_avars
=============================================================================
