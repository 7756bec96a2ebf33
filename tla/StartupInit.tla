---------------------------- MODULE StartupInit ----------------------------
(***************************************************************************)
(* InitializeDefaultProperties in every replica of core-legacy-api: before *)
(* a replica serves, it goes through the steps global, baseline,           *)
(* tenant-manager and dmp-tenant-activator, and in each one reads a        *)
(* profile and writes the default properties it does not find there        *)
(* (addMissingProperties).  An error of Consul panics the process and the  *)
(* pod restarts.  Replicas that already serve let clients write the same   *)
(* profiles meanwhile: the chart's default rollout starts the new pod      *)
(* while the old one serves, and the HPA adds pods at any time.            *)
(*                                                                         *)
(* The default value a replica stores is named after the replica, whose    *)
(* deployment parameters it is computed from.  Every step fits one Consul  *)
(* transaction: the largest, global, has 37 properties of at most 64.      *)
(***************************************************************************)
EXTENDS Naturals, Sequences

CONSTANTS Replica,
          Path,             \* a key of a profile: config/<ns>/<app>/<key>
          Defaults,         \* the paths of each step's properties
          BaselineProj,     \* is BASELINE_PROJ set?
          Absent,           \* nothing is stored
          ClientValue,      \* the values clients write
          MayDelay,         \* can a transaction outlive its replica?
          MaxFaults         \* bound: deaths of replicas, lost answers included

AllSteps == {"global", "baseline", "tenant-manager", "dmp-tenant-activator"}

ASSUME StartupAssumption ==
    /\ Defaults \in [AllSteps -> SUBSET Path]
    /\ BaselineProj \in BOOLEAN /\ MayDelay \in BOOLEAN
    /\ MaxFaults \in Nat
    /\ Absent \notin Replica \cup ClientValue
    /\ Replica \cap ClientValue = {}

VARIABLES store,     \* Consul: the value of every path
          consulUp,  \* does Consul answer?
          pc,        \* "down", "fetching", "reading", "writing" or "serving"
          step,      \* index of the initialization step
          todo,      \* the properties of the step, then the missing ones
          late,      \* transactions whose replica died before the answer
          faults,    \* bounded by MaxFaults
          stored,    \* history: paths of todo stored by others since the read
          deleted    \* history: paths deleted by clients since the start

vars == <<store, consulUp, pc, step, todo, late, faults, stored, deleted>>

(* The order of InitializeDefaultProperties. *)
Steps == IF BaselineProj
         THEN <<"global", "baseline", "tenant-manager", "dmp-tenant-activator">>
         ELSE <<"global", "tenant-manager", "dmp-tenant-activator">>

(* No replica runs yet; values may be there already, copied from a         *)
(* config-server or left by an earlier installation.                       *)
Init == /\ store \in [Path -> ClientValue \cup {Absent}]
        /\ consulUp \in BOOLEAN
        /\ pc = [r \in Replica |-> "down"]
        /\ step = [r \in Replica |-> 1]
        /\ todo = [r \in Replica |-> {}]
        /\ late = {}
        /\ faults = 0
        /\ stored = [r \in Replica |-> {}]
        /\ deleted = [r \in Replica |-> {}]

-----------------------------------------------------------------------------
Starting == {"fetching", "reading", "writing"}

(* Mutant: the step counter runs past the last step. *)
GoTo_PastTheEnd(r, n) ==
    /\ IF n > Len(Steps)
       THEN /\ pc' = [pc EXCEPT ![r] = "serving"]
            /\ step' = [step EXCEPT ![r] = n]
            /\ todo' = [todo EXCEPT ![r] = {}]
            /\ deleted' = [deleted EXCEPT ![r] = {}]
       ELSE /\ pc' = [pc EXCEPT ![r] = IF Steps[n] = "baseline"
                                       THEN "fetching" ELSE "reading"]
            /\ step' = [step EXCEPT ![r] = n]
            /\ todo' = [todo EXCEPT ![r] = Defaults[Steps[n]]]
            /\ UNCHANGED deleted

(* r goes to step n, or serves after the last one. *)
GoTo(r, n) ==
    /\ IF n > Len(Steps)
       THEN /\ pc' = [pc EXCEPT ![r] = "serving"]
            /\ step' = [step EXCEPT ![r] = 1]
            /\ todo' = [todo EXCEPT ![r] = {}]
            /\ deleted' = [deleted EXCEPT ![r] = {}]
       ELSE /\ pc' = [pc EXCEPT ![r] = IF Steps[n] = "baseline"
                                       THEN "fetching" ELSE "reading"]
            /\ step' = [step EXCEPT ![r] = n]
            /\ todo' = [todo EXCEPT ![r] = Defaults[Steps[n]]]
            /\ UNCHANGED deleted

(* The process of r ends, and its memory with it. *)
GoDown(r) == /\ pc' = [pc EXCEPT ![r] = "down"]
             /\ step' = [step EXCEPT ![r] = 1]
             /\ todo' = [todo EXCEPT ![r] = {}]
             /\ deleted' = [deleted EXCEPT ![r] = {}]

(* The history when ps is stored: the replicas in over have left the       *)
(* section between their read and their write, those in it are overtaken.  *)
NoteStored(over, ps) ==
    stored' = [q \in Replica |-> IF q \notin over /\ pc[q] = "writing"
                                 THEN stored[q] \cup (ps \cap todo[q]) ELSE {}]

OvertakeLate(txns, ps) == {[t EXCEPT !.stored = @ \cup (ps \cap t.todo)] : t \in txns}

Fill(ps, r) == [p \in Path |-> IF p \in ps THEN r ELSE store[p]]

-----------------------------------------------------------------------------
(* The pod starts its container. *)
Start(r) == /\ pc[r] = "down"
            /\ GoTo(r, 1)
            /\ UNCHANGED <<store, consulUp, late, faults, stored>>

(* Mutant: a failed fetch ends the initialization, not just its step. *)
FetchBaseline_GivesUp(r) ==
    /\ pc[r] = "fetching"
    /\ \/ \E found \in SUBSET todo[r] \ {{}} :
             /\ pc' = [pc EXCEPT ![r] = "reading"]
             /\ todo' = [todo EXCEPT ![r] = found]
             /\ UNCHANGED <<step, deleted>>
       \/ GoTo(r, Len(Steps) + 1)
    /\ UNCHANGED <<store, consulUp, late, faults, stored>>

(* getBaselineProperties: the baseline config-server returns some of the   *)
(* configured properties; when it fails or has none of them, the step is   *)
(* skipped.                                                                *)
FetchBaseline(r) ==
    /\ pc[r] = "fetching"
    /\ \/ \E found \in SUBSET todo[r] \ {{}} :
             /\ pc' = [pc EXCEPT ![r] = "reading"]
             /\ todo' = [todo EXCEPT ![r] = found]
             /\ UNCHANGED <<step, deleted>>
       \/ GoTo(r, step[r] + 1)
    /\ UNCHANGED <<store, consulUp, late, faults, stored>>

(* Mutant: the whole set of defaults is written when one is missing. *)
ReadStored_WritesAll(r) ==
    /\ pc[r] = "reading"
    /\ consulUp
    /\ LET missing == {p \in todo[r] : store[p] = Absent}
       IN  IF missing = {}
           THEN GoTo(r, step[r] + 1)
           ELSE /\ pc' = [pc EXCEPT ![r] = "writing"]
                /\ UNCHANGED <<step, todo, deleted>>
    /\ UNCHANGED <<store, consulUp, late, faults, stored>>

(* Mutant: finding nothing to write is reported as an error. *)
ReadStored_EmptyFails(r) ==
    /\ pc[r] = "reading"
    /\ consulUp
    /\ LET missing == {p \in todo[r] : store[p] = Absent}
       IN  IF missing = {}
           THEN GoDown(r)
           ELSE /\ pc' = [pc EXCEPT ![r] = "writing"]
                /\ todo' = [todo EXCEPT ![r] = missing]
                /\ UNCHANGED <<step, deleted>>
    /\ UNCHANGED <<store, consulUp, late, faults, stored>>

(* addMissingProperties, first half: list the profile and decide. *)
ReadStored(r) ==
    /\ pc[r] = "reading"
    /\ consulUp
    /\ LET missing == {p \in todo[r] : store[p] = Absent}
       IN  IF missing = {}
           THEN GoTo(r, step[r] + 1)
           ELSE /\ pc' = [pc EXCEPT ![r] = "writing"]
                /\ todo' = [todo EXCEPT ![r] = missing]
                /\ UNCHANGED <<step, deleted>>
    /\ UNCHANGED <<store, consulUp, late, faults, stored>>

(* addMissingProperties, second half: write what was missing at the read. *)
AddMissing(r) ==
    /\ pc[r] = "writing"
    /\ consulUp
    /\ store' = Fill(todo[r], r)
    /\ GoTo(r, step[r] + 1)
    /\ NoteStored({r}, todo[r])
    /\ late' = OvertakeLate(late, todo[r])
    /\ UNCHANGED <<consulUp, faults>>

(* Consul does not answer: InitConsulConfiguration returns the error and   *)
(* RunService panics.                                                      *)
Panic(r) == /\ pc[r] \in {"reading", "writing"}
            /\ ~ consulUp
            /\ GoDown(r)
            /\ NoteStored({r}, {})
            /\ UNCHANGED <<store, consulUp, late, faults>>

(* The process ends at any other time: a signal, a kill, or the panic      *)
(* after an answer of Consul was lost.  A transaction it was about may not *)
(* have been sent, may have been applied, or may still be under way.       *)
Die(r) == /\ pc[r] # "down"
          /\ faults < MaxFaults
          /\ faults' = faults + 1
          /\ GoDown(r)
          /\ \/ /\ NoteStored({r}, {})
                /\ UNCHANGED <<store, late>>
             \/ /\ pc[r] = "writing"
                /\ consulUp
                /\ store' = Fill(todo[r], r)
                /\ NoteStored({r}, todo[r])
                /\ late' = OvertakeLate(late, todo[r])
             \/ /\ pc[r] = "writing"
                /\ MayDelay
                /\ late' = late \cup {[from |-> r, todo |-> todo[r], stored |-> stored[r]]}
                /\ NoteStored({r}, {})
                /\ UNCHANGED store
          /\ UNCHANGED consulUp

(* A transaction under way reaches Consul, or never does. *)
LateTxn(t) ==
    /\ \/ /\ consulUp
          /\ store' = Fill(t.todo, t.from)
          /\ NoteStored({}, t.todo)
          /\ late' = OvertakeLate(late \ {t}, t.todo)
       \/ late' = late \ {t} /\ UNCHANGED <<store, stored>>
    /\ UNCHANGED <<consulUp, pc, step, todo, faults, deleted>>

-----------------------------------------------------------------------------
ServedByAnyone == consulUp /\ \E r \in Replica : pc[r] = "serving"

(* A client stores or deletes a property through a replica that serves. *)
ClientPut(p, v) ==
    /\ ServedByAnyone
    /\ store' = [store EXCEPT ![p] = v]
    /\ NoteStored({}, {p})
    /\ late' = OvertakeLate(late, {p})
    /\ UNCHANGED <<consulUp, pc, step, todo, faults, deleted>>

ClientDelete(p) ==
    /\ ServedByAnyone
    /\ store' = [store EXCEPT ![p] = Absent]
    /\ deleted' = [q \in Replica |-> IF pc[q] \in Starting
                                     THEN deleted[q] \cup {p} ELSE {}]
    /\ UNCHANGED <<consulUp, pc, step, todo, late, faults, stored>>

(* Consul becomes unreachable, or reachable again. *)
ConsulChanges == /\ consulUp' = ~ consulUp
                 /\ UNCHANGED <<store, pc, step, todo, late, faults, stored, deleted>>

Initialize(r) == FetchBaseline(r) \/ ReadStored(r) \/ AddMissing(r) \/ Panic(r)

Next == \/ \E r \in Replica : Start(r) \/ Initialize(r) \/ Die(r)
        \/ \E t \in late : LateTxn(t)
        \/ \E p \in Path : ClientDelete(p) \/ \E v \in ClientValue : ClientPut(p, v)
        \/ ConsulChanges

Spec == Init /\ [][Next]_vars

(* The kubelet restarts a pod that is down, and a replica whose Consul or  *)
(* baseline call has an outcome goes on with it (the fetch times out after *)
(* 30 seconds).  Nothing is assumed of Consul, clients and faults.         *)
FairSpec == /\ Spec
            /\ \A r \in Replica : WF_vars(Start(r)) /\ WF_vars(Initialize(r))

-----------------------------------------------------------------------------
(* Every replica is at one of its steps, and stores only defaults of its own. *)
TypeOK == /\ store \in [Path -> Replica \cup ClientValue \cup {Absent}]
          /\ consulUp \in BOOLEAN
          /\ pc \in [Replica -> {"down", "fetching", "reading", "writing", "serving"}]
          /\ step \in [Replica -> 1 .. Len(Steps)]
          /\ todo \in [Replica -> SUBSET Path]
          /\ late \subseteq [from : Replica, todo : SUBSET Path, stored : SUBSET Path]
          /\ faults \in 0 .. MaxFaults
          /\ stored \in [Replica -> SUBSET Path]
          /\ deleted \in [Replica -> SUBSET Path]

(* A default is only ever stored where nothing was: "A property that is    *)
(* already stored keeps its value, including an empty one"                 *)
(* (docs/00-startup-initialization.md:5-6).  It holds with one replica     *)
(* whose transactions do not outlive it, and fails with a second replica.  *)
StoredKeepsValue ==
    [][\A p \in Path : store'[p] \in Replica /\ store'[p] # store[p]
                          => store[p] = Absent]_vars

(* The part of StoredKeepsValue a client notices: the value it stored is   *)
(* not replaced by a default, neither while it waits nor after its 201.    *)
ClientValueKept ==
    [][\A p \in Path : store[p] \in ClientValue => store'[p] \notin Replica]_vars

(* What holds with any number of replicas: a default overwrites a value    *)
(* only if that value, or one before it, was stored after the replica had  *)
(* read the profile.  In particular a value that is there when a pod       *)
(* starts and is left alone survives the start.                            *)
OverwritesOnlyRaced ==
    [][\A p \in Path :
          store'[p] \in Replica /\ store'[p] # store[p] /\ store[p] # Absent
             => \/ p \in stored[store'[p]] /\ pc[store'[p]] = "writing"
                \/ \E t \in late : t.from = store'[p] /\ p \in t.todo \cap t.stored]_vars

(* A replica that begins to serve finds every default in place, except     *)
(* what clients deleted while it started: deleted defaults are restored by *)
(* the next start, whatever crashed, was lost or ran at the same time      *)
(* (docs/06-replacing-config-server.md:116).                               *)
FilledAtStart ==
    [][\A r \in Replica : pc[r] # "serving" /\ pc'[r] = "serving" =>
          \A s \in AllSteps \ {"baseline"} : \A p \in Defaults[s] :
             store'[p] # Absent \/ p \in deleted[r]]_vars

(* "When Consul is unreachable at startup, the service exits and the pod   *)
(* restarts until Consul is reachable" (docs/06:177-178): once Consul      *)
(* stays up, every replica ends up serving for good.                       *)
EventuallyServing ==
    <>[]consulUp => \A r \in Replica : <>[](pc[r] = "serving")
=============================================================================
