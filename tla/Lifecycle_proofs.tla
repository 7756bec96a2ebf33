-------------------------- MODULE Lifecycle_proofs --------------------------
(* The safety of Lifecycle for any number of pods, handlers, stops and     *)
(* faults.                                                                 *)
EXTENDS Lifecycle, TLAPS

(* The listener stays closed while the hook shuts the server down and      *)
(* after it; no process that has not listened was told to stop while it    *)
(* served, so the hook misses early signals only; the health service,      *)
(* which has no check of Consul, never reports a problem.                  *)
ShutDown(p) == hook[p] \in {"shutdown", "done"} => phase[p] = "closing"
Drained(p) == hook[p] = "done" => handlers[p] = 0
BeforeListening == {"initializing", "hung", "initialized", "probes", "registered"}
MissesEarly(p) == /\ phase[p] \in BeforeListening => told[p] # "serving"
                  /\ Missed(p) => told[p] = "starting"
HealthyWithoutConsul(p) == result[p]["health"] # "PROBLEM"

IInv == TypeOK /\ \A p \in Pod : ShutDown(p) /\ Drained(p) /\ MissesEarly(p) /\ HealthyWithoutConsul(p)

LEMMA Bounds ==
    /\ MaxHandlers \in Nat /\ MaxStops \in Nat /\ MaxFaults \in Nat
    /\ 0 \in 0..MaxHandlers /\ 0 \in 0..MaxStops /\ 0 \in 0..MaxFaults
BY LifecycleAssumption

LEMMA NoResultType ==
    /\ NoResult \in [Services -> {"none", "UP", "PROBLEM"}]
    /\ NoResult["health"] = "none"
BY DEF NoResult, Services

(* The end of a process keeps the invariant whatever else happens in the   *)
(* step.                                                                   *)
LEMMA EndKeeps ==
    ASSUME IInv, NEW p \in Pod, End(p), told' \in [Pod -> Signals],
           \A q \in Pod \ {p} : told'[q] = told[q]
    PROVE  /\ phase' \in [Pod -> Phases] /\ hook' \in [Pod -> Hooks]
           /\ result' \in [Pod -> [Services -> {"none", "UP", "PROBLEM"}]]
           /\ handlers' \in [Pod -> 0 .. MaxHandlers]
           /\ \A q \in Pod :
                 /\ hook'[q] # "none" <=> phase'[q] \in {"registered", "listening", "closing"}
                 /\ phase'[q] = "closing" => hook'[q] \in {"shutdown", "done"}
                 /\ ShutDown(q)' /\ Drained(q)' /\ MissesEarly(q)' /\ HealthyWithoutConsul(q)'
<1>1. /\ phase' \in [Pod -> Phases] /\ hook' \in [Pod -> Hooks]
      /\ handlers' \in [Pod -> 0 .. MaxHandlers]
  BY Bounds DEF IInv, TypeOK, End, Phases, Hooks
<1>2. result' \in [Pod -> [Services -> {"none", "UP", "PROBLEM"}]]
  BY NoResultType DEF IInv, TypeOK, End
<1>3. ASSUME NEW q \in Pod
      PROVE  /\ hook'[q] # "none" <=> phase'[q] \in {"registered", "listening", "closing"}
             /\ phase'[q] = "closing" => hook'[q] \in {"shutdown", "done"}
             /\ ShutDown(q)' /\ Drained(q)' /\ MissesEarly(q)'
  <2>1. CASE q = p
    BY <2>1 DEF IInv, TypeOK, End, ShutDown, Drained, MissesEarly, Missed, BeforeListening
  <2>2. CASE q # p
    BY <2>2 DEF IInv, TypeOK, End, ShutDown, Drained, MissesEarly, Missed
  <2> QED BY <2>1, <2>2
<1>4. ASSUME NEW q \in Pod PROVE HealthyWithoutConsul(q)'
  <2>1. result'[q] = IF q = p THEN NoResult ELSE result[q]
    BY DEF IInv, TypeOK, End
  <2> QED BY <2>1, NoResultType DEF IInv, HealthyWithoutConsul
<1> QED BY <1>1, <1>2, <1>3, <1>4

LEMMA InitSafe == Init => IInv
<1> SUFFICES ASSUME Init PROVE IInv
  OBVIOUS
<1>1. TypeOK
  BY Bounds, NoResultType DEF Init, TypeOK, Phases, Hooks, Signals
<1>2. ASSUME NEW p \in Pod PROVE ShutDown(p) /\ Drained(p) /\ MissesEarly(p) /\ HealthyWithoutConsul(p)
  BY NoResultType DEF Init, ShutDown, Drained, MissesEarly, Missed, HealthyWithoutConsul
<1> QED BY <1>1, <1>2 DEF IInv

LEMMA NextSafe == IInv /\ [Next]_vars => IInv'
<1> SUFFICES ASSUME IInv, [Next]_vars PROVE IInv'
  OBVIOUS
<1> USE DEF outside, server, Missed, BeforeListening, Signals, Told
<1>1. ASSUME NEW p \in Pod, End(p), UNCHANGED <<consulUp, inService>>,
             told' \in [Pod -> Signals], \A q \in Pod \ {p} : told'[q] = told[q],
             stops' \in 0 .. MaxStops, faults' \in 0 .. MaxFaults
      PROVE  IInv'
  BY <1>1, EndKeeps DEF IInv, TypeOK
<1>2. ASSUME NEW p \in Pod, Run(p) PROVE IInv'
  <2>1. CASE Initialize(p) /\ End(p)
    BY <2>1, <1>1 DEF Initialize, IInv, TypeOK
  <2>2. CASE Initialize(p) /\ ~ End(p)
    BY <2>2 DEF Initialize, Move, IInv, TypeOK, Phases, ShutDown, Drained, MissesEarly, HealthyWithoutConsul
  <2>3. CASE StartProbes(p)
    BY <2>3 DEF StartProbes, Move, IInv, TypeOK, Phases, ShutDown, Drained, MissesEarly, HealthyWithoutConsul
  <2>4. CASE RegisterHooks(p)
    BY <2>4 DEF RegisterHooks, Move, IInv, TypeOK, Phases, Hooks, ShutDown, Drained, MissesEarly, HealthyWithoutConsul
  <2>5. CASE StartServer(p)
    BY <2>5 DEF StartServer, Move, IInv, TypeOK, Phases, ShutDown, Drained, MissesEarly, HealthyWithoutConsul
  <2>6. CASE ServerReturns(p)
    BY <2>6, <1>1 DEF ServerReturns, IInv, TypeOK
  <2> QED BY <1>2, <2>1, <2>2, <2>3, <2>4, <2>5, <2>6 DEF Run
<1>3. ASSUME NEW p \in Pod, HookRuns(p) PROVE IInv'
  <2>1. CASE Notify(p)
    BY <2>1 DEF Notify, IInv, TypeOK, Hooks, ShutDown, Drained, MissesEarly, HealthyWithoutConsul
  <2>2. CASE Shutdown(p)
    <3>1. CASE /\ phase[p] = "listening" /\ phase' = [phase EXCEPT ![p] = "closing"]
               /\ hook' = [hook EXCEPT ![p] = "shutdown"]
      BY <1>3, <2>2, <3>1
         DEF Shutdown, IInv, TypeOK, Phases, Hooks, ShutDown, Drained, MissesEarly, HealthyWithoutConsul
    <3>2. CASE /\ phase[p] # "listening" /\ hook' = [hook EXCEPT ![p] = "missed"]
               /\ UNCHANGED phase
      BY <1>3, <2>2, <3>2
         DEF Shutdown, IInv, TypeOK, Phases, Hooks, ShutDown, Drained, MissesEarly, HealthyWithoutConsul
    <3> QED BY <2>2, <3>1, <3>2 DEF Shutdown
  <2>3. CASE Cancel(p)
    BY <2>3 DEF Cancel, IInv, TypeOK, Hooks, ShutDown, Drained, MissesEarly, HealthyWithoutConsul
  <2> QED BY <1>3, <2>1, <2>2, <2>3 DEF HookRuns
<1>4. ASSUME NEW p \in Pod, Handle(p) PROVE IInv'
  <2>1. handlers' \in [Pod -> 0 .. MaxHandlers]
    <3>1. handlers \in [Pod -> 0 .. MaxHandlers]
      BY DEF IInv, TypeOK
    <3>2. handlers[p] \in 0 .. MaxHandlers
      BY <3>1
    <3>3. CASE handlers[p] < MaxHandlers /\ handlers' = [handlers EXCEPT ![p] = @ + 1]
      <4>1. handlers[p] + 1 \in 0 .. MaxHandlers
        BY <3>2, <3>3, Bounds
      <4> QED BY <3>1, <3>3, <4>1
    <3>4. CASE handlers[p] > 0 /\ handlers' = [handlers EXCEPT ![p] = @ - 1]
      <4>1. handlers[p] - 1 \in 0 .. MaxHandlers
        BY <3>2, <3>4, Bounds
      <4> QED BY <3>1, <3>4, <4>1
    <3> QED BY <1>4, <3>3, <3>4 DEF Handle
  <2>2. ASSUME NEW q \in Pod PROVE Drained(q)'
    BY <1>4 DEF Handle, IInv, TypeOK, ShutDown, Drained
  <2>3. UNCHANGED <<phase, hook, result, consulUp, inService, told, stops, faults>>
    BY <1>4 DEF Handle
  <2> QED BY <2>1, <2>2, <2>3 DEF IInv, TypeOK, ShutDown, MissesEarly, HealthyWithoutConsul
<1>5. ASSUME NEW p \in Pod, NEW s \in Services, RunChecks(p, s) PROVE IInv'
  <2>1. CheckResult(s) \in {"UP", "PROBLEM"} /\ (s = "health" => CheckResult(s) = "UP")
    BY DEF CheckResult, HealthCheck
  <2>2. result' \in [Pod -> [Services -> {"none", "UP", "PROBLEM"}]]
    BY <1>5, <2>1 DEF RunChecks, IInv, TypeOK
  <2>3. ASSUME NEW q \in Pod PROVE HealthyWithoutConsul(q)'
    BY <1>5, <2>1 DEF RunChecks, IInv, TypeOK, HealthyWithoutConsul, Services
  <2>4. UNCHANGED <<phase, hook, handlers, consulUp, inService, told, stops, faults>>
    BY <1>5 DEF RunChecks
  <2> QED BY <2>2, <2>3, <2>4 DEF IInv, TypeOK, ShutDown, Drained, MissesEarly
<1>6. ASSUME NEW p \in Pod, ReadinessProbe(p) PROVE IInv'
  <2>1. ProbeAnswers(p, "readiness") \in BOOLEAN
    BY DEF ProbeAnswers
  <2>2. inService' \in [Pod -> BOOLEAN]
    BY <1>6, <2>1 DEF ReadinessProbe, IInv, TypeOK
  <2> QED BY <1>6, <2>2 DEF ReadinessProbe, IInv, TypeOK, ShutDown, Drained, MissesEarly, HealthyWithoutConsul
<1>7. ASSUME NEW p \in Pod, ProbeKill(p) \/ Kill(p) PROVE IInv'
  BY <1>7, <1>1 DEF ProbeKill, Kill, IInv, TypeOK
<1>8. ASSUME NEW p \in Pod, Restart(p) PROVE IInv'
  BY <1>8 DEF Restart, Move, IInv, TypeOK, Phases, ShutDown, Drained, MissesEarly, HealthyWithoutConsul
<1>9. ASSUME NEW p \in Pod, Terminate(p) PROVE IInv'
  <2>1. told' \in [Pod -> Signals] /\ stops' \in 0 .. MaxStops
    BY <1>9, Bounds DEF Terminate, IInv, TypeOK
  <2>2. CASE End(p)
    BY <1>9, <2>1, <2>2, <1>1 DEF Terminate, IInv, TypeOK
  <2>3. CASE UNCHANGED <<server, result, handlers>>
    BY <1>9, <2>1, <2>3 DEF Terminate, IInv, TypeOK, ShutDown, Drained, MissesEarly, HealthyWithoutConsul
  <2> QED BY <1>9, <2>2, <2>3 DEF Terminate
<1>10. ASSUME NEW p \in Pod, Fault(p) PROVE IInv'
  <2>1. faults' \in 0 .. MaxFaults
    BY <1>10, Bounds DEF Fault, IInv, TypeOK
  <2>2. CASE End(p)
    BY <1>10, <2>1, <2>2, <1>1 DEF Fault, IInv, TypeOK
  <2>3. CASE Move(p, "initializing", "hung") /\ UNCHANGED <<hook, result, handlers>>
    BY <1>10, <2>1, <2>3 DEF Fault, Move, IInv, TypeOK, Phases, ShutDown, Drained, MissesEarly, HealthyWithoutConsul
  <2> QED BY <1>10, <2>2, <2>3 DEF Fault
<1>11. CASE ConsulChanges
  BY <1>11 DEF ConsulChanges, IInv, TypeOK, ShutDown, Drained, MissesEarly, HealthyWithoutConsul
<1>12. CASE UNCHANGED vars
  BY <1>12 DEF vars, IInv, TypeOK, ShutDown, Drained, MissesEarly, HealthyWithoutConsul
<1> QED BY <1>2, <1>3, <1>4, <1>5, <1>6, <1>7, <1>8, <1>9, <1>10, <1>11, <1>12 DEF Next

THEOREM Safe == Spec => []IInv
BY InitSafe, NextSafe, PTL DEF Spec

(* The variables keep their types, and the hook and the listener belong    *)
(* together, lib/runner.go:111-140.                                        *)
THEOREM TypeCorrect == Spec => []TypeOK
<1>1. IInv => TypeOK
  BY DEF IInv
<1> QED BY <1>1, Safe, PTL

(* A request is handled under a cancelled context only in a process that   *)
(* was told to stop before it listened and whose hook found nothing to     *)
(* shut down, however many requests and pods there are                     *)
(* (lib/runner.go:111).                                                    *)
THEOREM CancelledOnlyWhenDrained == Spec => []CancelAfterDrain
<1>1. IInv => CancelAfterDrain
  BY DEF IInv, TypeOK, Drained, MissesEarly, Missed, Cancelled, CancelAfterDrain
<1> QED BY <1>1, Safe, PTL

(* No outage of Consul restarts a process that serves                      *)
(* (docs/06-replacing-config-server.md:176-178).                           *)
THEOREM OutagesRestartNobody == Spec => OutageRestartsNobody
<1>1. IInv /\ [Next]_vars
        => [\A p \in Pod : phase[p] = "listening" /\ phase'[p] = "down"
                              => Told(p)' \/ faults' # faults]_vars
  <2> SUFFICES ASSUME IInv, [Next]_vars, NEW p \in Pod,
                      phase[p] = "listening", phase'[p] = "down"
               PROVE  Told(p)' \/ faults' # faults
    OBVIOUS
  <2> USE DEF outside, server, Told, Signals
  <2>1. /\ phase \in [Pod -> Phases] /\ told \in [Pod -> Signals] /\ faults \in Nat
        /\ result[p]["health"] \in {"none", "UP"}
    BY Bounds DEF IInv, TypeOK, HealthyWithoutConsul, Services
  <2>2. ASSUME NEW q \in Pod, End(q) PROVE q = p
    BY <2>1, <2>2 DEF End
  <2>3. ASSUME NEW q \in Pod, NEW from, NEW to, Move(q, from, to), to # "down" PROVE FALSE
    BY <2>1, <2>3 DEF Move
  <2>4. ~ UNCHANGED phase
    OBVIOUS
  <2>5. ASSUME NEW q \in Pod, Run(q) PROVE FALSE
    BY <2>2, <2>3, <2>5 DEF Run, Initialize, StartProbes, RegisterHooks, StartServer, ServerReturns
  <2>6. ASSUME NEW q \in Pod, HookRuns(q) PROVE FALSE
    BY <2>1, <2>4, <2>6 DEF HookRuns, Notify, Shutdown, Cancel
  <2>7. ASSUME NEW q \in Pod, ProbeKill(q) PROVE FALSE
    BY <2>1, <2>2, <2>7 DEF ProbeKill, ProbeAnswers
  <2>8. ASSUME NEW q \in Pod, Restart(q) PROVE FALSE
    BY <2>3, <2>8 DEF Restart
  <2>9. ASSUME NEW q \in Pod, Terminate(q) PROVE Told(p)'
    BY <2>1, <2>2, <2>4, <2>9 DEF Terminate
  <2>10. ASSUME NEW q \in Pod, Kill(q) PROVE Told(p)'
    BY <2>2, <2>10 DEF Kill
  <2>11. ASSUME NEW q \in Pod, Fault(q) PROVE faults' # faults
    BY <2>1, <2>11 DEF Fault
  <2>12. ASSUME NEW q \in Pod, NEW t \in Services,
                Handle(q) \/ RunChecks(q, t) \/ ReadinessProbe(q) PROVE FALSE
    BY <2>4, <2>12 DEF Handle, RunChecks, ReadinessProbe
  <2>13. ~ ConsulChanges /\ ~ UNCHANGED vars
    BY <2>4 DEF ConsulChanges, vars
  <2>14. "health" \in Services
    BY DEF Services
  <2> QED BY <2>5, <2>6, <2>7, <2>8, <2>9, <2>10, <2>11, <2>12, <2>13, <2>14 DEF Next
<1> QED BY <1>1, Safe, PTL DEF Spec, OutageRestartsNobody
=============================================================================
