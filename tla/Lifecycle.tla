------------------------------ MODULE Lifecycle ------------------------------
(***************************************************************************)
(* The life of each replica, from RunService to its end: initialization,   *)
(* probes, the server, and the goroutine that waits for a signal and runs  *)
(* the shutdown hook beside it.  The kubelet probes the process, restarts  *)
(* what is down and tells it to stop; Consul comes and goes.               *)
(*                                                                         *)
(* What InitializeDefaultProperties does is StartupInit; here it succeeds, *)
(* fails or hangs, since the Consul client has no timeout.                 *)
(***************************************************************************)
EXTENDS Naturals

CONSTANTS Pod,
          MaxHandlers,  \* bound: requests handled by a process at a time
          MaxStops,     \* bound: times a pod is told to stop
          MaxFaults     \* bound: crashes and hanging starts

ASSUME LifecycleAssumption == {MaxHandlers, MaxStops, MaxFaults} \subseteq Nat

VARIABLES consulUp,   \* Consul answers
          phase,      \* where RunService is
          hook,       \* where the goroutine of registerShutdownHooks is
          result,     \* what GetHealth of each health service returns
          handlers,   \* number of requests being handled
          inService,  \* the kubelet counts the pod as ready
          told,       \* whether and when the pod was told to stop
          stops, faults

vars == <<consulUp, phase, hook, result, handlers, inService, told, stops, faults>>
server == <<phase, hook>>
outside == <<consulUp, inService, told, stops, faults>>

Phases == {"down", "initializing", "hung", "initialized", "probes", "registered",
           "listening", "closing"}
Hooks == {"none", "spawned", "waiting", "shutdown", "done", "missed", "cancelled"}
Signals == {"no", "starting", "serving"}
Services == {"health", "readiness"}
NoResult == [s \in Services |-> "none"]

Init == /\ consulUp \in BOOLEAN
        /\ phase = [p \in Pod |-> "down"]
        /\ hook = [p \in Pod |-> "none"]
        /\ result = [p \in Pod |-> NoResult]
        /\ handlers = [p \in Pod |-> 0]
        /\ inService = [p \in Pod |-> FALSE]
        /\ told = [p \in Pod |-> "no"]
        /\ stops = 0
        /\ faults = 0

Alive(p) == phase[p] # "down"
Told(p) == told[p] # "no"

(* The process ends, and every handler with it. *)
End(p) == /\ phase' = [phase EXCEPT ![p] = "down"]
          /\ hook' = [hook EXCEPT ![p] = "none"]
          /\ result' = [result EXCEPT ![p] = NoResult]
          /\ handlers' = [handlers EXCEPT ![p] = 0]

Move(p, from, to) == phase[p] = from /\ phase' = [phase EXCEPT ![p] = to]

-----------------------------------------------------------------------------
(* RunService, step by step. *)

(* InitConsulConfiguration returns, or panics when Consul fails. *)
Initialize(p) ==
    \/ /\ consulUp
       /\ Move(p, "initializing", "initialized")
       /\ UNCHANGED <<hook, result, handlers, outside>>
    \/ /\ ~ consulUp /\ phase[p] = "initializing"
       /\ End(p)
       /\ UNCHANGED outside

(* Mutant: the signals are awaited before the routes are there. *)
StartProbes_WithHook(p) == /\ Move(p, "initialized", "probes")
                           /\ hook' = [hook EXCEPT ![p] = "spawned"]
                           /\ UNCHANGED <<result, handlers, outside>>

(* The services and the app exist, the probe endpoints are registered and  *)
(* have started their services.                                            *)
StartProbes(p) == /\ Move(p, "initialized", "probes")
                  /\ UNCHANGED <<hook, result, handlers, outside>>

(* The routes, the hook, and registerShutdownHooks, which starts a          *)
(* goroutine and returns.                                                  *)
RegisterHooks(p) == /\ Move(p, "probes", "registered")
                    /\ hook' = [hook EXCEPT ![p] = "spawned"]
                    /\ UNCHANGED <<result, handlers, outside>>

StartServer(p) == /\ Move(p, "registered", "listening")
                  /\ UNCHANGED <<hook, result, handlers, outside>>

(* StartServer returns when the listener is closed, and the process ends:  *)
(* nothing waits for the goroutine of the hooks or for the handlers.       *)
ServerReturns(p) == /\ phase[p] = "closing"
                    /\ End(p)
                    /\ UNCHANGED outside

-----------------------------------------------------------------------------
(* The goroutine of registerShutdownHooks. *)

Notify(p) == /\ hook[p] = "spawned"
             /\ hook' = [hook EXCEPT ![p] = "waiting"]
             /\ UNCHANGED <<phase, result, handlers, outside>>

(* Mutant: the context is cancelled before the server is shut down. *)
Shutdown_CancelFirst(p) ==
    /\ hook[p] = "waiting" /\ Told(p)
    /\ hook' = [hook EXCEPT ![p] = "done"]
    /\ phase' = [phase EXCEPT ![p] = IF @ = "listening" THEN "closing" ELSE @]
    /\ UNCHANGED <<result, handlers, outside>>

(* Mutant: the hook cancels the context and leaves the server running. *)
Shutdown_OnlyCancel(p) ==
    /\ hook[p] = "waiting" /\ Told(p)
    /\ hook' = [hook EXCEPT ![p] = "done"]
    /\ UNCHANGED <<phase, result, handlers, outside>>

(* A signal is received and the hook calls app.Shutdown: it closes the     *)
(* listener and waits, and returns at once if there is none yet.           *)
Shutdown(p) ==
    /\ hook[p] = "waiting" /\ Told(p)
    /\ \/ /\ phase[p] = "listening"
          /\ phase' = [phase EXCEPT ![p] = "closing"]
          /\ hook' = [hook EXCEPT ![p] = "shutdown"]
       \/ /\ phase[p] # "listening"
          /\ hook' = [hook EXCEPT ![p] = "missed"]
          /\ UNCHANGED phase
    /\ UNCHANGED <<result, handlers, outside>>

(* Shutdown has returned, when no handler runs any more or because nothing *)
(* listened, and the hook goes on to globalCancel.  RunService takes no    *)
(* notice: a server that did not listen yet starts all the same.           *)
Cancel(p) == /\ \/ /\ hook[p] = "shutdown" /\ handlers[p] = 0
                   /\ hook' = [hook EXCEPT ![p] = "done"]
                \/ /\ hook[p] = "missed"
                   /\ hook' = [hook EXCEPT ![p] = "cancelled"]
             /\ UNCHANGED <<phase, result, handlers, outside>>

-----------------------------------------------------------------------------
(* Requests and probes. *)

Handle(p) ==
    /\ \/ /\ phase[p] = "listening" /\ handlers[p] < MaxHandlers
          /\ handlers' = [handlers EXCEPT ![p] = @ + 1]
       \/ /\ handlers[p] > 0
          /\ handlers' = [handlers EXCEPT ![p] = @ - 1]
    /\ UNCHANGED <<server, result, outside>>

Started(p) == phase[p] \in {"probes", "registered", "listening", "closing"}

(* ConsulService.HealthCheck *)
HealthCheck == IF consulUp THEN "UP" ELSE "PROBLEM"

(* Mutant: the Consul check is added to the wrong service. *)
CheckResult_Swapped(s) == IF s = "health" THEN HealthCheck ELSE "UP"

(* The Consul check belongs to the readiness alone. *)
CheckResult(s) == IF s = "readiness" THEN HealthCheck ELSE "UP"

(* Mutant: the readiness service is not started. *)
RunChecks_NotStarted(p, s) == /\ Started(p) /\ s = "health"
                              /\ result' = [result EXCEPT ![p][s] = CheckResult(s)]
                              /\ UNCHANGED <<server, handlers, outside>>

(* A health service runs its checks; GetHealth returns the last result. *)
RunChecks(p, s) == /\ Started(p)
                   /\ result' = [result EXCEPT ![p][s] = CheckResult(s)]
                   /\ UNCHANGED <<server, handlers, outside>>

(* Mutant: the readiness endpoint answers for the health service. *)
ProbeAnswers_Health(p, s) == phase[p] = "listening" /\ result[p]["health"] = "UP"

(* createProbeEndpoint: 200 if the result is there and up, else 503. *)
ProbeAnswers(p, s) == phase[p] = "listening" /\ result[p][s] = "UP"

(* The readiness probe of the chart: enough equal answers in a row. *)
ReadinessProbe(p) == /\ inService' = [inService EXCEPT ![p] = ProbeAnswers(p, "readiness")]
                     /\ UNCHANGED <<consulUp, server, result, handlers, told, stops, faults>>

(* The startup and the liveness probe of the chart both ask /health, and   *)
(* restart a process that does not answer 200 often enough.  A start that  *)
(* does not hang is taken to fit the 63 seconds of the startup probe, and  *)
(* the first checks to end before the liveness probe gives up.             *)
ProbeKill(p) == /\ phase[p] \in {"hung", "listening"}
                /\ phase[p] = "listening" => result[p]["health"] # "none"
                /\ ~ ProbeAnswers(p, "health")
                /\ End(p)
                /\ UNCHANGED outside

-----------------------------------------------------------------------------
(* What the outside does to a pod. *)

Restart(p) == /\ Move(p, "down", "initializing")
              /\ told' = [told EXCEPT ![p] = "no"]
              /\ inService' = [inService EXCEPT ![p] = FALSE]
              /\ UNCHANGED <<consulUp, hook, result, handlers, stops, faults>>

(* SIGTERM.  A process that does not yet wait for it ends. *)
Terminate(p) ==
    /\ stops < MaxStops /\ Alive(p) /\ ~ Told(p)
    /\ stops' = stops + 1
    /\ told' = [told EXCEPT ![p] = IF phase[p] = "listening" THEN "serving" ELSE "starting"]
    /\ IF hook[p] \in {"none", "spawned"} THEN End(p)
                                         ELSE UNCHANGED <<server, result, handlers>>
    /\ UNCHANGED <<consulUp, inService, faults>>

(* SIGKILL at the end of the grace period. *)
Kill(p) == Told(p) /\ Alive(p) /\ End(p) /\ UNCHANGED outside

(* The process dies, or a Consul call of its start never returns. *)
Fault(p) == /\ faults < MaxFaults
            /\ faults' = faults + 1
            /\ \/ Alive(p) /\ End(p)
               \/ /\ Move(p, "initializing", "hung")
                  /\ UNCHANGED <<hook, result, handlers>>
            /\ UNCHANGED <<consulUp, inService, told, stops>>

ConsulChanges == /\ consulUp' = ~ consulUp
                 /\ UNCHANGED <<server, result, handlers, inService, told, stops, faults>>

Run(p) == \/ Initialize(p) \/ StartProbes(p) \/ RegisterHooks(p) \/ StartServer(p)
          \/ ServerReturns(p)

HookRuns(p) == Notify(p) \/ Shutdown(p) \/ Cancel(p)

Next == \/ \E p \in Pod : \/ Run(p) \/ HookRuns(p) \/ Handle(p)
                          \/ \E s \in Services : RunChecks(p, s)
                          \/ ReadinessProbe(p) \/ ProbeKill(p)
                          \/ Restart(p) \/ Terminate(p) \/ Kill(p) \/ Fault(p)
        \/ ConsulChanges

(* The process and its goroutines go on, and the kubelet probes and        *)
(* restarts.  Handlers may take as long as they like, Consul may be down   *)
(* for ever, and nobody has to send a SIGKILL.  A health check that hangs  *)
(* is not in the model.                                                    *)
Fairness == \A p \in Pod : /\ WF_vars(Run(p)) /\ WF_vars(HookRuns(p))
                           /\ \A s \in Services : WF_vars(RunChecks(p, s))
                           /\ WF_vars(ReadinessProbe(p))
                           /\ WF_vars(ProbeKill(p)) /\ WF_vars(Restart(p))

Spec == Init /\ [][Next]_vars

FairSpec == Spec /\ Fairness

-----------------------------------------------------------------------------
(* Types; the hook exists from its registration to the end of the process, *)
(* and only it closes the listener.                                        *)
TypeOK == /\ consulUp \in BOOLEAN
          /\ phase \in [Pod -> Phases]
          /\ hook \in [Pod -> Hooks]
          /\ \A p \in Pod :
                /\ hook[p] # "none" <=> phase[p] \in {"registered", "listening", "closing"}
                /\ phase[p] = "closing" => hook[p] \in {"shutdown", "done"}
          /\ result \in [Pod -> [Services -> {"none", "UP", "PROBLEM"}]]
          /\ handlers \in [Pod -> 0 .. MaxHandlers]
          /\ inService \in [Pod -> BOOLEAN]
          /\ told \in [Pod -> Signals]
          /\ stops \in 0 .. MaxStops
          /\ faults \in 0 .. MaxFaults

Missed(p) == hook[p] \in {"missed", "cancelled"}
Cancelled(p) == hook[p] \in {"done", "cancelled"}

(* A request is handled under a cancelled global context only in a process *)
(* that was told to stop before it listened, and whose hook found nothing  *)
(* to shut down; every other one cancels when its handlers are done,       *)
(* though the hook and the server run side by side (lib/runner.go:111).    *)
CancelAfterDrain ==
    \A p \in Pod : Cancelled(p) /\ handlers[p] > 0 => Missed(p) /\ told[p] = "starting"

(* A process that serves ends only when it is told to stop or dies: no     *)
(* outage of Consul and no probe restarts it                               *)
(* (docs/06-replacing-config-server.md:176-178).                           *)
OutageRestartsNobody ==
    [][\A p \in Pod : phase[p] = "listening" /\ phase'[p] = "down"
                         => Told(p)' \/ faults' # faults]_vars

(* When Consul is gone for good, every pod leaves the Service and stays    *)
(* out, whatever its state was (docs/06-replacing-config-server.md:176).   *)
OutageEmptiesService ==
    <>[](~ consulUp) => <>[](\A p \in Pod : ~ inService[p])

(* When Consul is there for good, every pod gets into the Service and      *)
(* stays in it, through failed and hanging starts, crashes and stops       *)
(* (docs/06-replacing-config-server.md:177-178).                           *)
EventuallyInService == <>[]consulUp => <>[](\A p \in Pod : inService[p])

(* A process that is told to stop ends without being killed, whatever its  *)
(* handlers do, unless the signal reached the hook before it listened      *)
(* (lib/runner.go:111-140).                                                *)
StopsWithoutKill == \A p \in Pod : Told(p) ~> ~ Alive(p) \/ Missed(p)
=============================================================================
