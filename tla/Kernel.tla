-------------------------------- MODULE Kernel --------------------------------
(***************************************************************************)
(* AQKernel (kernel/kernel.py): services are started in dependency order,  *)
(* a failed critical service rolls the start back, and stop() stops what   *)
(* was started in reverse.  start() and every stop() are coroutines that   *)
(* share phase and _started and may interleave wherever one awaits.        *)
(***************************************************************************)
EXTENDS Naturals, Sequences, FiniteSets, SequencesExt

CONSTANTS
  Registered,         \* the services in the order of their registration
  Unregistered,       \* names that are depended on but not registered
  Critical,           \* services with critical = True
  Graphs,             \* the dependency lists the services may declare
  Stopper,            \* tasks that may call stop(): the main task, a signal
  SignalDuringStart,  \* whether stop() may be called while start() runs
  MaxStarts,          \* bound: calls of start()
  MaxBusFaults        \* bound: publishes that raise

Service == ToSet(Registered)

ASSUME KernelAssumption ==
  /\ Registered \in Seq(Service) \ {<<>>}
  /\ Unregistered \cap Service = {}
  /\ Critical \subseteq Service
  /\ \A g \in Graphs : g \in [Service -> Seq(Service \cup Unregistered)]
  /\ SignalDuringStart \in BOOLEAN
  /\ MaxStarts \in Nat /\ MaxBusFaults \in Nat

VARIABLES
  deps,       \* dependencies declared by each service: constant in a behaviour
  phase,      \* AQKernel.phase
  started,    \* AQKernel._started
  starting,   \* the start() in progress: its program counter, order and locals
  stop,       \* the stop() each task is awaiting
  svc,        \* external: what each service is doing
  starts,     \* calls of start()
  busFaults   \* publishes that raised

kernelVars == <<deps, phase, started, starting, stop, svc, starts, busFaults>>

KernelPhase == {"created", "starting", "running", "degraded", "stopping", "stopped"}
SvcState    == {"down", "starting", "up", "stopping", "stuck"}

\* pos: next of order to start; i: position in _started of a reverse walk
StartCall == [pc : {"idle", "loop", "awaiting", "rollback", "undoing"},
              order : Seq(Service), pos : Nat, i : Nat, target : Service,
              degraded : BOOLEAN]
StopCall  == [pc : {"idle", "emit", "loop", "awaiting"}, i : Nat, target : Service]

NoStart == [pc |-> "idle", order |-> <<>>, pos |-> 1, i |-> 0,
            target |-> Registered[1], degraded |-> FALSE]
NoStop  == [pc |-> "idle", i |-> 0, target |-> Registered[1]]

-----------------------------------------------------------------------------
(* _topo_sort: visit() with its recursion unrolled into a stack of names to *)
(* enter and names to leave.  temp holds the names on the current path.     *)

Enter(name) == [name |-> name, leave |-> FALSE]
Leave(name) == [name |-> name, leave |-> TRUE]
Task == [name : Service \cup Unregistered, leave : BOOLEAN]
ConfigError == [ok |-> FALSE, order |-> <<>>]

Entered(names) == [k \in DOMAIN names |-> Enter(names[k])]

Visited(name, temp, order) == name \in ToSet(order)

TopoSort(g) ==
  LET visit[todo \in Seq(Task), temp \in SUBSET Service, order \in Seq(Service)] ==
        IF todo = <<>> THEN [ok |-> TRUE, order |-> order]
        ELSE LET name == Head(todo).name  rest == Tail(todo) IN
          IF Head(todo).leave THEN visit[rest, temp \ {name}, Append(order, name)]
          ELSE IF Visited(name, temp, order) THEN visit[rest, temp, order]
          ELSE IF name \in temp \cup Unregistered THEN ConfigError
          ELSE visit[Entered(g[name]) \o <<Leave(name)>> \o rest, temp \cup {name}, order]
  IN  visit[Entered(Registered), {}, <<>>]

-----------------------------------------------------------------------------
KernelInit ==
  /\ deps \in Graphs
  /\ phase = "created"
  /\ started = <<>>
  /\ starting = NoStart
  /\ stop = [t \in Stopper |-> NoStop]
  /\ svc = [s \in Service |-> "down"]
  /\ starts = 0
  /\ busFaults = 0

\* A kernel that is up is not started again; every other one may be, also
\* after a failed start.
MayStart ==
  /\ starting.pc = "idle"
  /\ starts < MaxStarts
  /\ phase \in {"created", "starting", "stopped"}

\* A cycle or an unknown dependency: start() raises and the phase stays.
StartRefused ==
  /\ MayStart
  /\ ~ TopoSort(deps).ok
  /\ starts' = starts + 1
  /\ phase' = "starting"
  /\ UNCHANGED <<deps, started, starting, stop, svc, busFaults>>

StartBegin ==
  /\ MayStart
  /\ TopoSort(deps).ok
  /\ starts' = starts + 1
  /\ phase' = "starting"
  /\ starting' = [NoStart EXCEPT !.pc = "loop", !.order = TopoSort(deps).order]
  /\ UNCHANGED <<deps, started, stop, svc, busFaults>>

Current == starting.order[starting.pos]

\* await svc.start()
CallStart ==
  /\ starting.pc = "loop"
  /\ starting.pos <= Len(starting.order)
  /\ svc' = [svc EXCEPT ![Current] = "starting"]
  /\ starting' = [starting EXCEPT !.pc = "awaiting"]
  /\ UNCHANGED <<deps, phase, started, stop, starts, busFaults>>

Started ==
  /\ starting.pc = "awaiting"
  /\ svc' = [svc EXCEPT ![Current] = "up"]
  /\ started' = Append(started, Current)
  /\ starting' = [starting EXCEPT !.pc = "loop", !.pos = @ + 1]
  /\ UNCHANGED <<deps, phase, stop, starts, busFaults>>

NonCriticalFails ==
  /\ starting.pc = "awaiting"
  /\ Current \notin Critical
  /\ svc' = [svc EXCEPT ![Current] = "down"]
  /\ starting' = [starting EXCEPT !.pc = "loop", !.pos = @ + 1, !.degraded = TRUE]
  /\ UNCHANGED <<deps, phase, started, stop, starts, busFaults>>

\* Mutant of CriticalFails: a failed critical service only degrades the kernel.
CriticalFails_Degrades ==
  /\ starting.pc = "awaiting"
  /\ Current \in Critical
  /\ svc' = [svc EXCEPT ![Current] = "down"]
  /\ starting' = [starting EXCEPT !.pc = "loop", !.pos = @ + 1, !.degraded = TRUE]
  /\ UNCHANGED <<deps, phase, started, stop, starts, busFaults>>

CriticalFails ==
  /\ starting.pc = "awaiting"
  /\ Current \in Critical
  /\ svc' = [svc EXCEPT ![Current] = "down"]
  /\ starting' = [starting EXCEPT !.pc = "rollback", !.i = Len(started)]
  /\ UNCHANGED <<deps, phase, started, stop, starts, busFaults>>

\* The runtime_started event changes no state, whether or not it is published.
StartEnd ==
  /\ starting.pc = "loop"
  /\ starting.pos > Len(starting.order)
  /\ phase' = IF starting.degraded THEN "degraded" ELSE "running"
  /\ starting' = NoStart
  /\ UNCHANGED <<deps, started, stop, svc, starts, busFaults>>

-----------------------------------------------------------------------------
(* A walk over reversed(_started): Python's reverse iterator keeps a        *)
(* position and ends when it is past the list, which others may have cut.   *)
More(i) == i \in 1 .. Len(started)

\* The service refuses to stop, or its ten seconds are over.
AfterStop(ok) == IF ok THEN "down" ELSE "stuck"

RollbackNext ==
  /\ starting.pc = "rollback"
  /\ More(starting.i)
  /\ svc' = [svc EXCEPT ![started[starting.i]] = "stopping"]
  /\ starting' = [starting EXCEPT !.pc = "undoing", !.target = started[starting.i]]
  /\ UNCHANGED <<deps, phase, started, stop, starts, busFaults>>

\* No timeout here: the service's stop() returns or raises.
RollbackReturns(ok) ==
  /\ starting.pc = "undoing"
  /\ svc' = [svc EXCEPT ![starting.target] = AfterStop(ok)]
  /\ starting' = [starting EXCEPT !.pc = "rollback", !.i = @ - 1]
  /\ UNCHANGED <<deps, phase, started, stop, starts, busFaults>>

RollbackEnd ==
  /\ starting.pc = "rollback"
  /\ ~ More(starting.i)
  /\ started' = <<>>
  /\ phase' = "created"
  /\ starting' = NoStart
  /\ UNCHANGED <<deps, stop, svc, starts, busFaults>>

-----------------------------------------------------------------------------
(* stop() *)

\* A stop() of a stopping or stopped kernel returns at once.
StopBegin(t) ==
  /\ stop[t].pc = "idle"
  /\ phase \notin {"stopping", "stopped"}
  /\ SignalDuringStart \/ starting.pc = "idle"
  /\ phase' = "stopping"
  /\ stop' = [stop EXCEPT ![t].pc = "emit"]
  /\ UNCHANGED <<deps, started, starting, svc, starts, busFaults>>

StopEmitted(t) ==
  /\ stop[t].pc = "emit"
  /\ stop' = [stop EXCEPT ![t] = [@ EXCEPT !.pc = "loop", !.i = Len(started)]]
  /\ UNCHANGED <<deps, phase, started, starting, svc, starts, busFaults>>

\* runtime_stopped cannot be published: stop() raises before it stops anything.
StopEmitFails(t) ==
  /\ stop[t].pc = "emit"
  /\ busFaults < MaxBusFaults
  /\ busFaults' = busFaults + 1
  /\ stop' = [stop EXCEPT ![t] = NoStop]
  /\ UNCHANGED <<deps, phase, started, starting, svc, starts>>

\* Mutant of StopNext: the services are stopped in the order they were started.
StopNext_Forward(t) ==
  LET target == started[Len(started) + 1 - stop[t].i] IN
  /\ stop[t].pc = "loop"
  /\ More(stop[t].i)
  /\ svc' = [svc EXCEPT ![target] = "stopping"]
  /\ stop' = [stop EXCEPT ![t] = [@ EXCEPT !.pc = "awaiting", !.target = target]]
  /\ UNCHANGED <<deps, phase, started, starting, starts, busFaults>>

StopNext(t) ==
  LET target == started[stop[t].i] IN
  /\ stop[t].pc = "loop"
  /\ More(stop[t].i)
  /\ svc' = [svc EXCEPT ![target] = "stopping"]
  /\ stop' = [stop EXCEPT ![t] = [@ EXCEPT !.pc = "awaiting", !.target = target]]
  /\ UNCHANGED <<deps, phase, started, starting, starts, busFaults>>

\* Mutant of StopReturns: the walk tries the same service again.
StopReturns_Again(t, ok) ==
  /\ stop[t].pc = "awaiting"
  /\ svc' = [svc EXCEPT ![stop[t].target] = AfterStop(ok)]
  /\ stop' = [stop EXCEPT ![t].pc = "loop"]
  /\ UNCHANGED <<deps, phase, started, starting, starts, busFaults>>

\* wait_for(stop(), 10): returned, raised or timed out
StopReturns(t, ok) ==
  /\ stop[t].pc = "awaiting"
  /\ svc' = [svc EXCEPT ![stop[t].target] = AfterStop(ok)]
  /\ stop' = [stop EXCEPT ![t] = [@ EXCEPT !.pc = "loop", !.i = stop[t].i - 1]]
  /\ UNCHANGED <<deps, phase, started, starting, starts, busFaults>>

StopEnd(t) ==
  /\ stop[t].pc = "loop"
  /\ ~ More(stop[t].i)
  /\ started' = <<>>
  /\ phase' = "stopped"
  /\ stop' = [stop EXCEPT ![t] = NoStop]
  /\ UNCHANGED <<deps, starting, svc, starts, busFaults>>

-----------------------------------------------------------------------------
StopRuns(t) ==
  StopEmitted(t) \/ StopNext(t) \/ StopEnd(t) \/ \E ok \in BOOLEAN : StopReturns(t, ok)

StartRuns ==
  \/ CallStart \/ Started \/ NonCriticalFails \/ CriticalFails \/ StartEnd
  \/ RollbackNext \/ RollbackEnd
  \/ \E ok \in BOOLEAN : RollbackReturns(ok)

KernelNext ==
  \/ StartRefused \/ StartBegin \/ StartRuns
  \/ \E t \in Stopper : StopBegin(t) \/ StopEmitFails(t) \/ StopRuns(t)

KernelSpec == KernelInit /\ [][KernelNext]_kernelVars

\* The event loop runs a ready coroutine, and wait_for ends every await of stop().
KernelFairSpec == KernelSpec /\ \A t \in Stopper : WF_kernelVars(StopRuns(t))

-----------------------------------------------------------------------------
(* Properties *)

(* Type correctness: phase is one of KernelState, _started a list of services. *)
KernelTypeOK ==
  /\ deps \in [Service -> Seq(Service \cup Unregistered)]
  /\ phase \in KernelPhase
  /\ started \in Seq(Service)
  /\ starting \in StartCall
  /\ stop \in [Stopper -> StopCall]
  /\ svc \in [Service -> SvcState]
  /\ starts \in Nat /\ busFaults \in Nat

\* A rank that grows along the dependencies exists: no cycle, no unknown name.
Startable(g) ==
  \E rank \in [Service -> 1 .. Cardinality(Service)] :
    \A s \in Service : \A d \in ToSet(g[s]) : d \in Service /\ rank[d] < rank[s]

\* order lists every service once, after the services it depends on.
DependenciesBefore(g, order) ==
  /\ order \in Seq(Service)
  /\ \A i, j \in 1 .. Len(order) : order[i] = order[j] => i = j
  /\ \A s \in Service : \E i \in 1 .. Len(order) : order[i] = s
  /\ \A j \in 1 .. Len(order) : \A d \in ToSet(g[order[j]]) :
       \E i \in 1 .. Len(order) : i < j /\ order[i] = d

(* What _topo_sort returns for each of the graphs.  Its recursion over data *)
(* is out of reach of a proof: TLC evaluates it for the graphs of an        *)
(* instance, and the theorems about start() have it as their hypothesis.    *)
SortIsRight ==
  \A g \in Graphs :
    /\ TopoSort(g).ok <=> Startable(g)
    /\ TopoSort(g).ok => DependenciesBefore(g, TopoSort(g).order)

(* FR-2: a start is refused exactly when the dependencies have a cycle or   *)
(* name an unregistered service, and then no service was ever started       *)
(* (_topo_sort runs before the first await of start).                       *)
StartsIffAcyclic ==
  /\ (\E s \in Service : svc[s] # "down") => Startable(deps)
  /\ phase = "starting" /\ starting.pc = "idle" => ~ Startable(deps)

(* FR-1: a service is started after every service it depends on, directly   *)
(* or not; those that are critical are up at that moment, also in a start   *)
(* that follows a rolled back or a stopped one.                             *)
DependenciesFirst ==
  \A s \in Service : svc[s] = "starting" =>
    \A d \in ToSet(deps[s]) :
      /\ d \in ToSet(SubSeq(starting.order, 1, starting.pos - 1))
      /\ d \in Critical => svc[d] = "up"

(* FR-1: whether the kernel stops or rolls back, a service is stopped only  *)
(* when nothing that depends on it is at work any more.                     *)
DependentsStopFirst ==
  \A s, t \in Service :
    svc[s] = "stopping" /\ s \in ToSet(deps[t]) => svc[t] \in {"down", "stuck"}

(* FR-3: a kernel that calls itself running has all its services up, a      *)
(* degraded one all the critical ones.                                      *)
PhaseIsEarned ==
  /\ phase = "running"  => \A s \in Service  : svc[s] = "up"
  /\ phase = "degraded" => \A s \in Critical : svc[s] = "up"

(* FR-3, FR-8: a stopped kernel, and one whose start was aborted, has no    *)
(* service left at work that was not at least asked to stop.                *)
NothingLeftRunning ==
  phase \in {"created", "stopped"} => \A s \in Service : svc[s] \in {"down", "stuck"}

(* FR-1: services come up after and go down before what they depend on, in  *)
(* starts, rollbacks and stops that overlap and follow one another.         *)
OrderIsKept == DependenciesFirst /\ DependentsStopFirst

(* FR-2, FR-3, FR-8: the phase tells the truth about the services, whatever *)
(* failed, was rolled back or was stopped twice.                            *)
PhaseTellsTheTruth == KernelTypeOK /\ StartsIffAcyclic /\ PhaseIsEarned /\ NothingLeftRunning

(* FR-8: every stop() ends, whatever the services do with theirs.           *)
StopEnds == \A t \in Stopper : stop[t].pc # "idle" ~> stop[t].pc = "idle"
=============================================================================
