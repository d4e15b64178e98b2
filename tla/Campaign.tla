------------------------------- MODULE Campaign -------------------------------
(***************************************************************************)
(* ResponseOrchestrationEngine (response/campaign.py) with its stores, on  *)
(* top of the workflow engine as RunLifecycle promises it.  One campaign   *)
(* groups workflow runs into ordered phases; callers plan it, advance it,  *)
(* halt it and verify the recovery, each on a copy of the campaign record  *)
(* that may be stale when it is written back.  The runs belong to the      *)
(* workflow engine: other users approve, simulate and halt them meanwhile. *)
(***************************************************************************)
EXTENDS WorkflowRules, FiniteSets, SequencesExt

CONSTANTS
  Client,      \* coroutines that use the response engine
  Phases,      \* the run ids of each phase, in phase order
  FollowUp,    \* id of the run proposed by an unverified recovery
  MaxOps       \* bound: operations started on either engine, and faults

VARIABLES
  runs, finding, \* of RunLifecycle: the run store and the findings the runs came from
  known,         \* runs whose playbook the workflow engine remembers
  campaign,      \* the stored campaign record; version 0: none yet
  requests,      \* _approval_routes: the latest approval request of each run
  reopened,      \* whether the recovery_unverified finding was raised
  call,          \* the coroutine of each client
  ops,           \* counter of the bound MaxOps
  quietHalt      \* history: the campaign was halted with no other call in progress,
                 \* and nobody has approved or simulated one of its runs since

Life == INSTANCE RunLifecycle

lifeVars == <<runs, finding>>
campaignVars == <<runs, finding, known, campaign, requests, reopened, call, ops, quietHalt>>

Refs  == FlattenSeq(Phases)
Phase == DOMAIN Phases
RefsOf(p) == Phases[p]

ASSUME CampaignAssumption ==
  /\ StepCount = 1                       \* every run is one step of its playbook
  /\ Phases \in Seq(Seq(RunId) \ {<<>>}) /\ Phases # <<>>
  /\ IsInjective(Refs) /\ FollowUp \in RunId \ ToSet(Refs)
  /\ \E f \in Findings : f.eligibility = "assisted"  \* that of an unverified recovery
  /\ MaxOps \in Nat

\* What follows from it about Refs, and that no run is in two phases
ASSUME RefsAssumption ==
  /\ Refs \in Seq(RunId)
  /\ ToSet(Refs) = UNION {ToSet(RefsOf(p)) : p \in Phase}
  /\ \A p, q \in Phase : p # q => ToSet(RefsOf(p)) \cap ToSet(RefsOf(q)) = {}

Terminal         == {"completed", "failed", "halted"}
PhaseStatuses    == {"pending", "running", "completed", "failed", "blocked"}
CampaignStatuses == {"planned", "awaiting_approval", "running", "completed", "failed", "halted"}

NoCampaign == [status |-> "planned", mirror |-> [r \in RunId |-> "proposed"],
               phase |-> [p \in Phase |-> "pending"], trail |-> {}, version |-> 0]
Idle == [pc |-> "idle", op |-> "none", copy |-> NoCampaign, todo |-> <<>>,
         phase |-> 1, rv |-> 0, auto |-> FALSE]

-----------------------------------------------------------------------------
(* Status of phases and campaign, derived from the mirrored run statuses.  *)

\* Mutant of PhaseStatus: a phase is over when all of its runs are, however they ended.
PhaseStatus_TerminalIsDone(p, mirror) ==
  LET statuses == {mirror[r] : r \in ToSet(RefsOf(p))}
  IN  IF statuses \subseteq Terminal THEN "completed"
      ELSE IF "running" \in statuses THEN "running"
      ELSE IF "awaiting_approval" \in statuses THEN "blocked"
      ELSE "pending"

\* Mutant of PhaseStatus: a halted run does not fail its phase.
PhaseStatus_HaltedGoesOn(p, mirror) ==
  LET statuses == {mirror[r] : r \in ToSet(RefsOf(p))}
  IN  IF "failed" \in statuses THEN "failed"
      ELSE IF statuses \subseteq {"completed"} THEN "completed"
      ELSE IF "running" \in statuses THEN "running"
      ELSE IF "awaiting_approval" \in statuses THEN "blocked"
      ELSE "pending"

PhaseStatus(p, mirror) ==
  LET statuses == {mirror[r] : r \in ToSet(RefsOf(p))}
  IN  IF statuses \cap {"failed", "halted"} # {} THEN "failed"
      ELSE IF statuses \subseteq {"completed"} THEN "completed"
      ELSE IF "running" \in statuses THEN "running"
      ELSE IF "awaiting_approval" \in statuses THEN "blocked"
      ELSE "pending"

\* Mutant of CampaignStatus: one completed phase completes the campaign.
CampaignStatus_AnyCompleted(phase) ==
  LET statuses == {phase[p] : p \in Phase}
  IN  IF "completed" \in statuses THEN "completed" ELSE "planned"

CampaignStatus(phase) ==
  LET statuses == {phase[p] : p \in Phase}
  IN  IF "failed" \in statuses THEN "failed"
      ELSE IF statuses \subseteq {"completed"} THEN "completed"
      ELSE IF "running" \in statuses THEN "running"
      ELSE IF "blocked" \in statuses THEN "awaiting_approval"
      ELSE IF "completed" \in statuses THEN "running"
      ELSE "planned"

\* depends_on of _build_phases is the phase before; only a pending phase is blocked by it
DependencyBlocks(phase) ==
  [p \in Phase |-> IF /\ phase[p] = "pending" /\ p > 1
                      /\ phase[p - 1] \in {"failed", "blocked"}
                   THEN "blocked" ELSE phase[p]]

WithPhases(c, phase) == [c EXCEPT !.phase = phase, !.status = CampaignStatus(phase)]

\* derive_campaign_status followed by _apply_dependency_blocks
Derived(c) ==
  WithPhases(c, DependencyBlocks([p \in Phase |-> PhaseStatus(p, c.mirror)]))

Ready(c, p) ==
  /\ c.phase[p] \notin {"completed", "failed", "blocked"}
  /\ p > 1 => c.phase[p - 1] = "completed"

\* _next_phase: the first one that is ready
NextPhases(c) == {p \in Phase : Ready(c, p) /\ \A q \in Phase : q < p => ~ Ready(c, q)}

-----------------------------------------------------------------------------
CampaignInit ==
  /\ Life!Init
  /\ known = {}
  /\ campaign = NoCampaign
  /\ requests = [r \in RunId |-> "none"]
  /\ reopened = FALSE
  /\ call = [c \in Client |-> Idle]
  /\ ops = 0
  /\ quietHalt = FALSE

Goto(c, pc)    == call' = [call EXCEPT ![c].pc = pc]
Ends(c)        == call' = [call EXCEPT ![c] = Idle]
At(c, pc)      == call[c].pc = pc
Next1(c)       == Head(call[c].todo)
KeepRuns       == UNCHANGED <<runs, finding, known>>
KeepRecord     == UNCHANGED <<campaign, requests, reopened>>

Starts(c, op, state) ==
  /\ At(c, "idle") /\ ops < MaxOps
  /\ ops' = ops + 1
  /\ call' = [call EXCEPT ![c] = [state EXCEPT !.op = op]]
  /\ KeepRuns /\ KeepRecord /\ UNCHANGED quietHalt

-----------------------------------------------------------------------------
(* plan_campaign, by a user or by evaluate_triggers (auto: the trigger's   *)
(* finding and the policy decision allow it to start by itself).           *)

PlanBegin(c, op, auto) ==
  /\ campaign.version = 0 /\ \A d \in Client : call[d].op \notin {"plan", "trigger"}
  /\ known = {}
  /\ Starts(c, op, [Idle EXCEPT !.pc = "propose", !.todo = Refs, !.auto = auto])

\* One playbook after the other is proposed; source_finding is the same for all of them.
PlanProposes(c, f) ==
  /\ At(c, "propose") /\ call[c].todo # <<>>
  /\ \A r \in known : finding[r] = f
  /\ call[c].auto => f = NoFinding
  /\ Life!Propose(Next1(c), f)
  /\ known' = known \cup {Next1(c)}
  /\ call' = [call EXCEPT ![c].todo = Tail(@)]
  /\ KeepRecord /\ UNCHANGED <<ops, quietHalt>>

PlanStores(c) ==
  /\ At(c, "propose") /\ call[c].todo = <<>>
  /\ LET planned == Derived(NoCampaign)
         created == [planned EXCEPT !.version = 1]
     IN  /\ campaign' = created
         /\ call' = [call EXCEPT ![c] = [@ EXCEPT !.copy = created, !.pc = "planned"]]
  /\ KeepRuns /\ UNCHANGED <<ops, requests, reopened, quietHalt>>

-----------------------------------------------------------------------------
(* CampaignStore.upsert of a copy, the evidence of the operation added to  *)
(* it before; the version of the copy has to be the stored one.            *)

\* Mutant of Fresh: the version is not compared.
Fresh_Always(copy) == copy.version > 0
Fresh(copy) == copy.version = campaign.version

Upsert(copy, kind) ==
  campaign' = [copy EXCEPT !.trail = @ \cup {kind}, !.version = campaign.version + 1]

StoreConflicts(c) ==
  /\ call[c].pc \in {"planned", "fired", "start", "routed", "store"}
  /\ ~ Fresh(call[c].copy)
  /\ Ends(c)
  /\ KeepRuns /\ KeepRecord /\ UNCHANGED <<ops, quietHalt>>

\* The second upsert of plan_campaign; a trigger then records that it fired.
PlanEvidenced(c) ==
  /\ At(c, "planned") /\ Fresh(call[c].copy)
  /\ Upsert(call[c].copy, "campaign_planned")
  /\ call' = [call EXCEPT ![c] = IF call[c].op = "plan" THEN Idle
                                 ELSE [@ EXCEPT !.pc = "fired", !.copy = campaign']]
  /\ KeepRuns /\ UNCHANGED <<ops, requests, reopened, quietHalt>>

\* can_auto_start decides between advance and approval routing.
TriggerFired(c) ==
  /\ At(c, "fired") /\ Fresh(call[c].copy)
  /\ Upsert(call[c].copy, "trigger_fired")
  /\ call' = [call EXCEPT ![c] = [@ EXCEPT !.copy = campaign',
                                           !.pc = IF call[c].auto THEN "start" ELSE "route"]]
  /\ KeepRuns /\ UNCHANGED <<ops, requests, reopened, quietHalt>>

\* evaluate_triggers calls advance with the version it holds.
TriggerAdvances(c) ==
  /\ At(c, "start") /\ Fresh(call[c].copy)
  /\ call' = [call EXCEPT ![c] = [@ EXCEPT !.pc = "derive", !.todo = Refs]]
  /\ KeepRuns /\ KeepRecord /\ UNCHANGED <<ops, quietHalt>>

\* _route_campaign_for_approval: one open request per run, nobody to escalate to
Route(c) ==
  /\ At(c, "route")
  /\ requests' = [r \in RunId |-> IF r \in ToSet(Refs) THEN "open" ELSE requests[r]]
  /\ Goto(c, "routed")
  /\ KeepRuns /\ UNCHANGED <<ops, campaign, reopened, quietHalt>>

Routed(c) ==
  /\ At(c, "routed") /\ Fresh(call[c].copy)
  /\ Upsert(call[c].copy, "approval_routed")
  /\ Ends(c)
  /\ KeepRuns /\ UNCHANGED <<ops, requests, reopened, quietHalt>>

-----------------------------------------------------------------------------
(* advance, halt_campaign and verify_recovery: read, then refresh.         *)

\* expected_version is that of the record read: a caller with another one is refused at once
Begin(c, op) ==
  /\ campaign.version > 0
  /\ Starts(c, op, [Idle EXCEPT !.pc = "derive", !.copy = campaign, !.todo = Refs])

Mirrored(copy, r, status) == [copy EXCEPT !.mirror = [@ EXCEPT ![r] = status]]

\* One run_store.get of derive_campaign_status.
Refresh(c) ==
  /\ At(c, "derive") /\ call[c].todo # <<>>
  /\ LET k == call[c]
         r == Next1(c)
     IN  call' = [call EXCEPT ![c] = [k EXCEPT !.copy = Mirrored(k.copy, r, runs[r].status),
                                               !.todo = Tail(k.todo)]]
  /\ KeepRuns /\ KeepRecord /\ UNCHANGED <<ops, quietHalt>>

AdvanceSelects(c) ==
  /\ At(c, "derive") /\ call[c].todo = <<>> /\ call[c].op \in {"advance", "trigger"}
  /\ LET current == Derived(call[c].copy)
     IN  IF NextPhases(current) = {} THEN Ends(c)
         ELSE \E p \in NextPhases(current) :
                call' = [call EXCEPT ![c] = [@ EXCEPT !.copy = current, !.phase = p,
                                                      !.pc = "execute", !.todo = RefsOf(p)]]
  /\ KeepRuns /\ KeepRecord /\ UNCHANGED <<ops, quietHalt>>

\* The run status that execute returned goes into the copy; on to the next reference.
Returned(k, status) ==
  [k EXCEPT !.copy = Mirrored(k.copy, Head(k.todo), status), !.todo = Tail(k.todo), !.pc = "execute"]

Returns(c, status) == call' = [call EXCEPT ![c] = Returned(call[c], status)]

\* workflow.execute raises before it calls a handler
Refuses(r) ==
  \/ r \notin known
  \/ /\ ~ AllSucceeded(runs[r].results)
     /\ ~ MayExecute(1, finding[r], runs[r].approvals, "allow")

ExecuteBegins(c) ==
  /\ At(c, "execute") /\ call[c].todo # <<>>
  /\ LET r == Next1(c) IN
       /\ ~ Refuses(r)
       /\ IF runs[r].status = "completed" /\ AllSucceeded(runs[r].results)
          THEN Returns(c, "completed")
          ELSE call' = [call EXCEPT ![c] = [@ EXCEPT !.rv = runs[r].version,
                          !.pc = IF AllSucceeded(runs[r].results) THEN "complete" ELSE "act"]]
  /\ KeepRuns /\ KeepRecord /\ UNCHANGED <<ops, quietHalt>>

\* The phase is stored as blocked and PhaseBlocked raised.
ExecuteRefused(c) ==
  /\ At(c, "execute") /\ call[c].todo # <<>>
  /\ Refuses(Next1(c))
  /\ LET copy == call[c].copy
     IN  call' = [call EXCEPT ![c] = [@ EXCEPT !.pc = "store", !.op = "blocked",
                    !.copy = WithPhases(copy, [copy.phase EXCEPT ![call[c].phase] = "blocked"])]]
  /\ KeepRuns /\ KeepRecord /\ UNCHANGED <<ops, quietHalt>>

Result(status) == [step |-> 1, status |-> status, ref |-> FALSE, evidence |-> 0]

\* workflow.execute stores the result under the version it read, or raises.
StepEnds(c, status) ==
  /\ At(c, "act")
  /\ LET r == Next1(c) IN
       IF runs[r].version # call[c].rv
       THEN Ends(c) /\ UNCHANGED lifeVars
       ELSE \/ /\ status = "succeeded"
               /\ Life!StepSucceeds(r, Result(status))
               /\ call' = [call EXCEPT ![c] = [@ EXCEPT !.rv = call[c].rv + 1, !.pc = "complete"]]
            \/ /\ status = "failed"
               /\ Life!StepFails(r, Result(status))
               /\ Returns(c, "failed")
  /\ UNCHANGED <<known, ops, quietHalt>> /\ KeepRecord

ExecuteEnds(c) ==
  /\ At(c, "complete")
  /\ LET r == Next1(c) IN
       IF runs[r].version # call[c].rv
       THEN Ends(c) /\ UNCHANGED lifeVars
       ELSE Life!Complete(r) /\ Returns(c, "completed")
  /\ UNCHANGED <<known, ops, quietHalt>> /\ KeepRecord

\* All references were executed: the phase and what depends on it are recomputed.
PhaseDone(c) ==
  /\ At(c, "execute") /\ call[c].todo = <<>>
  /\ LET copy  == call[c].copy
         p     == call[c].phase
         phase == DependencyBlocks([copy.phase EXCEPT ![p] = PhaseStatus(p, copy.mirror)])
     IN  call' = [call EXCEPT ![c] = [@ EXCEPT !.pc = "store", !.copy = WithPhases(copy, phase)]]
  /\ KeepRuns /\ KeepRecord /\ UNCHANGED <<ops, quietHalt>>

-----------------------------------------------------------------------------
(* halt_campaign: every run that is not terminal in the refreshed copy     *)

HaltSelects(c) ==
  /\ At(c, "derive") /\ call[c].todo = <<>> /\ call[c].op = "halt"
  /\ call' = [call EXCEPT ![c] = [@ EXCEPT !.copy = Derived(call[c].copy), !.pc = "halt", !.rv = 0,
                 !.todo = SelectSeq(Refs, LAMBDA r :
                            call[c].copy.mirror[r] \notin Terminal)]]
  /\ KeepRuns /\ KeepRecord /\ UNCHANGED <<ops, quietHalt>>

\* workflow.halt reads the run and writes it back under the version it read.
HaltReads(c) ==
  /\ At(c, "halt") /\ call[c].todo # <<>> /\ call[c].rv = 0
  /\ call' = [call EXCEPT ![c].rv = runs[Next1(c)].version]
  /\ KeepRuns /\ KeepRecord /\ UNCHANGED <<ops, quietHalt>>

HaltWrites(c) ==
  /\ At(c, "halt") /\ call[c].todo # <<>> /\ call[c].rv # 0
  /\ IF runs[Next1(c)].version # call[c].rv
     THEN Ends(c) /\ UNCHANGED lifeVars
     ELSE /\ Life!Halt(Next1(c))
          /\ call' = [call EXCEPT ![c] =
                        [@ EXCEPT !.copy = Mirrored(call[c].copy, Next1(c), "halted"),
                                  !.todo = Tail(call[c].todo), !.rv = 0]]
  /\ UNCHANGED <<known, ops, quietHalt>> /\ KeepRecord

HaltDone(c) ==
  /\ At(c, "halt") /\ call[c].todo = <<>>
  /\ LET copy == call[c].copy
         phase == [p \in Phase |-> PhaseStatus(p, copy.mirror)]
     IN  call' = [call EXCEPT ![c] = [@ EXCEPT !.pc = "store",
                    !.copy = [copy EXCEPT !.phase = phase, !.status = "halted"]]]
  /\ KeepRuns /\ KeepRecord /\ UNCHANGED <<ops, quietHalt>>

-----------------------------------------------------------------------------
(* verify_recovery: checks that do not verify raise a finding and propose  *)
(* a follow-up run; the refreshed campaign is stored in any case.          *)

VerifyAssesses(c, verified) ==
  /\ At(c, "derive") /\ call[c].todo = <<>> /\ call[c].op = "verify"
  /\ call' = [call EXCEPT ![c] = [@ EXCEPT !.copy = Derived(call[c].copy),
                                           !.pc = IF verified THEN "store" ELSE "reopen"]]
  /\ KeepRuns /\ KeepRecord /\ UNCHANGED <<ops, quietHalt>>

\* raise_finding deduplicates; each unverified check proposes another run, of which one is kept
VerifyReopens(c) ==
  /\ At(c, "reopen")
  /\ reopened' = TRUE
  /\ IF Life!Exists(FollowUp) THEN UNCHANGED <<runs, finding, known>>
     ELSE /\ Life!Propose(FollowUp, CHOOSE f \in Finding : f.eligibility = "assisted")
          /\ known' = known \cup {FollowUp}
  /\ Goto(c, "store")
  /\ UNCHANGED <<campaign, requests, ops, quietHalt>>

Kind(op) == CASE op \in {"advance", "trigger"} -> "phase_advanced"
              [] op = "blocked" -> "phase_blocked"
              [] op = "verify"  -> "recovery_verification"
              [] op = "halt"    -> "halted"

\* The last upsert of advance, halt_campaign and verify_recovery; halt records no evidence.
Stores(c) ==
  /\ At(c, "store") /\ Fresh(call[c].copy)
  /\ IF call[c].op = "halt"
     THEN campaign' = [call[c].copy EXCEPT !.version = campaign.version + 1]
     ELSE Upsert(call[c].copy, Kind(call[c].op))
  /\ quietHalt' = \/ quietHalt
                  \/ /\ call[c].op = "halt" /\ \A d \in Client \ {c} : At(d, "idle")
                     /\ \A r \in ToSet(Refs) : runs[r].status \in Terminal
  /\ call' = [call EXCEPT ![c] =
        IF call[c].op = "blocked" /\ call[c].auto
        THEN [@ EXCEPT !.pc = "route"]  \* evaluate_triggers goes on with its older copy
        ELSE Idle]
  /\ KeepRuns /\ UNCHANGED <<ops, requests, reopened>>

-----------------------------------------------------------------------------
(* Other users of the workflow engine, time, faults.                       *)

Touch(r) == /\ r \in known \cap ToSet(Refs) /\ ops < MaxOps
            /\ ops' = ops + 1
            /\ UNCHANGED <<known, call>> /\ KeepRecord

Approves(r)  == Touch(r) /\ Life!Approve(r, [steps |-> {1}, token |-> TRUE]) /\ quietHalt' = FALSE
Simulates(r) == Touch(r) /\ Life!Simulate(r) /\ quietHalt' = FALSE
HaltsRun(r)  == Touch(r) /\ Life!Halt(r) /\ UNCHANGED quietHalt

\* escalate_overdue: the open requests whose SLA ran out, with nobody to escalate to
EscalateOverdue ==
  /\ \E r \in RunId : requests[r] = "open"
  /\ requests' = [r \in RunId |-> IF requests[r] = "open" THEN "expired" ELSE requests[r]]
  /\ KeepRuns /\ UNCHANGED <<ops, campaign, reopened, call, quietHalt>>

\* The evidence or campaign store raises at the end of an operation: the call ends.
Interrupt(c) ==
  /\ call[c].pc \in {"planned", "fired", "routed", "store"} /\ ops < MaxOps
  /\ ops' = ops + 1
  /\ Ends(c)
  /\ KeepRuns /\ KeepRecord /\ UNCHANGED quietHalt

\* The process restarts over persistent stores: playbooks and requests were in memory only.
Restart ==
  /\ ops < MaxOps
  /\ ops' = ops + 1
  /\ known' = {}
  /\ requests' = [r \in RunId |-> "none"]
  /\ call' = [c \in Client |-> Idle]
  /\ UNCHANGED <<runs, finding, campaign, reopened, quietHalt>>

CampaignNext ==
  \/ \E c \in Client :
       \/ PlanBegin(c, "plan", FALSE)
       \/ \E auto \in BOOLEAN : PlanBegin(c, "trigger", auto)
       \/ \E f \in Finding : PlanProposes(c, f)
       \/ PlanStores(c) \/ PlanEvidenced(c) \/ TriggerFired(c) \/ TriggerAdvances(c)
       \/ Route(c) \/ Routed(c)
       \/ \E op \in {"advance", "halt", "verify"} : Begin(c, op)
       \/ Refresh(c)
       \/ AdvanceSelects(c) \/ ExecuteBegins(c) \/ ExecuteRefused(c)
       \/ \E status \in {"succeeded", "failed"} : StepEnds(c, status)
       \/ ExecuteEnds(c) \/ PhaseDone(c)
       \/ HaltSelects(c) \/ HaltReads(c) \/ HaltWrites(c) \/ HaltDone(c)
       \/ \E verified \in BOOLEAN : VerifyAssesses(c, verified)
       \/ VerifyReopens(c)
       \/ Stores(c) \/ StoreConflicts(c)
       \/ Interrupt(c)
  \/ \E r \in RunId : Approves(r) \/ Simulates(r) \/ HaltsRun(r)
  \/ EscalateOverdue
  \/ Restart

CampaignSpec == CampaignInit /\ [][CampaignNext]_campaignVars

-----------------------------------------------------------------------------
(* A phase acts only after the phases before it succeeded, whatever stale  *)
(* copies the calls work on and whoever halts or re-plans in between       *)
(* (EA-0018 FR-9, _next_phase).                                            *)
PhasesInOrder ==
  \A p, q \in Phase : \A r \in ToSet(RefsOf(p)), s \in ToSet(RefsOf(q)) :
    p < q /\ Len(runs[s].results) > 0 => AllSucceeded(runs[r].results)

(* The mirror never flatters the runs: a campaign stored as completed, by  *)
(* advance or by verify_recovery, has had every run succeed, and so has    *)
(* every phase stored as completed (FR-8).                                 *)
MirrorIsHonest ==
  /\ \A p \in Phase : campaign.phase[p] = "completed" =>
       \A r \in ToSet(RefsOf(p)) : AllSucceeded(runs[r].results)
  /\ campaign.status = "completed" =>
       \A p \in Phase : \A r \in ToSet(RefsOf(p)) : AllSucceeded(runs[r].results)

(* Routing the approvals of a campaign that a trigger planned ends with    *)
(* the campaign citing them (FR-12): the copy it stores is never outdated  *)
(* by the very call it belongs to.                                         *)
RoutingIsRecorded == \A c \in Client : At(c, "routed") => Fresh(call[c].copy)

(* No interleaving of calls loses a link from the campaign to its evidence *)
(* (FR-12: a campaign reconstructs from its trail).                        *)
TrailIsKept == [][campaign.trail \subseteq campaign'.trail]_campaignVars

(* A campaign halted while no other call was in progress stays halted: no  *)
(* later advance makes one of its runs act, although the workflow engine   *)
(* itself would execute a halted run (FR-10).  Who approves or simulates a *)
(* halted run gives it another status, and the next advance executes it.   *)
HaltHolds ==
  [][quietHalt => \A r \in ToSet(Refs) : Len(runs'[r].results) = Len(runs[r].results)]_campaignVars
=============================================================================
