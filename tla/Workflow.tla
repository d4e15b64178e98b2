------------------------------- MODULE Workflow -------------------------------
(***************************************************************************)
(* WorkflowEngine over a RunStore (workflow/engine.py, gating.py,          *)
(* memory.py, postgres.py).  Every call is an asyncio coroutine: it reads  *)
(* a copy of the run, awaits handlers, the authorizer and the evidence     *)
(* store, and writes back with the version it read.  An action is what one *)
(* coroutine does between two awaits at which others may run.              *)
(*                                                                         *)
(* Tenants, event payloads and timestamps are left out: one tenant, and    *)
(* "newer than the latest result" is "granted at the present version".     *)
(***************************************************************************)
EXTENDS WorkflowRules, FiniteSets

CONSTANTS
  Client,      \* callers, each with at most one call in progress
  MaxCalls,    \* bound: calls begun in a behaviour
  MaxFaults    \* bound: calls interrupted and process restarts

ASSUME BoundsAssumption == RunId # {} /\ MaxCalls \in Nat /\ MaxFaults \in Nat

VARIABLES
  runs,       \* RunStore: the stored record of every id
  finding,    \* _source_findings: the policy snapshot a run was proposed with
  playbooks,  \* _playbooks: runs whose gated playbook this process remembers
  evidence,   \* EvidenceStore: the records of workflow actions, oldest first
  call,       \* the coroutine each caller is awaiting
  applied,    \* external effect: times the action of a run's step took effect
  undone,     \* external effect: times it was rolled back
  begun,      \* calls begun
  faults      \* interrupted calls and restarts

store == <<runs, finding, playbooks>>
world == <<applied, undone>>
vars  == <<runs, finding, playbooks, evidence, call, applied, undone, begun, faults>>

PC == {"idle", "simulate", "approve", "execute", "calling", "executed", "record",
       "halt", "rollback", "undo", "undo_called"}

\* run: the copy the coroutine works on; i: its loop position; res: the result
\* it is building; grant: the approval passed in; report: rollback_results
Call == [pc : PC, id : RunId, run : Run, i : Nat, res : StepResult,
         grant : Approval, report : Seq(StepResult)]

NoResult == [step |-> 1, status |-> "failed", ref |-> FALSE, evidence |-> 0]
NoGrant  == [steps |-> Step, token |-> TRUE]
NoCall   == [pc |-> "idle", id |-> CHOOSE r \in RunId : TRUE, run |-> NoRun, i |-> 0,
             res |-> NoResult, grant |-> NoGrant, report |-> <<>>]

\* "simulated" is the status of the evidence a dry run writes
EvidenceRecord == [id : RunId, step : Step, status : StepStatus \cup {"simulated"}]

Init ==
  /\ runs = [r \in RunId |-> NoRun]
  /\ finding = [r \in RunId |-> NoFinding]
  /\ playbooks = {}
  /\ evidence = <<>>
  /\ call = [c \in Client |-> NoCall]
  /\ applied = [r \in RunId |-> [s \in Step |-> 0]]
  /\ undone = [r \in RunId |-> [s \in Step |-> 0]]
  /\ begun = 0
  /\ faults = 0

-----------------------------------------------------------------------------
(* Calls, the store and the evidence *)

Exists(r) == runs[r].version > 0

\* A caller starts an operation on run r: the coroutine reads its copy.
Begin(c, r, pc, i, grant) ==
  /\ call[c].pc = "idle"
  /\ begun < MaxCalls
  /\ Exists(r)
  /\ begun' = begun + 1
  /\ call' = [call EXCEPT ![c] = [NoCall EXCEPT !.pc = pc, !.id = r, !.run = runs[r],
                                                !.i = i, !.grant = grant]]

Ended(c) == [call EXCEPT ![c] = NoCall]

\* Mutant of Save: the version is not compared.
Save_NoVersionCheck(c, run) ==
  /\ runs' = [runs EXCEPT ![call[c].id] = NextVersion(run)]
  /\ UNCHANGED <<finding, playbooks>>

\* store.update succeeds when the version is the one this coroutine read.
Save(c, run) ==
  /\ runs[call[c].id].version = call[c].run.version
  /\ runs' = [runs EXCEPT ![call[c].id] = NextVersion(run)]
  /\ UNCHANGED <<finding, playbooks>>

\* add(): the record takes the next position of the store
Write(c, step, status) ==
  evidence' = Append(evidence, [id |-> call[c].id, step |-> step, status |-> status])

Due(c) == \/ call[c].pc \in {"approve", "halt", "record"}
          \/ call[c].pc = "simulate" /\ call[c].i > StepCount
          \/ call[c].pc = "execute" /\ AllSucceeded(call[c].run.results)
          \/ call[c].pc = "rollback"
          \/ call[c].pc = "undo" /\ call[c].i = 0

\* Mutant of Conflict: a result that cannot be stored waits for the version.
Conflict_NotForResults(c) ==
  /\ Due(c)
  /\ call[c].pc # "record"
  /\ runs[call[c].id].version # call[c].run.version
  /\ call' = Ended(c)
  /\ UNCHANGED <<store, evidence, world, begun, faults>>

\* OptimisticConcurrencyConflict: the call ends and nothing is stored.
Conflict(c) ==
  /\ Due(c)
  /\ runs[call[c].id].version # call[c].run.version
  /\ call' = Ended(c)
  /\ UNCHANGED <<store, evidence, world, begun, faults>>

Propose(r, f) ==
  /\ ~ Exists(r)
  /\ runs' = [runs EXCEPT ![r] = NewRun]
  /\ finding' = [finding EXCEPT ![r] = f]
  /\ playbooks' = playbooks \cup {r}
  /\ UNCHANGED <<evidence, call, world, begun, faults>>

-----------------------------------------------------------------------------
(* simulate, approve, halt *)

SimulateBegin(c, r) ==
  /\ r \in playbooks
  /\ Begin(c, r, "simulate", 1, NoGrant)
  /\ UNCHANGED <<store, evidence, world, faults>>

\* handler.simulate has no effect; the planned action is recorded
SimulateStep(c) ==
  /\ call[c].pc = "simulate"
  /\ call[c].i <= StepCount
  /\ Write(c, call[c].i, "simulated")
  /\ call' = [call EXCEPT ![c].i = @ + 1]
  /\ UNCHANGED <<store, world, begun, faults>>

SimulateEnd(c) ==
  /\ call[c].pc = "simulate"
  /\ call[c].i > StepCount
  /\ Save(c, Simulated(call[c].run, finding[call[c].id]))
  /\ call' = Ended(c)
  /\ UNCHANGED <<evidence, world, begun, faults>>

ApproveBegin(c, r, a) ==
  /\ r \in playbooks
  /\ InScope(a)
  /\ Begin(c, r, "approve", 0, a)
  /\ UNCHANGED <<store, evidence, world, faults>>

ApproveEnd(c) ==
  /\ call[c].pc = "approve"
  /\ Save(c, WithApproval(call[c].run, finding[call[c].id], call[c].grant))
  /\ call' = Ended(c)
  /\ UNCHANGED <<evidence, world, begun, faults>>

\* halt does not need the playbook, and accepts a run of any status
HaltBegin(c, r) ==
  /\ Begin(c, r, "halt", 0, NoGrant)
  /\ UNCHANGED <<store, evidence, world, faults>>

HaltEnd(c) ==
  /\ call[c].pc = "halt"
  /\ Save(c, Halted(call[c].run))
  /\ call' = Ended(c)
  /\ UNCHANGED <<evidence, world, begun, faults>>

-----------------------------------------------------------------------------
(* execute *)

\* A completed run whose steps all succeeded is returned as it is.
ExecuteBegin(c, r) ==
  /\ r \in playbooks
  /\ ~ (runs[r].status = "completed" /\ AllSucceeded(runs[r].results))
  /\ Begin(c, r, "execute", 0, NoGrant)
  /\ UNCHANGED <<store, evidence, world, faults>>

\* The authorizer and the gates let the next step go: its handler is called.
CallHandler(c, s) ==
  /\ call[c].pc = "execute"
  /\ IsNext(s, call[c].run.results)
  /\ \E v \in Verdicts[s] :
        MayExecute(s, finding[call[c].id], call[c].run.approvals, v)
  /\ call' = [call EXCEPT ![c].pc = "calling", ![c].i = s]
  /\ UNCHANGED <<store, evidence, world, begun, faults>>

\* UnauthorizedAction, ApprovalRequired or ConfirmationRequired ends the call.
ExecuteRefused(c, s) ==
  /\ call[c].pc = "execute"
  /\ IsNext(s, call[c].run.results)
  /\ \E v \in Verdicts[s] :
        ~ MayExecute(s, finding[call[c].id], call[c].run.approvals, v)
  /\ call' = Ended(c)
  /\ UNCHANGED <<store, evidence, world, begun, faults>>

Returned(c, status, ref) ==
  call' = [call EXCEPT ![c].pc = "executed",
                       ![c].res = [NoResult EXCEPT !.step = call[c].i,
                                                   !.status = status, !.ref = ref]]

HandlerSucceeds(c, ref) ==
  /\ call[c].pc = "calling"
  /\ Returned(c, "succeeded", ref)
  /\ applied' = [applied EXCEPT ![call[c].id][call[c].i] = @ + 1]
  /\ UNCHANGED <<store, evidence, undone, begun, faults>>

\* An exception or the step timeout: the action may have taken effect or not.
HandlerFails(c, took) ==
  /\ call[c].pc = "calling"
  /\ Returned(c, "failed", FALSE)
  /\ applied' = [applied EXCEPT ![call[c].id][call[c].i] = IF took THEN @ + 1 ELSE @]
  /\ UNCHANGED <<store, evidence, undone, begun, faults>>

\* Mutant of RecordEvidence: only successes are written to the evidence store.
RecordEvidence_SuccessOnly(c) ==
  /\ call[c].pc = "executed"
  /\ IF call[c].res.status = "succeeded"
       THEN Write(c, call[c].res.step, call[c].res.status)
       ELSE UNCHANGED evidence
  /\ call' = [call EXCEPT ![c].pc = "record", ![c].res.evidence = Len(evidence) + 1]
  /\ UNCHANGED <<store, world, begun, faults>>

RecordEvidence(c) ==
  /\ call[c].pc = "executed"
  /\ Write(c, call[c].res.step, call[c].res.status)
  /\ call' = [call EXCEPT ![c].pc = "record", ![c].res.evidence = Len(evidence) + 1]
  /\ UNCHANGED <<store, world, begun, faults>>

\* The loop goes on with the copy that store.update returned.
RecordSuccess(c) ==
  LET run == WithSuccess(call[c].run, call[c].res) IN
  /\ call[c].pc = "record"
  /\ call[c].res.status = "succeeded"
  /\ Save(c, run)
  /\ call' = [call EXCEPT ![c] = [NoCall EXCEPT !.pc = "execute", !.id = call[c].id,
                                                !.run = NextVersion(run)]]
  /\ UNCHANGED <<evidence, world, begun, faults>>

\* _fail_step: the call returns the failed run
RecordFailure(c) ==
  /\ call[c].pc = "record"
  /\ call[c].res.status = "failed"
  /\ Save(c, WithFailure(call[c].run, call[c].res))
  /\ call' = Ended(c)
  /\ UNCHANGED <<evidence, world, begun, faults>>

\* Mutant of Complete: any success, not every one, completes the run.
Complete_AnySuccess(c) ==
  /\ call[c].pc = "execute"
  /\ Succeeded(call[c].run.results) # {}
  /\ Save(c, Completed(call[c].run))
  /\ call' = Ended(c)
  /\ UNCHANGED <<evidence, world, begun, faults>>

Complete(c) ==
  /\ call[c].pc = "execute"
  /\ AllSucceeded(call[c].run.results)
  /\ Save(c, Completed(call[c].run))
  /\ call' = Ended(c)
  /\ UNCHANGED <<evidence, world, begun, faults>>

-----------------------------------------------------------------------------
(* rollback *)

\* The approval names exactly the steps to undo, and postdates the latest result.
RollbackBegin(c, r, a) ==
  /\ r \in playbooks
  /\ InScope(a)
  /\ a.steps = RollbackSteps(runs[r].results)
  /\ Begin(c, r, "rollback", 0, a)
  /\ UNCHANGED <<store, evidence, world, faults>>

GatePasses(c, s, v) == MayExecute(s, finding[call[c].id], {call[c].grant}, v)

\* Every step passes the gates again under this approval, which is then stored.
RollbackGrant(c) ==
  LET run == RollbackGranted(call[c].run, call[c].grant) IN
  /\ call[c].pc = "rollback"
  /\ \A s \in call[c].grant.steps : \E v \in Verdicts[s] : GatePasses(c, s, v)
  /\ Save(c, run)
  /\ call' = [call EXCEPT ![c].pc = "undo", ![c].run = NextVersion(run),
                          ![c].i = Len(run.results)]
  /\ UNCHANGED <<evidence, world, begun, faults>>

RollbackRefused(c) ==
  /\ call[c].pc = "rollback"
  /\ \E s \in call[c].grant.steps : \E v \in Verdicts[s] : ~ GatePasses(c, s, v)
  /\ call' = Ended(c)
  /\ UNCHANGED <<store, evidence, world, begun, faults>>

\* Results are visited newest first; only recorded successes are looked at.
UndoNext(c) ==
  /\ call[c].pc = "undo"
  /\ call[c].i > 0
  /\ call[c].run.results[call[c].i].status # "succeeded"
  /\ call' = [call EXCEPT ![c].i = @ - 1]
  /\ UNCHANGED <<store, evidence, world, begun, faults>>

UndoReported(c, status) ==
  call' = [call EXCEPT
             ![c].pc = "undo_called",
             ![c].res = [NoResult EXCEPT !.step = call[c].run.results[call[c].i].step,
                                         !.status = status]]

\* Mutant of UndoCall: every success is rolled back, reversible or not.
UndoCall_AnySuccess(c) ==
  LET result == call[c].run.results[call[c].i] IN
  /\ call[c].pc = "undo"
  /\ call[c].i > 0
  /\ result.status = "succeeded"
  /\ \/ /\ UndoReported(c, "rolled_back")
        /\ undone' = [undone EXCEPT ![call[c].id][result.step] = @ + 1]
     \/ /\ UndoReported(c, "rollback_failed")
        /\ UNCHANGED undone
  /\ UNCHANGED <<store, evidence, applied, begun, faults>>

UndoCall(c) ==
  LET result == call[c].run.results[call[c].i] IN
  /\ call[c].pc = "undo"
  /\ call[c].i > 0
  /\ Undoable(result)
  /\ \/ /\ UndoReported(c, "rolled_back")
        /\ undone' = [undone EXCEPT ![call[c].id][result.step] = @ + 1]
     \/ /\ UndoReported(c, "rollback_failed")
        /\ UNCHANGED undone
  /\ UNCHANGED <<store, evidence, applied, begun, faults>>

UndoSkip(c) ==
  LET result == call[c].run.results[call[c].i] IN
  /\ call[c].pc = "undo"
  /\ call[c].i > 0
  /\ result.status = "succeeded"
  /\ ~ Undoable(result)
  /\ UndoReported(c, "rollback_skipped")
  /\ UNCHANGED <<store, evidence, world, begun, faults>>

UndoEvidence(c) ==
  /\ call[c].pc = "undo_called"
  /\ Write(c, call[c].res.step, call[c].res.status)
  /\ call' = [call EXCEPT
                ![c].pc = "undo", ![c].i = @ - 1, ![c].res = NoResult,
                ![c].report = Append(@, [call[c].res EXCEPT !.evidence = Len(evidence) + 1])]
  /\ UNCHANGED <<store, world, begun, faults>>

RollbackEnd(c) ==
  /\ call[c].pc = "undo"
  /\ call[c].i = 0
  /\ Save(c, RolledBack(call[c].run, call[c].report))
  /\ call' = Ended(c)
  /\ UNCHANGED <<evidence, world, begun, faults>>

-----------------------------------------------------------------------------
(* Faults *)

\* An await raises (store, bus or evidence store down, task cancelled).
Interrupt(c) ==
  /\ call[c].pc # "idle"
  /\ faults < MaxFaults
  /\ faults' = faults + 1
  /\ call' = Ended(c)
  /\ UNCHANGED <<store, evidence, world, begun>>

\* The process restarts: the stores survive, _playbooks does not.
Restart ==
  /\ faults < MaxFaults
  /\ faults' = faults + 1
  /\ playbooks' = {}
  /\ call' = [c \in Client |-> NoCall]
  /\ UNCHANGED <<runs, finding, evidence, world, begun>>

-----------------------------------------------------------------------------
Ask(c) ==
  \E r \in RunId :
    \/ SimulateBegin(c, r)
    \/ HaltBegin(c, r)
    \/ ExecuteBegin(c, r)
    \/ \E a \in Approval : ApproveBegin(c, r, a) \/ RollbackBegin(c, r, a)

\* What the engine does on its own, but for awaiting a handler
Continue(c) ==
  \/ SimulateEnd(c) \/ ApproveEnd(c) \/ HaltEnd(c)
  \/ \E s \in Step : CallHandler(c, s) \/ ExecuteRefused(c, s)
  \/ RecordEvidence(c) \/ RecordSuccess(c) \/ RecordFailure(c) \/ Complete(c)
  \/ RollbackGrant(c) \/ RollbackRefused(c)
  \/ UndoNext(c) \/ UndoSkip(c) \/ UndoEvidence(c) \/ RollbackEnd(c)
  \/ Conflict(c)

\* wait_for bounds this await
ExecuteReturns(c) ==
  \/ \E ref \in BOOLEAN : HandlerSucceeds(c, ref)
  \/ \E took \in BOOLEAN : HandlerFails(c, took)

Next ==
  \/ \E r \in RunId, f \in Finding : Propose(r, f)
  \/ \E c \in Client :
       \/ Ask(c)
       \/ Continue(c)
       \/ ExecuteReturns(c)
       \/ SimulateStep(c)
       \/ UndoCall(c)
       \/ Interrupt(c)
  \/ Restart

Spec == Init /\ [][Next]_vars

(***************************************************************************)
(* The event loop runs every ready coroutine, and wait_for ends the await  *)
(* of handler.execute.  handler.simulate and handler.rollback are awaited  *)
(* without a timeout: they may never return, so they get no fairness.      *)
(***************************************************************************)
FairSpec ==
  Spec /\ \A c \in Client : WF_vars(Continue(c)) /\ WF_vars(ExecuteReturns(c))

-----------------------------------------------------------------------------
(* Properties *)

(* Type correctness of the store, the evidence and every coroutine's locals *)
(* (Run, StepResult and Approval of workflow/models.py).                    *)
TypeOK ==
  /\ runs \in [RunId -> Run]
  /\ finding \in [RunId -> Finding]
  /\ playbooks \subseteq RunId
  /\ evidence \in Seq(EvidenceRecord)
  /\ call \in [Client -> Call]
  /\ applied \in [RunId -> [Step -> Nat]]
  /\ undone \in [RunId -> [Step -> Nat]]
  /\ begun \in Nat
  /\ faults \in Nat

Active(c) == call[c].pc # "idle"

(* The copy a coroutine works on is an earlier state of the stored run, and *)
(* the very same record when the versions agree: what the version check of  *)
(* store.update has to guarantee for every read-await-write in engine.py.   *)
CopiesAreConsistent ==
  \A c \in Client : Active(c) =>
    LET copy == call[c].run  stored == runs[call[c].id] IN
    /\ copy.version \in 1 .. stored.version
    /\ copy.version = stored.version => copy = stored
    /\ copy.approvals \subseteq stored.approvals
    /\ Succeeded(copy.results) \subseteq Succeeded(stored.results)

(* No external effect without authority, however calls interleave: a step   *)
(* that took effect was eligible, was not always denied, and if it is gated *)
(* the stored run holds a human approval for it, with a confirm token when  *)
(* it is destructive (EA-0008 S1-S4, NFR-1; ensure_step_may_execute).       *)
EffectsAuthorized ==
  \A r \in RunId : \A s \in Step : applied[r][s] > 0 =>
    /\ finding[r].eligibility # "none"
    /\ Verdicts[s] \ {"deny"} # {}
    /\ RequiresApproval(s, finding[r]) => Approved(s, runs[r].approvals)

(* Only a recorded, reversible success with a rollback_ref is ever rolled   *)
(* back, under an approval the run holds that names that step (FR-9).       *)
UndoneOnlyIfGranted ==
  \A r \in RunId : \A s \in Step : undone[r][s] > 0 =>
    /\ s \in RollbackSteps(runs[r].results)
    /\ \E a \in runs[r].approvals : s \in a.steps /\ InScope(a)

EvidenceOf(r, s) ==
  {i \in DOMAIN evidence : /\ evidence[i].id = r
                           /\ evidence[i].step = s
                           /\ evidence[i].status \in {"succeeded", "failed"}}

AwaitingEvidence(r, s) ==
  {c \in Client : call[c].pc = "executed" /\ call[c].id = r /\ call[c].res.step = s}

(* As long as no call is interrupted, every external effect is in the       *)
(* evidence store or about to be written there, also when the version check *)
(* then refuses to record its result (FR-7, NFR-2).                         *)
EffectsAudited ==
  faults = 0 =>
    \A r \in RunId : \A s \in Step :
      applied[r][s] <= Cardinality(EvidenceOf(r, s)) + Cardinality(AwaitingEvidence(r, s))

(* Every stored result cites an evidence record of the same run, step and   *)
(* status, and no two results share one (StepResult.evidence_id).           *)
ResultsCiteEvidence ==
  \A r \in RunId : LET results == runs[r].results IN
    \A i \in DOMAIN results :
      /\ results[i].evidence \in DOMAIN evidence
      /\ evidence[results[i].evidence] =
           [id |-> r, step |-> results[i].step, status |-> results[i].status]
      /\ \A j \in DOMAIN results :
           results[i].evidence = results[j].evidence => i = j

(* The audit trail is complete (FR-8): no external effect without a record  *)
(* made or about to be made, no stored result without a record of its own.  *)
AuditIsComplete == EffectsAudited /\ ResultsCiteEvidence

Lifecycle == INSTANCE RunLifecycle

(* The engine implements the abstract lifecycle: every write of a coroutine *)
(* is an atomic transition of the latest stored record (FR-11).             *)
ImplementsLifecycle == Lifecycle!Spec

(* The abstract properties of the stored runs, read on this specification:  *)
(* successes recorded in playbook order and once; completed runs have all   *)
(* their successes; results and approvals are never lost (engine.execute).  *)
SuccessesInOrder           == Lifecycle!SuccessesInOrder
CompletedMeansAllSucceeded == Lifecycle!CompletedMeansAllSucceeded
HistoryOnlyGrows           == Lifecycle!HistoryOnlyGrows

(* NFR-3: an execute call always returns, since a stuck handler is timed    *)
(* out; likewise approve and halt, which await only the store.              *)
ExecuteNeverHangs ==
  \A c \in Client :
    call[c].pc \in {"execute", "calling", "executed", "record", "approve", "halt"}
      ~> call[c].pc = "idle"

-----------------------------------------------------------------------------
(* What the documents say and the code does not do *)

(* S6, FR-6: a step whose success is known to the engine is not re-applied. *)
NeverAppliedTwice ==
  \A r \in RunId : \A s \in Step :
    Cardinality({i \in EvidenceOf(r, s) : evidence[i].status = "succeeded"}) <= 1
=============================================================================
