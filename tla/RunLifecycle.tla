----------------------------- MODULE RunLifecycle -----------------------------
(***************************************************************************)
(* What the workflow engine promises about a stored run: every change is   *)
(* one atomic transition computed from the latest record.  Callers, their  *)
(* stale copies, version checks, handlers and crashes are not visible at   *)
(* this level; Workflow implements it.                                     *)
(***************************************************************************)
EXTENDS WorkflowRules

VARIABLES
  runs,     \* the run record of every id
  finding   \* the automation policy each run was proposed under

vars == <<runs, finding>>

Exists(r) == runs[r].version > 0

Init ==
  /\ runs = [r \in RunId |-> NoRun]
  /\ finding = [r \in RunId |-> NoFinding]

Store(r, run) ==
  /\ Exists(r)
  /\ runs' = [runs EXCEPT ![r] = NextVersion(run)]
  /\ UNCHANGED finding

(***************************************************************************)
(* The results of the next record, and those it adds to the present one:   *)
(* they come from handlers and evidence, which this level does not model.  *)
(***************************************************************************)
NewResults(r) == {runs'[r].results[i] : i \in DOMAIN runs'[r].results}

Added(r) ==
  LET old == runs[r].results  new == runs'[r].results
  IN  [i \in 1 .. (Len(new) - Len(old)) |-> new[Len(old) + i]]

Propose(r, f) ==
  /\ ~ Exists(r)
  /\ runs' = [runs EXCEPT ![r] = NewRun]
  /\ finding' = [finding EXCEPT ![r] = f]

Simulate(r) == Store(r, Simulated(runs[r], finding[r]))

Approve(r, a) == InScope(a) /\ Store(r, WithApproval(runs[r], finding[r], a))

\* A step succeeds only in its turn and under the approvals stored with the run.
StepSucceeds(r, res) ==
  /\ res \in StepResult
  /\ res.status = "succeeded"
  /\ IsNext(res.step, runs[r].results)
  /\ MayExecute(res.step, finding[r], runs[r].approvals, "allow")
  /\ Store(r, WithSuccess(runs[r], res))

StepFails(r, res) ==
  /\ res \in StepResult
  /\ res.status = "failed"
  /\ IsNext(res.step, runs[r].results)
  /\ MayExecute(res.step, finding[r], runs[r].approvals, "allow")
  /\ Store(r, WithFailure(runs[r], res))

Complete(r) == AllSucceeded(runs[r].results) /\ Store(r, Completed(runs[r]))

Halt(r) == Store(r, Halted(runs[r]))

\* The approval of a rollback names exactly the steps to be undone.
GrantRollback(r, a) ==
  /\ a.steps = RollbackSteps(runs[r].results)
  /\ InScope(a)
  /\ Store(r, RollbackGranted(runs[r], a))

\* A rollback reports on recorded successes only, and undoes nothing it may not.
Rollback(r) == LET undone == Added(r) IN
  /\ undone \in Seq(StepResult)
  /\ \A i \in DOMAIN undone :
        /\ undone[i].step \in Succeeded(runs[r].results)
        /\ undone[i].status \notin {"succeeded", "failed"}
        /\ undone[i].status # "rollback_skipped" =>
             \E a \in runs[r].approvals : undone[i].step \in a.steps
  /\ Store(r, RolledBack(runs[r], undone))

Next ==
  \E r \in RunId :
    \/ \E f \in Finding : Propose(r, f)
    \/ Simulate(r)
    \/ \E a \in Approval : Approve(r, a) \/ GrantRollback(r, a)
    \/ \E res \in NewResults(r) : StepSucceeds(r, res) \/ StepFails(r, res)
    \/ Complete(r)
    \/ Halt(r)
    \/ Rollback(r)

Spec == Init /\ [][Next]_vars

-----------------------------------------------------------------------------
(* Type correctness: the store holds run records and each run's finding    *)
(* policy is one that a finding may carry (workflow/models.py Run).        *)
TypeOK ==
  /\ runs \in [RunId -> Run]
  /\ finding \in [RunId -> Finding]

(* Steps succeed in playbook order and each at most once: no interleaving  *)
(* of execute calls records a success twice or skips a step (execute loop). *)
SuccessesInOrder ==
  \A r \in RunId : \A i, j \in DOMAIN runs[r].results :
    /\ i < j
    /\ runs[r].results[i].status = "succeeded"
    /\ runs[r].results[j].status = "succeeded"
    => runs[r].results[i].step < runs[r].results[j].step

(* A run is marked completed only when every step of its playbook has a    *)
(* recorded success, whichever calls raced to finish it (execute, line 286). *)
CompletedMeansAllSucceeded ==
  \A r \in RunId : runs[r].status = "completed" => AllSucceeded(runs[r].results)

(* A recorded success of a gated step is covered by an approval the run    *)
(* still holds, with a confirm token when it is destructive (S2, S4).      *)
SuccessesApproved ==
  \A r \in RunId : \A s \in Succeeded(runs[r].results) :
    /\ finding[r].eligibility # "none"
    /\ RequiresApproval(s, finding[r]) => Approved(s, runs[r].approvals)

(* Nothing recorded is ever lost or rewritten: results only grow at the    *)
(* end, approvals only accumulate, and the version moves by one (FR-11).   *)
HistoryStep ==
  \A r \in RunId :
    LET old == runs[r].results  new == runs'[r].results
    IN  /\ Len(old) <= Len(new)
        /\ \A i \in DOMAIN old : new[i] = old[i]
        /\ runs[r].approvals \subseteq runs'[r].approvals
        /\ runs'[r].version \in {runs[r].version, runs[r].version + 1}

HistoryOnlyGrows == [][HistoryStep]_vars
=============================================================================
