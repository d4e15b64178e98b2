---------------------------- MODULE WorkflowRules ----------------------------
(***************************************************************************)
(* The pure part of the workflow engine: what a run record is, which steps *)
(* are gated, what an approval covers, and the status and result           *)
(* computations of engine.py and gating.py.  A step is named by its        *)
(* position in playbook.steps, whose ids are unique and in a fixed order.  *)
(***************************************************************************)
EXTENDS Integers, Sequences

CONSTANTS
  RunId,       \* ids of the runs
  StepCount,   \* number of steps of the playbook
  Effect,      \* Effect[s]: the ActionEffect of the step's registered action
  Reversible,  \* steps whose ActionSpec has reversible = True
  Declared,    \* steps the playbook author marked requires_approval
  Findings,    \* automation policies a source finding may carry
  Verdicts     \* Verdicts[s]: the answers the step authorizer may give

Step == 1 .. StepCount

ASSUME RulesAssumption ==
  /\ StepCount \in Nat \ {0}
  /\ Effect \in [Step -> {"read_only", "reversible", "destructive"}]
  /\ Reversible \subseteq Step
  /\ \A s \in Step : /\ Effect[s] = "read_only"  => s \notin Reversible
                     /\ Effect[s] = "reversible" => s \in Reversible
  /\ Declared \subseteq Step
  /\ Findings \subseteq [eligibility : {"none", "assisted", "automatic"},
                         requires_approval : BOOLEAN]
  /\ Verdicts \in [Step -> SUBSET {"allow", "require_approval", "deny"}]

(***************************************************************************)
(* A run without a source finding is gated exactly like one whose finding  *)
(* is eligible for automatic execution and asks for no approval.           *)
(***************************************************************************)
NoFinding == [eligibility |-> "automatic", requires_approval |-> FALSE]
Finding   == Findings \cup {NoFinding}

\* The approver is a human user: approve and rollback refuse any other actor.
Approval == [steps : (SUBSET Step) \ {{}}, token : BOOLEAN]

RunStatus == {"proposed", "simulated", "awaiting_approval", "approved",
              "running", "completed", "failed", "halted"}

StepStatus == {"succeeded", "failed",
               "rolled_back", "rollback_failed", "rollback_skipped"}

\* evidence is the position in the evidence store of the record it cites
StepResult == [step : Step, status : StepStatus, ref : BOOLEAN, evidence : Nat]

\* version 0 stands for an id the store does not hold yet
Run == [status : RunStatus, results : Seq(StepResult),
        approvals : SUBSET Approval, version : Nat]

NoRun  == [status |-> "proposed", results |-> <<>>, approvals |-> {}, version |-> 0]
NewRun == [NoRun EXCEPT !.version = 1]

-----------------------------------------------------------------------------
(* gating.py *)

\* gate_step: the requirement is only ever raised
RequiresApproval(s, f) ==
  \/ s \in Declared
  \/ Effect[s] # "read_only"
  \/ f.eligibility # "automatic"
  \/ f.requires_approval

\* _approved / _matching_approvals with the confirm_token rule
Approved(s, approvals) ==
  \E a \in approvals : s \in a.steps /\ (Effect[s] = "destructive" => a.token)

\* Mutant of MayExecute: the approval of a gated step is not looked for.
MayExecute_Ungated(s, f, approvals, verdict) ==
  verdict # "deny" /\ f.eligibility # "none"

\* _granted_capabilities_for_step followed by ensure_step_may_execute
MayExecute(s, f, approvals, verdict) ==
  /\ verdict # "deny"
  /\ verdict = "require_approval" => Approved(s, approvals)
  /\ f.eligibility # "none"
  /\ RequiresApproval(s, f) => Approved(s, approvals)

\* _validate_approval_scope: a destructive step needs the confirm_token
InScope(a) == \A s \in a.steps : Effect[s] = "destructive" => a.token

-----------------------------------------------------------------------------
(* engine.py *)

Succeeded(results) ==
  {s \in Step : \E i \in DOMAIN results :
                   results[i].step = s /\ results[i].status = "succeeded"}

AllSucceeded(results) == Succeeded(results) = Step

\* Mutant of IsNext: any step that has not succeeded may be taken.
IsNext_AnyOrder(s, results) == s \in Step \ Succeeded(results)

\* The step the loop of execute reaches: the first one not yet succeeded.
IsNext(s, results) ==
  /\ s \in Step \ Succeeded(results)
  /\ \A t \in Step : t < s => t \in Succeeded(results)

Covered(f, approvals) ==
  \A s \in Step : RequiresApproval(s, f) => Approved(s, approvals)

ApprovalStatus(f, approvals) ==
  IF Covered(f, approvals) THEN "approved" ELSE "awaiting_approval"

SimulatedStatus(f, approvals) ==
  CASE ~ Covered(f, approvals) -> "awaiting_approval"
    [] Covered(f, approvals) /\ approvals # {}
         /\ (\E s \in Step : RequiresApproval(s, f)) -> "approved"
    [] OTHER -> "simulated"

\* A recorded success whose handler gave a rollback_ref for a reversible action
Undoable(result) ==
  result.status = "succeeded" /\ result.step \in Reversible /\ result.ref

RollbackSteps(results) ==
  {s \in Step : \E i \in DOMAIN results :
                   results[i].step = s /\ Undoable(results[i])}

(***************************************************************************)
(* The run record each operation stores, computed from the one it holds.   *)
(***************************************************************************)
Simulated(run, f)      == [run EXCEPT !.status = SimulatedStatus(f, run.approvals)]
WithApproval(run, f, a) ==
  [run EXCEPT !.approvals = @ \cup {a},
              !.status = ApprovalStatus(f, run.approvals \cup {a})]
WithSuccess(run, res)  == [run EXCEPT !.results = Append(@, res)]
WithFailure(run, res)  == [run EXCEPT !.results = Append(@, res), !.status = "failed"]
Completed(run)         == [run EXCEPT !.status = "completed"]
Halted(run)            == [run EXCEPT !.status = "halted"]
RollbackGranted(run, a) == [run EXCEPT !.approvals = @ \cup {a}]
RolledBack(run, undone) == [run EXCEPT !.results = @ \o undone, !.status = "halted"]

\* store.update: the stored copy takes the next version
NextVersion(run) == [run EXCEPT !.version = @ + 1]
=============================================================================
