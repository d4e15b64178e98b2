----------------------------- MODULE WorkflowProofs -----------------------------
(***************************************************************************)
(* The inductive invariant of Workflow and what follows from it, for any   *)
(* number of callers, runs and steps and any mix of effects and findings.  *)
(***************************************************************************)
EXTENDS Workflow, WorkflowRulesProofs, FiniteSetTheorems

\* The authorizer and the gates may let step s of a run go.
Cleared(s, f, approvals) == \E v \in Verdicts[s] : MayExecute(s, f, approvals, v)

ReportOK(report, run, grant) ==
  \A j \in DOMAIN report :
    /\ report[j].step \in Succeeded(run.results)
    /\ report[j].status \in {"rolled_back", "rollback_failed", "rollback_skipped"}
    /\ report[j].status # "rollback_skipped" => report[j].step \in grant.steps

(***************************************************************************)
(* What holds of a coroutine k in progress whose run is stored as stored   *)
(* and was proposed under f.                                               *)
(***************************************************************************)
CallOK(k, stored, f) ==
  k.pc # "idle" =>
    /\ Extends(k.run, stored)
    /\ k.run.version > 0
    /\ k.pc = "simulate" => k.i > 0
    /\ k.pc \in {"approve", "rollback"} => InScope(k.grant)
    /\ k.pc = "rollback" =>
         k.grant.steps = RollbackSteps(k.run.results) /\ k.report = <<>>
    /\ k.pc = "calling" =>
         /\ k.i \in Step
         /\ IsNext(k.i, k.run.results)
         /\ Cleared(k.i, f, k.run.approvals)
    /\ k.pc \in {"executed", "record"} =>
         /\ k.res.status \in {"succeeded", "failed"}
         /\ IsNext(k.res.step, k.run.results)
         /\ Cleared(k.res.step, f, k.run.approvals)
    /\ k.pc \in {"undo", "undo_called"} =>
         /\ k.i <= Len(k.run.results)
         /\ InScope(k.grant)
         /\ k.grant \in k.run.approvals
         /\ k.grant.steps = RollbackSteps(k.run.results)
         /\ ReportOK(k.report, k.run, k.grant)
    /\ k.pc = "undo_called" => k.i > 0 /\ ReportOK(<<k.res>>, k.run, k.grant)

CallsOK == \A c \in Client : CallOK(call[c], runs[call[c].id], finding[call[c].id])

\* An id without a record holds nothing.
AbsentOK == \A r \in RunId : runs[r].version = 0 => runs[r] = NoRun

AppliedOK ==
  \A r \in RunId : \A s \in Step : applied[r][s] > 0 =>
    runs[r].version > 0 /\ Cleared(s, finding[r], runs[r].approvals)

IInv == TypeOK /\ AbsentOK /\ CallsOK /\ AppliedOK /\ UndoneOnlyIfGranted

-----------------------------------------------------------------------------
LEMMA ClearedMonotonic ==
  ASSUME NEW s, NEW f, NEW x, NEW y, x \subseteq y, Cleared(s, f, x)
  PROVE  Cleared(s, f, y)
BY DEF Cleared, MayExecute, Approved

(* A coroutine's locals stay in order when the store moves on under it.      *)
LEMMA CallKeeps ==
  ASSUME NEW k \in Call, NEW old \in Run, NEW new \in Run, NEW f,
         CallOK(k, old, f), Extends(old, new)
  PROVE  CallOK(k, new, f)
<1>1. k.run \in Run
  BY DEF Call
<1>2. k.pc # "idle" => Extends(k.run, new)
  BY <1>1, ExtendsTransitive DEF CallOK
<1> QED BY <1>2 DEF CallOK

(* What every step of one coroutine owes the invariant.                      *)
LEMMA StepKeepsIInv ==
  ASSUME IInv, TypeOK', AbsentOK', NEW c \in Client,
         \A d \in Client : d # c => call'[d] = call[d],
         \A r \in RunId : Extends(runs[r], runs'[r]),
         UNCHANGED finding,
         CallOK(call'[c], runs'[call'[c].id], finding[call'[c].id]),
         \A r \in RunId : \A s \in Step :
           /\ \/ applied'[r][s] = applied[r][s]
              \/ runs[r].version > 0 /\ Cleared(s, finding[r], runs[r].approvals)
           /\ \/ undone'[r][s] = undone[r][s]
              \/ /\ s \in RollbackSteps(runs[r].results)
                 /\ \E a \in runs[r].approvals : s \in a.steps /\ InScope(a)
  PROVE  IInv'
<1>1. TypeOK
  BY DEF IInv
<1>2. CallsOK'
  <2>1. ASSUME NEW d \in Client, d # c
        PROVE  CallOK(call'[d], runs'[call'[d].id], finding'[call'[d].id])
    <3>1. call'[d] = call[d] /\ call[d] \in Call /\ call[d].id \in RunId
      BY <1>1, <2>1 DEF TypeOK, Call
    <3>2. runs[call[d].id] \in Run /\ runs'[call[d].id] \in Run
      BY <1>1, <3>1 DEF TypeOK
    <3>3. CallOK(call[d], runs[call[d].id], finding[call[d].id])
      BY DEF IInv, CallsOK
    <3> QED BY <3>1, <3>2, <3>3, CallKeeps
  <2> QED BY <2>1 DEF CallsOK
<1>3. ASSUME NEW r \in RunId
      PROVE  /\ runs[r].version <= runs'[r].version
             /\ runs[r].approvals \subseteq runs'[r].approvals
             /\ RollbackSteps(runs[r].results) \subseteq RollbackSteps(runs'[r].results)
             /\ runs[r].version \in Nat /\ runs'[r].version \in Nat
  BY <1>1 DEF Extends, TypeOK, Run
<1>4. AppliedOK'
  <2> SUFFICES ASSUME NEW r \in RunId, NEW s \in Step, applied'[r][s] > 0
               PROVE  runs'[r].version > 0 /\ Cleared(s, finding[r], runs'[r].approvals)
    BY DEF AppliedOK
  <2>1. runs[r].version > 0 /\ Cleared(s, finding[r], runs[r].approvals)
    BY DEF IInv, AppliedOK
  <2>2. Cleared(s, finding[r], runs'[r].approvals)
    BY <1>3, <2>1, ClearedMonotonic
  <2> QED BY <1>3, <2>1, <2>2
<1>5. UndoneOnlyIfGranted'
  <2> SUFFICES ASSUME NEW r \in RunId, NEW s \in Step, undone'[r][s] > 0
               PROVE  /\ s \in RollbackSteps(runs'[r].results)
                      /\ \E a \in runs'[r].approvals : s \in a.steps /\ InScope(a)
    BY DEF UndoneOnlyIfGranted
  <2>1. /\ s \in RollbackSteps(runs[r].results)
        /\ \E a \in runs[r].approvals : s \in a.steps /\ InScope(a)
    BY DEF IInv, UndoneOnlyIfGranted
  <2> QED BY <1>3, <2>1
<1> QED BY <1>2, <1>4, <1>5 DEF IInv

(* The common case: the coroutine reaches no external system in this step.   *)
LEMMA QuietStepKeepsIInv ==
  ASSUME IInv, TypeOK', AbsentOK', NEW c \in Client,
         \A d \in Client : d # c => call'[d] = call[d],
         \A r \in RunId : Extends(runs[r], runs'[r]),
         UNCHANGED <<finding, applied, undone>>,
         CallOK(call'[c], runs'[call'[c].id], finding[call'[c].id])
  PROVE  IInv'
<1>1. \A r \in RunId : \A s \in Step :
        /\ \/ applied'[r][s] = applied[r][s]
           \/ runs[r].version > 0 /\ Cleared(s, finding[r], runs[r].approvals)
        /\ \/ undone'[r][s] = undone[r][s]
           \/ /\ s \in RollbackSteps(runs[r].results)
              /\ \E a \in runs[r].approvals : s \in a.steps /\ InScope(a)
  OBVIOUS
<1>2. UNCHANGED finding
  OBVIOUS
<1> QED BY <1>1, <1>2, StepKeepsIInv

(* A write of store.update: the stored run moves to the next version and no  *)
(* other run changes.                                                        *)
LEMMA SaveStep ==
  ASSUME IInv, NEW c \in Client, Active(c), NEW run \in Run, Save(c, run),
         Grows(call[c].run, NextVersion(run))
  PROVE  /\ runs' \in [RunId -> Run] /\ finding' \in [RunId -> Finding]
         /\ playbooks' \subseteq RunId
         /\ AbsentOK'
         /\ \A r \in RunId : Extends(runs[r], runs'[r])
         /\ runs'[call[c].id] = NextVersion(run)
         /\ runs[call[c].id] = call[c].run
         /\ UNCHANGED finding
<1>1. /\ TypeOK
      /\ call[c] \in Call /\ call[c].id \in RunId /\ call[c].run \in Run
      /\ CallOK(call[c], runs[call[c].id], finding[call[c].id])
  BY DEF IInv, TypeOK, CallsOK, Call
<1>2. runs[call[c].id] = call[c].run
  BY <1>1 DEF Save, CallOK, Extends, Active
<1>3. NextVersion(run) \in Run
  BY DEF NextVersion, Run
<1>4. runs' = [runs EXCEPT ![call[c].id] = NextVersion(run)]
  BY DEF Save
<1>5. runs' \in [RunId -> Run] /\ runs'[call[c].id] = NextVersion(run)
  BY <1>1, <1>3, <1>4 DEF TypeOK
<1>6. Extends(call[c].run, NextVersion(run))
  BY <1>1, <1>3, GrowsExtends
<1>7. ASSUME NEW r \in RunId
      PROVE  Extends(runs[r], runs'[r])
  <2>1. CASE r = call[c].id
    BY <1>2, <1>5, <1>6, <2>1
  <2>2. CASE r # call[c].id
    <3>1. runs'[r] = runs[r] /\ runs[r] \in Run
      BY <1>1, <1>4, <2>2 DEF TypeOK
    <3> QED BY <3>1, ExtendsReflexive
  <2> QED BY <2>1, <2>2
<1>8. NextVersion(run).version # 0
  BY DEF Run, NextVersion
<1>9. AbsentOK'
  <2> SUFFICES ASSUME NEW r \in RunId, runs'[r].version = 0 PROVE runs'[r] = NoRun
    BY DEF AbsentOK
  <2>1. r # call[c].id
    BY <1>5, <1>8
  <2>2. runs'[r] = runs[r]
    BY <1>1, <1>4, <2>1 DEF TypeOK
  <2> QED BY <2>2 DEF IInv, AbsentOK
<1> QED BY <1>1, <1>2, <1>5, <1>7, <1>9 DEF Save, TypeOK

(* A step that leaves the store alone.                                       *)
LEMMA NoSave ==
  ASSUME IInv, UNCHANGED store
  PROVE  /\ runs' \in [RunId -> Run] /\ finding' \in [RunId -> Finding]
         /\ playbooks' \subseteq RunId
         /\ AbsentOK'
         /\ \A r \in RunId : Extends(runs[r], runs'[r])
         /\ UNCHANGED finding
<1>1. TypeOK /\ UNCHANGED <<runs, finding, playbooks>>
  BY DEF IInv, store
<1>2. \A r \in RunId : Extends(runs[r], runs[r])
  BY <1>1, ExtendsReflexive DEF TypeOK
<1> QED BY <1>1, <1>2 DEF TypeOK, AbsentOK, IInv

LEMMA ConstantTypes ==
  /\ 1 \in Step
  /\ NoRun \in Run
  /\ NoResult \in StepResult
  /\ NoGrant \in Approval
  /\ NoCall \in Call
  /\ NoCall.pc = "idle"
<1>1. 1 \in Step
  BY RulesAssumption DEF Step
<1>2. NoRun \in Run
  BY DEF NoRun, Run, RunStatus
<1>3. NoResult \in StepResult
  BY <1>1 DEF NoResult, StepResult, StepStatus
<1>4. NoGrant \in Approval
  BY <1>1 DEF NoGrant, Approval
<1>5. (CHOOSE r \in RunId : TRUE) \in RunId
  BY BoundsAssumption
<1>6. <<>> \in Seq(StepResult)
  OBVIOUS
<1>7. NoCall \in Call /\ NoCall.pc = "idle"
  BY <1>2, <1>3, <1>4, <1>5, <1>6 DEF NoCall, Call, PC
<1> QED BY <1>1, <1>2, <1>3, <1>4, <1>7

(* A call that ends leaves the other coroutines alone.                       *)
LEMMA EndedStep ==
  ASSUME TypeOK, NEW c \in Client, call' = Ended(c)
  PROVE  /\ call' \in [Client -> Call]
         /\ \A d \in Client : d # c => call'[d] = call[d]
         /\ call'[c] = NoCall
         /\ \A stored, f : CallOK(call'[c], stored, f)
<1>1. call'[c] = NoCall /\ call' \in [Client -> Call]
  BY ConstantTypes DEF Ended, TypeOK
<1> QED BY <1>1, ConstantTypes DEF Ended, TypeOK, CallOK

(* A call that begins holds the stored run itself.                           *)
LEMMA BeginStep ==
  ASSUME IInv, NEW c \in Client, NEW r \in RunId, NEW pc \in PC, NEW grant \in Approval,
         NEW i \in Nat, Begin(c, r, pc, i, grant)
  PROVE  /\ call' \in [Client -> Call]
         /\ \A d \in Client : d # c => call'[d] = call[d]
         /\ call'[c] \in Call
         /\ call'[c].pc = pc /\ call'[c].id = r /\ call'[c].grant = grant /\ call'[c].i = i /\ call'[c].report = <<>>
         /\ call'[c].run = runs[r]
         /\ runs[r] \in Run /\ runs[r].version > 0
         /\ begun' \in Nat
<1> DEFINE k == [NoCall EXCEPT !.pc = pc, !.id = r, !.run = runs[r], !.i = i, !.grant = grant]
<1>1. TypeOK /\ runs[r] \in Run
  BY DEF IInv, TypeOK
<1>2. k \in Call
  BY <1>1, ConstantTypes DEF Call
<1>3. /\ k.pc = pc /\ k.id = r /\ k.grant = grant /\ k.run = runs[r] /\ k.i = i
      /\ k.report = <<>>
  BY ConstantTypes DEF Call, NoCall
<1> HIDE DEF k
<1>4. call' = [call EXCEPT ![c] = k] /\ begun' = begun + 1 /\ Exists(r)
  BY DEF Begin, k
<1> QED BY <1>1, <1>2, <1>3, <1>4 DEF TypeOK, Exists

(* A call that begins and saves nothing keeps the invariant.                 *)
LEMMA AskKeepsIInv ==
  ASSUME IInv, NEW c \in Client, Ask(c)
  PROVE  IInv'
<1>1. PICK r \in RunId : \/ SimulateBegin(c, r)
                        \/ HaltBegin(c, r)
                        \/ ExecuteBegin(c, r)
                        \/ \E a \in Approval : ApproveBegin(c, r, a) \/ RollbackBegin(c, r, a)
  BY DEF Ask
<1>2. UNCHANGED <<store, evidence, world, faults>>
  BY <1>1 DEF SimulateBegin, HaltBegin, ExecuteBegin, ApproveBegin, RollbackBegin
<1>3. \E pc \in {"simulate", "halt", "execute", "approve", "rollback"} :
        \E i \in Nat : \E grant \in Approval :
          /\ Begin(c, r, pc, i, grant)
          /\ pc = "simulate" => i > 0
          /\ pc \in {"approve", "rollback"} => InScope(grant)
          /\ pc = "rollback" => grant.steps = RollbackSteps(runs[r].results)
  BY <1>1, ConstantTypes
     DEF SimulateBegin, HaltBegin, ExecuteBegin, ApproveBegin, RollbackBegin
<1>4. PICK pc \in {"simulate", "halt", "execute", "approve", "rollback"},
           i \in Nat, grant \in Approval :
          /\ Begin(c, r, pc, i, grant)
          /\ pc = "simulate" => i > 0
          /\ pc \in {"approve", "rollback"} => InScope(grant)
          /\ pc = "rollback" => grant.steps = RollbackSteps(runs[r].results)
  BY <1>3
<1>5. /\ call' \in [Client -> Call]
      /\ \A d \in Client : d # c => call'[d] = call[d]
      /\ call'[c].pc = pc /\ call'[c].id = r /\ call'[c].grant = grant /\ call'[c].i = i /\ call'[c].report = <<>>
      /\ call'[c].run = runs[r]
      /\ runs[r] \in Run /\ runs[r].version > 0
      /\ begun' \in Nat
  BY <1>4, BeginStep DEF PC
<1>6. TypeOK' /\ AbsentOK' /\ (\A q \in RunId : Extends(runs[q], runs'[q]))
  BY <1>2, <1>5, NoSave DEF IInv, TypeOK, store, world
<1>7. CallOK(call'[c], runs'[r], finding[r])
  BY <1>2, <1>4, <1>5, ExtendsReflexive DEF CallOK, store
<1>8. UNCHANGED <<finding, applied, undone>>
  BY <1>2 DEF world, store
<1>9. CallOK(call'[c], runs'[call'[c].id], finding[call'[c].id])
  BY <1>5, <1>7
<1> QED BY <1>5, <1>6, <1>8, <1>9, QuietStepKeepsIInv

(* A call that ends without a write keeps the invariant: a refusal, a lost   *)
(* version check, an interruption.                                           *)
LEMMA EndKeepsIInv ==
  ASSUME IInv, NEW c \in Client, call' = Ended(c), UNCHANGED <<store, evidence, world, begun>>,
         faults' \in Nat
  PROVE  IInv'
<1>1. TypeOK
  BY DEF IInv
<1>2. /\ call' \in [Client -> Call]
      /\ \A d \in Client : d # c => call'[d] = call[d]
      /\ \A stored, f : CallOK(call'[c], stored, f)
  BY <1>1, EndedStep
<1>3. TypeOK' /\ AbsentOK' /\ (\A q \in RunId : Extends(runs[q], runs'[q])) /\ UNCHANGED finding
  BY <1>1, <1>2, NoSave DEF TypeOK, store, world
<1>4. CallOK(call'[c], runs'[call'[c].id], finding[call'[c].id])
  BY <1>2 DEF store
<1>5. UNCHANGED <<finding, applied, undone>>
  BY <1>3 DEF world
<1> QED BY <1>2, <1>3, <1>4, <1>5, QuietStepKeepsIInv

(* A call that ends with a write keeps the invariant.                        *)
LEMMA SaveAndEndKeepsIInv ==
  ASSUME IInv, NEW c \in Client, Active(c), NEW run \in Run, Save(c, run),
         Grows(call[c].run, NextVersion(run)),
         call' = Ended(c), UNCHANGED <<evidence, world, begun, faults>>
  PROVE  IInv'
<1>1. TypeOK
  BY DEF IInv
<1>2. /\ call' \in [Client -> Call]
      /\ \A d \in Client : d # c => call'[d] = call[d]
      /\ \A stored, f : CallOK(call'[c], stored, f)
  BY <1>1, EndedStep
<1>3. /\ TypeOK' /\ AbsentOK'
      /\ \A q \in RunId : Extends(runs[q], runs'[q])
      /\ UNCHANGED finding
  BY <1>1, <1>2, SaveStep DEF TypeOK, world
<1>4. CallOK(call'[c], runs'[call'[c].id], finding[call'[c].id])
  BY <1>2 DEF store
<1>5. UNCHANGED <<finding, applied, undone>>
  BY <1>3 DEF world
<1> QED BY <1>2, <1>3, <1>4, <1>5, QuietStepKeepsIInv

(* The evidence store keeps its type when a record is added.                 *)
LEMMA WriteTypes ==
  ASSUME IInv, NEW c \in Client, NEW s \in Step,
         NEW status \in StepStatus \cup {"simulated"}, Write(c, s, status)
  PROVE  evidence' \in Seq(EvidenceRecord)
<1>1. call[c].id \in RunId /\ evidence \in Seq(EvidenceRecord)
  BY DEF IInv, TypeOK, Call
<1>2. [id |-> call[c].id, step |-> s, status |-> status] \in EvidenceRecord
  BY <1>1 DEF EvidenceRecord
<1> QED BY <1>1, <1>2 DEF Write

(* A step of a coroutine that leaves the store alone and the locals in order *)
(* keeps the invariant.                                                      *)
LEMMA LocalKeepsIInv ==
  ASSUME IInv, NEW c \in Client, NEW k \in Call, call' = [call EXCEPT ![c] = k],
         UNCHANGED <<store, world, begun, faults>>, evidence' \in Seq(EvidenceRecord),
         k.id = call[c].id, CallOK(k, runs[k.id], finding[k.id])
  PROVE  IInv'
<1>1. TypeOK
  BY DEF IInv
<1>2. /\ call' \in [Client -> Call]
      /\ \A d \in Client : d # c => call'[d] = call[d]
      /\ call'[c] = k
  BY <1>1 DEF TypeOK
<1>3. /\ TypeOK' /\ AbsentOK'
      /\ \A q \in RunId : Extends(runs[q], runs'[q])
      /\ UNCHANGED finding
  BY <1>1, <1>2, NoSave DEF TypeOK, world
<1>4. CallOK(call'[c], runs'[call'[c].id], finding[call'[c].id])
  BY <1>2 DEF store
<1>5. UNCHANGED <<finding, applied, undone>>
  BY <1>3 DEF world
<1> QED BY <1>2, <1>3, <1>4, <1>5, QuietStepKeepsIInv

-----------------------------------------------------------------------------
(* The actions *)

\* What the types say of the coroutine of c
LEMMA CallTypes ==
  ASSUME IInv, NEW c \in Client
  PROVE  /\ call[c] \in Call /\ call[c].pc \in PC
         /\ call[c].id \in RunId /\ call[c].run \in Run
         /\ call[c].i \in Nat /\ call[c].res \in StepResult
         /\ call[c].grant \in Approval /\ call[c].report \in Seq(StepResult)
         /\ runs[call[c].id] \in Run /\ finding[call[c].id] \in Finding
         /\ CallOK(call[c], runs[call[c].id], finding[call[c].id])
         /\ call[c].run.results \in Seq(StepResult)
BY DEF IInv, TypeOK, Call, CallsOK, Run

(* The writes that end a call.                                               *)
LEMMA FinalWrites ==
  ASSUME IInv, NEW c \in Client,
         \/ SimulateEnd(c) \/ ApproveEnd(c) \/ HaltEnd(c)
         \/ RecordFailure(c) \/ Complete(c) \/ RollbackEnd(c)
  PROVE  IInv'
<1> DEFINE k == call[c]
          f == finding[call[c].id]
          Written == {Simulated(k.run, f), WithApproval(k.run, f, k.grant), Halted(k.run),
                      WithFailure(k.run, k.res), Completed(k.run), RolledBack(k.run, k.report)}
<1>1. Active(c) /\ call' = Ended(c) /\ UNCHANGED <<evidence, world, begun, faults>>
  BY DEF SimulateEnd, ApproveEnd, HaltEnd, RecordFailure, Complete, RollbackEnd, Active
<1>2. \E run \in Written : Save(c, run)
  BY DEF SimulateEnd, ApproveEnd, HaltEnd, RecordFailure, Complete, RollbackEnd
<1>3. \A run \in Written : run \in Run /\ Grows(k.run, NextVersion(run))
  BY CallTypes, RuleTypes, RulesGrow
<1> QED BY <1>1, <1>2, <1>3, SaveAndEndKeepsIInv

(* The calls that end without a write.                                       *)
LEMMA Refusals ==
  ASSUME IInv, NEW c \in Client,
         \/ Conflict(c) \/ RollbackRefused(c) \/ Interrupt(c)
         \/ \E s \in Step : ExecuteRefused(c, s)
  PROVE  IInv'
<1>1. /\ call' = Ended(c) /\ UNCHANGED <<store, evidence, world, begun>>
      /\ faults' \in Nat
  BY DEF Conflict, RollbackRefused, Interrupt, ExecuteRefused, IInv, TypeOK
<1> QED BY <1>1, EndKeepsIInv

LEMMA SimulateStepKeeps ==
  ASSUME IInv, NEW c \in Client, SimulateStep(c)
  PROVE  IInv'
<1> DEFINE k == [call[c] EXCEPT !.i = @ + 1]
<1>1. /\ k \in Call /\ k.id = call[c].id /\ k.run = call[c].run
      /\ k.pc = "simulate" /\ k.i = call[c].i + 1
  BY CallTypes DEF Call, SimulateStep
<1>2. CallOK(k, runs[k.id], finding[k.id])
  BY <1>1, CallTypes DEF SimulateStep, CallOK
<1>3. call[c].i \in Step
  <2>1. call[c].i > 0 /\ call[c].i <= StepCount
    BY CallTypes DEF SimulateStep, CallOK
  <2>2. call[c].i \in Nat
    BY CallTypes
  <2> QED BY <2>1, <2>2, RulesAssumption DEF Step
<1>4. evidence' \in Seq(EvidenceRecord)
  BY <1>3, WriteTypes DEF SimulateStep
<1>5. call' = [call EXCEPT ![c] = k] /\ UNCHANGED <<store, world, begun, faults>>
  BY DEF SimulateStep
<1> HIDE DEF k
<1> QED BY <1>1, <1>2, <1>4, <1>5, LocalKeepsIInv

LEMMA CallHandlerKeeps ==
  ASSUME IInv, NEW c \in Client, NEW s \in Step, CallHandler(c, s)
  PROVE  IInv'
<1> DEFINE k == [call[c] EXCEPT !.pc = "calling", !.i = s]
<1>1. /\ k \in Call /\ k.id = call[c].id /\ k.run = call[c].run
      /\ k.pc = "calling" /\ k.i = s
  <2>1. s \in Nat
    BY DEF Step
  <2> QED BY <2>1, CallTypes DEF Call, PC
<1>2. CallOK(k, runs[k.id], finding[k.id])
  BY <1>1, CallTypes DEF CallHandler, CallOK, Cleared
<1>3. /\ call' = [call EXCEPT ![c] = k]
      /\ UNCHANGED <<store, world, begun, faults>>
      /\ evidence' \in Seq(EvidenceRecord)
  BY DEF CallHandler, IInv, TypeOK
<1> HIDE DEF k
<1> QED BY <1>1, <1>2, <1>3, LocalKeepsIInv

(* The handler returned or was given up on: the action may have taken effect *)
(* only under the authority the coroutine was granted.                       *)
LEMMA HandlerKeeps ==
  ASSUME IInv, NEW c \in Client, ExecuteReturns(c)
  PROVE  IInv'
<1> DEFINE id == call[c].id
          i  == call[c].i
<1>1. /\ call[c].pc = "calling"
      /\ UNCHANGED <<store, evidence, undone, begun, faults>>
      /\ \E status \in {"succeeded", "failed"}, ref \in BOOLEAN : Returned(c, status, ref)
      /\ \E n \in {applied[id][i], applied[id][i] + 1} : applied' = [applied EXCEPT ![id][i] = n]
  BY DEF ExecuteReturns, HandlerSucceeds, HandlerFails
<1>2. PICK status \in {"succeeded", "failed"}, ref \in BOOLEAN : Returned(c, status, ref)
  BY <1>1
<1> DEFINE res == [NoResult EXCEPT !.step = i, !.status = status, !.ref = ref]
          k   == [call[c] EXCEPT !.pc = "executed", !.res = res]
<1>3. i \in Step /\ id \in RunId
  BY <1>1, CallTypes DEF CallOK
<1>4. res \in StepResult /\ res.step = i /\ res.status = status
  BY <1>3, ConstantTypes DEF StepResult, StepStatus
<1>5. call' = [call EXCEPT ![c] = k]
  BY <1>2 DEF Returned
<1> HIDE DEF res
<1>6. /\ k \in Call /\ k.id = id /\ k.run = call[c].run
      /\ k.pc = "executed" /\ k.res = res
  BY <1>4, CallTypes DEF Call, PC
<1>7. CallOK(k, runs[id], finding[id])
  BY <1>1, <1>4, <1>6, CallTypes DEF CallOK
<1> HIDE DEF k
<1>8. /\ call' \in [Client -> Call] /\ call'[c] = k
      /\ \A d \in Client : d # c => call'[d] = call[d]
  BY <1>5, <1>6 DEF IInv, TypeOK
<1>9. applied' \in [RunId -> [Step -> Nat]]
  BY <1>1, <1>3 DEF IInv, TypeOK
<1>10. /\ TypeOK' /\ AbsentOK' /\ UNCHANGED <<finding, runs>>
       /\ \A q \in RunId : Extends(runs[q], runs'[q])
  BY <1>1, <1>8, <1>9, NoSave DEF IInv, TypeOK, store
<1>11. runs[id].version > 0 /\ Cleared(i, finding[id], runs[id].approvals)
  <2>1. /\ Cleared(i, finding[id], call[c].run.approvals)
        /\ call[c].run.approvals \subseteq runs[id].approvals
        /\ call[c].run.version > 0 /\ call[c].run.version <= runs[id].version
        /\ call[c].run.version \in Nat /\ runs[id].version \in Nat
    BY <1>1, CallTypes DEF CallOK, Extends, Run
  <2> QED BY <2>1, ClearedMonotonic
<1>12. \A r \in RunId : \A s \in Step :
         applied'[r][s] # applied[r][s] => r = id /\ s = i
  BY <1>1, <1>3 DEF IInv, TypeOK
<1>13. CallOK(call'[c], runs'[call'[c].id], finding[call'[c].id])
  BY <1>6, <1>7, <1>8, <1>10
<1> QED BY <1>1, <1>8, <1>10, <1>11, <1>12, <1>13, StepKeepsIInv

(* The result under construction cites the evidence just written.            *)
LEMMA RecordEvidenceKeeps ==
  ASSUME IInv, NEW c \in Client, RecordEvidence(c)
  PROVE  IInv'
<1> DEFINE n   == Len(evidence) + 1
          res == [call[c].res EXCEPT !.evidence = n]
          k   == [call[c] EXCEPT !.pc = "record", !.res = res]
<1>1. n \in Nat
  BY DEF IInv, TypeOK
<1>2. res \in StepResult /\ res.step = call[c].res.step /\ res.status = call[c].res.status
  BY <1>1, CallTypes DEF StepResult
<1>3. call' = [call EXCEPT ![c] = k] /\ UNCHANGED <<store, world, begun, faults>>
  BY DEF RecordEvidence
<1>4. evidence' \in Seq(EvidenceRecord)
  <2>1. call[c].res.step \in Step /\ call[c].res.status \in StepStatus
    BY CallTypes DEF StepResult
  <2> QED BY <2>1, WriteTypes DEF RecordEvidence
<1> HIDE DEF res
<1>5. /\ k \in Call /\ k.id = call[c].id /\ k.run = call[c].run
      /\ k.pc = "record" /\ k.res = res
  BY <1>2, CallTypes DEF Call, PC
<1>6. CallOK(k, runs[k.id], finding[k.id])
  BY <1>2, <1>5, CallTypes DEF RecordEvidence, CallOK
<1> HIDE DEF k
<1> QED BY <1>3, <1>4, <1>5, <1>6, LocalKeepsIInv

(* The writes after which the coroutine goes on with the returned record.    *)
LEMMA SaveAndGoOnKeepsIInv ==
  ASSUME IInv, NEW c \in Client, Active(c), NEW run \in Run, Save(c, run),
         Grows(call[c].run, NextVersion(run)),
         NEW k \in Call, call' = [call EXCEPT ![c] = k],
         k.id = call[c].id, k.run = NextVersion(run),
         CallOK(k, NextVersion(run), finding[k.id]),
         UNCHANGED <<evidence, world, begun, faults>>
  PROVE  IInv'
<1>1. TypeOK
  BY DEF IInv
<1>2. /\ call' \in [Client -> Call] /\ call'[c] = k
      /\ \A d \in Client : d # c => call'[d] = call[d]
  BY <1>1 DEF TypeOK
<1>3. /\ runs' \in [RunId -> Run] /\ finding' \in [RunId -> Finding]
      /\ playbooks' \subseteq RunId /\ AbsentOK'
      /\ \A q \in RunId : Extends(runs[q], runs'[q])
      /\ runs'[k.id] = NextVersion(run)
      /\ UNCHANGED finding
  BY SaveStep
<1>4. TypeOK'
  BY <1>1, <1>2, <1>3 DEF TypeOK, world
<1>5. CallOK(call'[c], runs'[call'[c].id], finding[call'[c].id])
  BY <1>2, <1>3
<1>6. UNCHANGED <<finding, applied, undone>>
  BY <1>3 DEF world
<1> QED BY <1>2, <1>3, <1>4, <1>5, <1>6, QuietStepKeepsIInv

LEMMA RecordSuccessKeeps ==
  ASSUME IInv, NEW c \in Client, RecordSuccess(c)
  PROVE  IInv'
<1> DEFINE run == WithSuccess(call[c].run, call[c].res)
          k   == [NoCall EXCEPT !.pc = "execute", !.id = call[c].id, !.run = NextVersion(run)]
<1>1. run \in Run /\ NextVersion(run) \in Run /\ Grows(call[c].run, NextVersion(run))
  <2>1. run \in Run /\ Grows(call[c].run, NextVersion(run))
    BY CallTypes, RuleTypes, RulesGrow
  <2> HIDE DEF run
  <2> QED BY <2>1, CallTypes, RuleTypes
<1>2. Active(c) /\ Save(c, run) /\ call' = [call EXCEPT ![c] = k]
      /\ UNCHANGED <<evidence, world, begun, faults>>
  BY DEF RecordSuccess, Active
<1>3. NextVersion(run).version > 0
  <2>1. call[c].run.version > 0
    BY CallTypes DEF CallOK, RecordSuccess
  <2>2. call[c].run.version \in Nat
    BY CallTypes DEF Run
  <2> QED BY <1>1, <2>1, <2>2 DEF Grows
<1> HIDE DEF run
<1>4. /\ k \in Call /\ k.id = call[c].id /\ k.run = NextVersion(run) /\ k.pc = "execute"
  BY <1>1, CallTypes, ConstantTypes DEF Call, PC
<1>5. CallOK(k, NextVersion(run), finding[k.id])
  BY <1>1, <1>3, <1>4, ExtendsReflexive DEF CallOK
<1> HIDE DEF k
<1> QED BY <1>1, <1>2, <1>4, <1>5, SaveAndGoOnKeepsIInv

LEMMA RollbackGrantKeeps ==
  ASSUME IInv, NEW c \in Client, RollbackGrant(c)
  PROVE  IInv'
<1> DEFINE run == RollbackGranted(call[c].run, call[c].grant)
          k   == [call[c] EXCEPT !.pc = "undo", !.run = NextVersion(run), !.i = Len(run.results)]
<1>1. run \in Run /\ NextVersion(run) \in Run /\ Grows(call[c].run, NextVersion(run))
  <2>1. run \in Run /\ Grows(call[c].run, NextVersion(run))
    BY CallTypes, RuleTypes, RulesGrow
  <2> HIDE DEF run
  <2> QED BY <2>1, CallTypes, RuleTypes
<1>2. Active(c) /\ Save(c, run) /\ call' = [call EXCEPT ![c] = k]
      /\ UNCHANGED <<evidence, world, begun, faults>>
  BY DEF RollbackGrant, Active
<1>3. NextVersion(run).version > 0
  <2>1. call[c].run.version > 0
    BY CallTypes DEF CallOK, RollbackGrant
  <2>2. call[c].run.version \in Nat
    BY CallTypes DEF Run
  <2> QED BY <1>1, <2>1, <2>2 DEF Grows
<1>4. /\ NextVersion(run).results = call[c].run.results
      /\ call[c].grant \in NextVersion(run).approvals
      /\ Len(run.results) = Len(NextVersion(run).results)
      /\ Len(run.results) \in Nat
  BY CallTypes DEF RollbackGranted, NextVersion, Run
<1>5. /\ InScope(call[c].grant)
      /\ call[c].grant.steps = RollbackSteps(NextVersion(run).results)
  BY <1>4, CallTypes DEF CallOK, RollbackGrant
<1> HIDE DEF run
<1>6. /\ k \in Call /\ k.id = call[c].id /\ k.run = NextVersion(run) /\ k.pc = "undo"
      /\ k.i = Len(run.results) /\ k.grant = call[c].grant /\ k.report = <<>>
  BY <1>1, <1>4, CallTypes DEF Call, PC, CallOK, RollbackGrant
<1>7. CallOK(k, NextVersion(run), finding[k.id])
  <2>1. ReportOK(k.report, k.run, k.grant)
    BY <1>6 DEF ReportOK
  <2>2. Extends(k.run, NextVersion(run))
    BY <1>1, <1>6, ExtendsReflexive
  <2> QED BY <1>3, <1>4, <1>5, <1>6, <2>1, <2>2 DEF CallOK
<1> HIDE DEF k
<1> QED BY <1>1, <1>2, <1>6, <1>7, SaveAndGoOnKeepsIInv

LEMMA UndoNextKeeps ==
  ASSUME IInv, NEW c \in Client, UndoNext(c)
  PROVE  IInv'
<1> DEFINE k == [call[c] EXCEPT !.i = @ - 1]
<1>1. /\ k \in Call /\ k.id = call[c].id /\ k.run = call[c].run /\ k.pc = "undo"
      /\ k.i = call[c].i - 1 /\ k.grant = call[c].grant /\ k.report = call[c].report
  <2>1. call[c].i - 1 \in Nat
    BY CallTypes DEF UndoNext
  <2> QED BY <2>1, CallTypes DEF Call, UndoNext
<1>2. k.i <= Len(k.run.results)
  <2>1. call[c].i <= Len(call[c].run.results)
    BY CallTypes DEF CallOK, UndoNext
  <2>2. call[c].i \in Nat /\ call[c].run.results \in Seq(StepResult)
    BY CallTypes
  <2>3. Len(call[c].run.results) \in Nat
    BY <2>2
  <2> QED BY <1>1, <2>1, <2>2, <2>3
<1>3. CallOK(k, runs[k.id], finding[k.id])
  BY <1>1, <1>2, CallTypes DEF UndoNext, CallOK
<1>4. /\ call' = [call EXCEPT ![c] = k] /\ UNCHANGED <<store, world, begun, faults>>
      /\ evidence' \in Seq(EvidenceRecord)
  BY DEF UndoNext, IInv, TypeOK
<1> HIDE DEF k
<1> QED BY <1>1, <1>3, <1>4, LocalKeepsIInv

\* The result a rollback looks at is a recorded success of the run it holds.
LEMMA UndoResult ==
  ASSUME IInv, NEW c \in Client, call[c].pc = "undo", call[c].i > 0,
         call[c].run.results[call[c].i].status = "succeeded"
  PROVE  LET result == call[c].run.results[call[c].i] IN
         /\ result.step \in Step
         /\ result.step \in Succeeded(call[c].run.results)
         /\ Undoable(result) => result.step \in RollbackSteps(call[c].run.results)
<1>1. call[c].i \in DOMAIN call[c].run.results
  <2>1. /\ call[c].i <= Len(call[c].run.results) /\ call[c].i \in Nat
        /\ call[c].run.results \in Seq(StepResult)
    BY CallTypes DEF CallOK
  <2> QED BY <2>1
<1>2. call[c].run.results[call[c].i] \in StepResult
  BY <1>1, CallTypes
<1> QED BY <1>1, <1>2 DEF StepResult, Succeeded, RollbackSteps

\* What UndoReported makes of the coroutine
LEMMA UndoReportedKeeps ==
  ASSUME IInv, NEW c \in Client, call[c].pc = "undo", call[c].i > 0,
         call[c].run.results[call[c].i].status = "succeeded",
         NEW status \in {"rolled_back", "rollback_failed", "rollback_skipped"},
         status = "rollback_skipped" \/ Undoable(call[c].run.results[call[c].i]),
         UndoReported(c, status)
  PROVE  \E k \in Call : /\ call' = [call EXCEPT ![c] = k]
                         /\ k.id = call[c].id
                         /\ CallOK(k, runs[k.id], finding[k.id])
<1> DEFINE result == call[c].run.results[call[c].i]
          res == [NoResult EXCEPT !.step = result.step, !.status = status]
          k   == [call[c] EXCEPT !.pc = "undo_called", !.res = res]
<1>1. /\ result.step \in Step /\ result.step \in Succeeded(call[c].run.results)
      /\ Undoable(result) => result.step \in RollbackSteps(call[c].run.results)
  BY UndoResult
<1>2. call' = [call EXCEPT ![c] = k]
  BY DEF UndoReported
<1>3. status # "rollback_skipped" => result.step \in call[c].grant.steps
  BY <1>1, CallTypes DEF CallOK
<1> HIDE DEF result
<1>4. res \in StepResult /\ res.step = result.step /\ res.status = status
  BY <1>1, ConstantTypes DEF StepResult, StepStatus
<1> HIDE DEF res
<1>5. /\ k \in Call /\ k.id = call[c].id /\ k.run = call[c].run /\ k.pc = "undo_called"
      /\ k.i = call[c].i /\ k.grant = call[c].grant /\ k.report = call[c].report
      /\ k.res = res
  BY <1>4, CallTypes DEF Call, PC
<1>6. ReportOK(<<k.res>>, k.run, k.grant)
  BY <1>1, <1>3, <1>4, <1>5 DEF ReportOK
<1> HIDE DEF k
<1>7. CallOK(k, runs[k.id], finding[k.id])
  BY <1>5, <1>6, CallTypes DEF CallOK
<1> QED BY <1>2, <1>5, <1>7

LEMMA UndoSkipKeeps ==
  ASSUME IInv, NEW c \in Client, UndoSkip(c)
  PROVE  IInv'
<1>1. /\ UndoReported(c, "rollback_skipped")
      /\ UNCHANGED <<store, world, begun, faults>>
      /\ evidence' \in Seq(EvidenceRecord)
  BY DEF UndoSkip, IInv, TypeOK
<1>2. \E k \in Call : /\ call' = [call EXCEPT ![c] = k]
                      /\ k.id = call[c].id
                      /\ CallOK(k, runs[k.id], finding[k.id])
  BY <1>1, UndoReportedKeeps DEF UndoSkip
<1> QED BY <1>1, <1>2, LocalKeepsIInv

(* A rollback handler is called for a step the fresh approval names.         *)
LEMMA UndoCallKeeps ==
  ASSUME IInv, NEW c \in Client, UndoCall(c)
  PROVE  IInv'
<1> DEFINE id == call[c].id
          s  == call[c].run.results[call[c].i].step
<1>1. /\ call[c].pc = "undo" /\ call[c].i > 0
      /\ Undoable(call[c].run.results[call[c].i])
      /\ \E status \in {"rolled_back", "rollback_failed"} : UndoReported(c, status)
      /\ \E n \in {undone[id][s], undone[id][s] + 1} : undone' = [undone EXCEPT ![id][s] = n]
      /\ UNCHANGED <<store, evidence, applied, begun, faults>>
  <2>1. undone = [undone EXCEPT ![id][s] = undone[id][s]]
    BY CallTypes DEF IInv, TypeOK
  <2> QED BY <2>1 DEF UndoCall
<1>2. PICK k \in Call : /\ call' = [call EXCEPT ![c] = k]
                       /\ k.id = id
                       /\ CallOK(k, runs[k.id], finding[k.id])
  BY <1>1, UndoReportedKeeps DEF Undoable
<1>3. s \in Step /\ s \in RollbackSteps(call[c].run.results) /\ id \in RunId
  BY <1>1, UndoResult, CallTypes DEF Undoable
<1> HIDE DEF id, s
<1>4. /\ call' \in [Client -> Call] /\ call'[c] = k
      /\ \A d \in Client : d # c => call'[d] = call[d]
  BY <1>2 DEF IInv, TypeOK
<1>5. undone' \in [RunId -> [Step -> Nat]]
  BY <1>1, <1>3 DEF IInv, TypeOK
<1>6. /\ TypeOK' /\ AbsentOK' /\ UNCHANGED <<finding, runs>>
      /\ \A q \in RunId : Extends(runs[q], runs'[q])
  BY <1>1, <1>4, <1>5, NoSave DEF IInv, TypeOK, store
<1>7. /\ s \in RollbackSteps(runs[id].results)
      /\ \E a \in runs[id].approvals : s \in a.steps /\ InScope(a)
  <2>1. /\ RollbackSteps(call[c].run.results) \subseteq RollbackSteps(runs[id].results)
        /\ call[c].run.approvals \subseteq runs[id].approvals
        /\ call[c].grant \in call[c].run.approvals /\ InScope(call[c].grant)
        /\ call[c].grant.steps = RollbackSteps(call[c].run.results)
    BY <1>1, CallTypes DEF CallOK, Extends, id
  <2> QED BY <1>3, <2>1
<1>8. \A r \in RunId : \A t \in Step : undone'[r][t] # undone[r][t] => r = id /\ t = s
  BY <1>1, <1>3 DEF IInv, TypeOK
<1>9. CallOK(call'[c], runs'[call'[c].id], finding[call'[c].id])
  BY <1>2, <1>4, <1>6
<1> QED BY <1>1, <1>4, <1>6, <1>7, <1>8, <1>9, StepKeepsIInv

LEMMA UndoEvidenceKeeps ==
  ASSUME IInv, NEW c \in Client, UndoEvidence(c)
  PROVE  IInv'
<1> DEFINE res == [call[c].res EXCEPT !.evidence = Len(evidence) + 1]
          k   == [call[c] EXCEPT !.pc = "undo", !.i = call[c].i - 1, !.res = NoResult,
                                 !.report = Append(call[c].report, res)]
<1>1. /\ call[c].pc = "undo_called"
      /\ call' = [call EXCEPT ![c] = k] /\ UNCHANGED <<store, world, begun, faults>>
  BY DEF UndoEvidence
<1>2. evidence' \in Seq(EvidenceRecord)
  <2>1. call[c].res.step \in Step /\ call[c].res.status \in StepStatus
    BY CallTypes DEF StepResult
  <2> QED BY <2>1, WriteTypes DEF UndoEvidence
<1>3. Len(evidence) + 1 \in Nat
  BY DEF IInv, TypeOK
<1>4. res \in StepResult /\ res.step = call[c].res.step /\ res.status = call[c].res.status
  BY <1>3, CallTypes DEF StepResult
<1> HIDE DEF res
<1>5. /\ call[c].i - 1 \in Nat /\ call[c].i - 1 <= Len(call[c].run.results)
  <2>1. call[c].i > 0 /\ call[c].i <= Len(call[c].run.results)
    BY <1>1, CallTypes DEF CallOK
  <2>2. call[c].i \in Nat /\ call[c].run.results \in Seq(StepResult)
    BY CallTypes
  <2>3. Len(call[c].run.results) \in Nat
    BY <2>2
  <2> QED BY <2>1, <2>2, <2>3
<1>6. Append(call[c].report, res) \in Seq(StepResult)
  BY <1>4, CallTypes
<1>7. /\ k \in Call /\ k.id = call[c].id /\ k.run = call[c].run /\ k.pc = "undo"
      /\ k.i = call[c].i - 1 /\ k.grant = call[c].grant
      /\ k.report = Append(call[c].report, res)
  BY <1>5, <1>6, CallTypes, ConstantTypes DEF Call, PC
<1>8. ReportOK(Append(call[c].report, res), call[c].run, call[c].grant)
  <2>1. /\ ReportOK(call[c].report, call[c].run, call[c].grant)
        /\ ReportOK(<<call[c].res>>, call[c].run, call[c].grant)
        /\ call[c].report \in Seq(StepResult)
    BY <1>1, CallTypes DEF CallOK
  <2>2. /\ res.step \in Succeeded(call[c].run.results)
        /\ res.status \in {"rolled_back", "rollback_failed", "rollback_skipped"}
        /\ res.status # "rollback_skipped" => res.step \in call[c].grant.steps
    BY <1>4, <2>1 DEF ReportOK
  <2>3. \A j \in DOMAIN Append(call[c].report, res) :
          \/ j \in DOMAIN call[c].report
             /\ Append(call[c].report, res)[j] = call[c].report[j]
          \/ Append(call[c].report, res)[j] = res
    BY <2>1
  <2> QED BY <2>1, <2>2, <2>3 DEF ReportOK
<1> HIDE DEF k
<1>9. CallOK(k, runs[k.id], finding[k.id])
  BY <1>1, <1>5, <1>7, <1>8, CallTypes DEF CallOK
<1> QED BY <1>1, <1>2, <1>7, <1>9, LocalKeepsIInv

(* A new run takes an id that no call and no effect refers to.               *)
LEMMA ProposeKeeps ==
  ASSUME IInv, NEW r \in RunId, NEW f \in Finding, Propose(r, f)
  PROVE  IInv'
<1>1. /\ runs' = [runs EXCEPT ![r] = NewRun] /\ finding' = [finding EXCEPT ![r] = f]
      /\ playbooks' = playbooks \cup {r} /\ ~ (runs[r].version > 0)
      /\ UNCHANGED <<evidence, call, applied, undone, begun, faults>>
  BY DEF Propose, Exists, world
<1>2. NewRun \in Run /\ NewRun.version = 1
  BY ConstantTypes DEF NewRun, NoRun, Run
<1>3. TypeOK'
  BY <1>1, <1>2 DEF IInv, TypeOK
<1>4. \A q \in RunId : q # r => runs'[q] = runs[q] /\ finding'[q] = finding[q]
  BY <1>1 DEF IInv, TypeOK
<1>5. runs'[r] = NewRun
  BY <1>1 DEF IInv, TypeOK
<1>6. AbsentOK'
  BY <1>2, <1>4, <1>5 DEF IInv, AbsentOK
<1>7. CallsOK'
  <2> SUFFICES ASSUME NEW c \in Client
               PROVE  CallOK(call[c], runs'[call[c].id], finding'[call[c].id])
    BY <1>1 DEF CallsOK
  <2>1. CASE call[c].id = r
    <3>1. runs[r].version \in Nat /\ call[c].run.version \in Nat
      BY CallTypes DEF IInv, TypeOK, Run
    <3>2. call[c].pc # "idle" =>
            call[c].run.version > 0 /\ call[c].run.version <= runs[r].version
      BY <2>1, CallTypes DEF CallOK, Extends
    <3>3. call[c].pc = "idle"
      BY <1>1, <3>1, <3>2
    <3> QED BY <3>3 DEF CallOK
  <2>2. CASE call[c].id # r
    BY <1>4, <2>2, CallTypes
  <2> QED BY <2>1, <2>2
<1>8. AppliedOK'
  BY <1>1, <1>4 DEF IInv, AppliedOK
<1>9. UndoneOnlyIfGranted'
  <2>1. runs[r].results = <<>>
    <3>1. runs[r].version = 0
      BY <1>1 DEF IInv, TypeOK, Run
    <3> QED BY <3>1 DEF IInv, AbsentOK, NoRun
  <2>2. \A s \in Step : s \notin RollbackSteps(runs[r].results)
    BY <2>1 DEF RollbackSteps
  <2> QED BY <1>1, <1>4, <2>2 DEF IInv, UndoneOnlyIfGranted
<1> QED BY <1>3, <1>6, <1>7, <1>8, <1>9 DEF IInv

LEMMA RestartKeeps ==
  ASSUME IInv, Restart
  PROVE  IInv'
<1>1. /\ playbooks' = {} /\ call' = [c \in Client |-> NoCall] /\ faults' = faults + 1
      /\ UNCHANGED <<runs, finding, evidence, applied, undone, begun>>
  BY DEF Restart, world
<1>2. TypeOK'
  BY <1>1, ConstantTypes DEF IInv, TypeOK
<1>3. CallsOK'
  BY <1>1, ConstantTypes DEF CallsOK, CallOK
<1>4. AbsentOK' /\ AppliedOK' /\ UndoneOnlyIfGranted'
  BY <1>1 DEF IInv, AbsentOK, AppliedOK, UndoneOnlyIfGranted
<1> QED BY <1>2, <1>3, <1>4 DEF IInv

-----------------------------------------------------------------------------
(* The invariant of the engine.                                              *)
LEMMA Invariant == Spec => []IInv
<1>1. Init => IInv
  <2> SUFFICES ASSUME Init PROVE IInv
    OBVIOUS
  <2>1. TypeOK
    BY ConstantTypes DEF Init, TypeOK, Finding
  <2>2. AbsentOK /\ CallsOK /\ AppliedOK /\ UndoneOnlyIfGranted
    BY ConstantTypes DEF Init, AbsentOK, CallsOK, CallOK, AppliedOK, UndoneOnlyIfGranted
  <2> QED BY <2>1, <2>2 DEF IInv
<1>2. IInv /\ [Next]_vars => IInv'
  <2> SUFFICES ASSUME IInv, [Next]_vars PROVE IInv'
    OBVIOUS
  <2>1. CASE UNCHANGED vars
    BY <2>1 DEF vars, IInv, TypeOK, AbsentOK, CallsOK, AppliedOK, UndoneOnlyIfGranted
  <2>2. ASSUME NEW r \in RunId, NEW f \in Finding, Propose(r, f)
        PROVE  IInv'
    BY <2>2, ProposeKeeps
  <2>3. ASSUME NEW c \in Client, Ask(c)
        PROVE  IInv'
    BY <2>3, AskKeepsIInv
  <2>4. ASSUME NEW c \in Client, Continue(c)
        PROVE  IInv'
    <3>1. CASE SimulateEnd(c) \/ ApproveEnd(c) \/ HaltEnd(c)
               \/ RecordFailure(c) \/ Complete(c) \/ RollbackEnd(c)
      BY <3>1, FinalWrites
    <3>2. CASE Conflict(c) \/ RollbackRefused(c) \/ \E s \in Step : ExecuteRefused(c, s)
      BY <3>2, Refusals
    <3>3. CASE \E s \in Step : CallHandler(c, s)
      BY <3>3, CallHandlerKeeps
    <3>4. CASE RecordEvidence(c)
      BY <3>4, RecordEvidenceKeeps
    <3>5. CASE RecordSuccess(c)
      BY <3>5, RecordSuccessKeeps
    <3>6. CASE RollbackGrant(c)
      BY <3>6, RollbackGrantKeeps
    <3>7. CASE UndoNext(c)
      BY <3>7, UndoNextKeeps
    <3>8. CASE UndoSkip(c)
      BY <3>8, UndoSkipKeeps
    <3>9. CASE UndoEvidence(c)
      BY <3>9, UndoEvidenceKeeps
    <3> QED BY <2>4, <3>1, <3>2, <3>3, <3>4, <3>5, <3>6, <3>7, <3>8, <3>9 DEF Continue
  <2>5. ASSUME NEW c \in Client, ExecuteReturns(c)
        PROVE  IInv'
    BY <2>5, HandlerKeeps
  <2>6. ASSUME NEW c \in Client, SimulateStep(c)
        PROVE  IInv'
    BY <2>6, SimulateStepKeeps
  <2>7. ASSUME NEW c \in Client, UndoCall(c)
        PROVE  IInv'
    BY <2>7, UndoCallKeeps
  <2>8. ASSUME NEW c \in Client, Interrupt(c)
        PROVE  IInv'
    BY <2>8, Refusals
  <2>9. CASE Restart
    BY <2>9, RestartKeeps
  <2> QED BY <2>1, <2>2, <2>3, <2>4, <2>5, <2>6, <2>7, <2>8, <2>9 DEF Next
<1> QED BY <1>1, <1>2, PTL DEF Spec

(* The engine is type correct: every stored run, evidence record and         *)
(* coroutine local has its declared type, whatever the instance.             *)
THEOREM TypeCorrect == Spec => []TypeOK
<1>1. IInv => TypeOK
  BY DEF IInv
<1> QED BY <1>1, Invariant, PTL

(* The version check makes every coroutine's copy an earlier state of the    *)
(* stored run, and the stored run itself when the versions agree.            *)
THEOREM CopiesConsistent == Spec => []CopiesAreConsistent
<1>1. IInv => CopiesAreConsistent
  <2> SUFFICES ASSUME IInv, NEW c \in Client, Active(c)
               PROVE  LET copy == call[c].run  stored == runs[call[c].id] IN
                      /\ copy.version \in 1 .. stored.version
                      /\ copy.version = stored.version => copy = stored
                      /\ copy.approvals \subseteq stored.approvals
                      /\ Succeeded(copy.results) \subseteq Succeeded(stored.results)
    BY DEF CopiesAreConsistent
  <2>1. call[c].run.version \in Nat /\ runs[call[c].id].version \in Nat
    BY CallTypes DEF Run
  <2>2. Extends(call[c].run, runs[call[c].id]) /\ call[c].run.version > 0
    BY CallTypes DEF CallOK, Active
  <2> QED BY <2>1, <2>2 DEF Extends
<1> QED BY <1>1, Invariant, PTL

(* No gated action of any playbook takes effect without a human approval     *)
(* that the run holds, nor any action of a run that may only be proposed.    *)
THEOREM EffectsAreAuthorized == Spec => []EffectsAuthorized
<1>1. IInv => EffectsAuthorized
  <2> SUFFICES ASSUME IInv, NEW r \in RunId, NEW s \in Step, applied[r][s] > 0
               PROVE  /\ finding[r].eligibility # "none"
                      /\ Verdicts[s] \ {"deny"} # {}
                      /\ RequiresApproval(s, finding[r]) => Approved(s, runs[r].approvals)
    BY DEF EffectsAuthorized
  <2>1. Cleared(s, finding[r], runs[r].approvals)
    BY DEF IInv, AppliedOK
  <2> QED BY <2>1 DEF Cleared, MayExecute
<1> QED BY <1>1, Invariant, PTL

(* Only recorded reversible successes are rolled back, under an approval.    *)
THEOREM UndoneIsGranted == Spec => []UndoneOnlyIfGranted
<1>1. IInv => UndoneOnlyIfGranted
  BY DEF IInv
<1> QED BY <1>1, Invariant, PTL

-----------------------------------------------------------------------------
(***************************************************************************)
(* The audit trail.  Each result of the run r cites a record of its own,   *)
(* in the evidence ev.                                                     *)
(***************************************************************************)
CitesOK(results, r, ev) ==
  \A i \in DOMAIN results :
    /\ results[i].evidence \in DOMAIN ev
    /\ ev[results[i].evidence] = [id |-> r, step |-> results[i].step, status |-> results[i].status]
    /\ \A j \in DOMAIN results : results[i].evidence = results[j].evidence => i = j

\* What coroutine k holds, with what it is about to add to it
CallCites(k, ev) ==
  k.pc # "idle" =>
    /\ CitesOK(k.run.results \o k.report, k.id, ev)
    /\ k.pc = "record" => CitesOK(Append(k.run.results, k.res), k.id, ev)

StoredCites == \A r \in RunId : CitesOK(runs[r].results, r, evidence)
CallsCite   == \A c \in Client : CallCites(call[c], evidence)

\* At any time finitely many calls are in progress.
Calling == {c \in Client : Active(c)}

AuditInv == IInv /\ StoredCites /\ CallsCite /\ EffectsAudited /\ IsFiniteSet(Calling)

\* Records are only ever added, one at a time.
EvidenceGrows == evidence' = evidence \/ \E e \in EvidenceRecord : evidence' = Append(evidence, e)

LEMMA CitesKept ==
  ASSUME NEW ev \in Seq(EvidenceRecord), NEW e \in EvidenceRecord, NEW results, NEW r,
         CitesOK(results, r, ev)
  PROVE  CitesOK(results, r, Append(ev, e))
<1>1. \A n \in DOMAIN ev : n \in DOMAIN Append(ev, e) /\ Append(ev, e)[n] = ev[n]
  OBVIOUS
<1> QED BY <1>1 DEF CitesOK

\* A result that cites the record just added
LEMMA CitesAppended ==
  ASSUME NEW ev \in Seq(EvidenceRecord), NEW results \in Seq(StepResult), NEW r \in RunId,
         NEW res \in StepResult, CitesOK(results, r, ev), res.evidence = Len(ev) + 1,
         NEW new \in Seq(EvidenceRecord),
         new = Append(ev, [id |-> r, step |-> res.step, status |-> res.status])
  PROVE  CitesOK(Append(results, res), r, new)
<1> DEFINE more == Append(results, res)
           e == [id |-> r, step |-> res.step, status |-> res.status]
<1>1. e \in EvidenceRecord
  BY DEF EvidenceRecord, StepResult
<1>2. new[Len(ev) + 1] = e /\ Len(ev) + 1 \in DOMAIN new /\ Len(ev) + 1 \notin DOMAIN ev
  <2> HIDE DEF e
  <2> QED BY <1>1 DEF e
<1>3. CitesOK(results, r, new)
  BY <1>1, CitesKept
<1>4. /\ Len(results) \in Nat /\ more[Len(results) + 1] = res
      /\ DOMAIN more = DOMAIN results \cup {Len(results) + 1}
      /\ \A i \in DOMAIN results : more[i] = results[i]
      /\ Len(results) + 1 \notin DOMAIN results
  OBVIOUS
<1>5. \A i \in DOMAIN results : results[i].evidence # res.evidence
  BY <1>2 DEF CitesOK
<1> HIDE DEF more, e
<1> QED
  <2> SUFFICES ASSUME NEW i \in DOMAIN more
               PROVE  /\ more[i].evidence \in DOMAIN new
                      /\ new[more[i].evidence] = [id |-> r, step |-> more[i].step, status |-> more[i].status]
                      /\ \A j \in DOMAIN more : more[i].evidence = more[j].evidence => i = j
    BY DEF CitesOK, more
  <2>1. CASE i \in DOMAIN results
    BY <2>1, <1>3, <1>4, <1>5 DEF CitesOK
  <2>2. CASE i = Len(results) + 1
    BY <2>2, <1>2, <1>4, <1>5 DEF e
  <2> QED BY <2>1, <2>2, <1>4

LEMMA CitesFirst ==
  ASSUME NEW results \in Seq(StepResult), NEW more \in Seq(StepResult), NEW r, NEW ev,
         CitesOK(results \o more, r, ev)
  PROVE  CitesOK(results, r, ev)
<1>1. \A i \in DOMAIN results : i \in DOMAIN (results \o more) /\ (results \o more)[i] = results[i]
  OBVIOUS
<1> QED BY <1>1 DEF CitesOK

LEMMA EmptyReport ==
  ASSUME NEW results \in Seq(StepResult)
  PROVE  results \o <<>> = results
OBVIOUS

LEMMA ReportAppended ==
  ASSUME NEW results \in Seq(StepResult), NEW report \in Seq(StepResult), NEW res \in StepResult
  PROVE  results \o Append(report, res) = Append(results \o report, res)
OBVIOUS

(* What a step of one coroutine owes the citations.                          *)
LEMMA CitesStep ==
  ASSUME AuditInv, NEW c \in Client,
         \A d \in Client : d # c => call'[d] = call[d],
         EvidenceGrows,
         \A r \in RunId : \/ runs'[r].results = runs[r].results
                          \/ CitesOK(runs'[r].results, r, evidence'),
         CallCites(call'[c], evidence')
  PROVE  StoredCites' /\ CallsCite'
<1>1. \A results, r : CitesOK(results, r, evidence) => CitesOK(results, r, evidence')
  <2>1. evidence \in Seq(EvidenceRecord)
    BY DEF AuditInv, IInv, TypeOK
  <2> QED BY <2>1, CitesKept DEF EvidenceGrows
<1>2. StoredCites'
  BY <1>1 DEF AuditInv, StoredCites
<1>3. \A k : CallCites(k, evidence) => CallCites(k, evidence')
  BY <1>1 DEF CallCites
<1>4. CallsCite'
  BY <1>3 DEF AuditInv, CallsCite
<1> QED BY <1>2, <1>4

LEMMA CallingStep ==
  ASSUME IsFiniteSet(Calling), NEW c \in Client, \A d \in Client : d # c => call'[d] = call[d]
  PROVE  IsFiniteSet(Calling')
<1>1. Calling' \subseteq Calling \cup {c}
  BY DEF Calling, Active
<1>2. IsFiniteSet(Calling \cup {c})
  BY FS_AddElement
<1> QED BY <1>1, <1>2, FS_Subset

LEMMA AuditFinite ==
  ASSUME AuditInv, NEW r \in RunId, NEW s \in Step
  PROVE  /\ IsFiniteSet(EvidenceOf(r, s)) /\ IsFiniteSet(AwaitingEvidence(r, s))
         /\ Cardinality(EvidenceOf(r, s)) \in Nat /\ Cardinality(AwaitingEvidence(r, s)) \in Nat
<1>1. EvidenceOf(r, s) \subseteq 1 .. Len(evidence) /\ Len(evidence) \in Int
  BY DEF AuditInv, IInv, TypeOK, EvidenceOf
<1>2. AwaitingEvidence(r, s) \subseteq Calling /\ IsFiniteSet(Calling)
  BY DEF AuditInv, AwaitingEvidence, Calling, Active
<1>3. IsFiniteSet(1 .. Len(evidence))
  BY <1>1, FS_Interval
<1>4. IsFiniteSet(EvidenceOf(r, s)) /\ IsFiniteSet(AwaitingEvidence(r, s))
  BY <1>1, <1>2, <1>3, FS_Subset
<1> QED BY <1>4, FS_CardinalityType

\* The records of an action stay where they are.
LEMMA EvidenceOfGrows ==
  ASSUME AuditInv, EvidenceGrows, NEW r \in RunId, NEW s \in Step
  PROVE  /\ EvidenceOf(r, s) \subseteq EvidenceOf(r, s)'
         /\ IsFiniteSet(EvidenceOf(r, s)')
         /\ Cardinality(EvidenceOf(r, s)') \in Nat
         /\ Cardinality(EvidenceOf(r, s)) <= Cardinality(EvidenceOf(r, s)')
<1>1. evidence \in Seq(EvidenceRecord) /\ evidence' \in Seq(EvidenceRecord)
  <2>1. evidence \in Seq(EvidenceRecord)
    BY DEF AuditInv, IInv, TypeOK
  <2>2. \A e \in EvidenceRecord : Append(evidence, e) \in Seq(EvidenceRecord)
    BY <2>1
  <2> QED BY <2>1, <2>2 DEF EvidenceGrows
<1>2. \A n \in DOMAIN evidence : n \in DOMAIN evidence' /\ evidence'[n] = evidence[n]
  BY <1>1 DEF EvidenceGrows
<1>3. EvidenceOf(r, s) \subseteq EvidenceOf(r, s)'
  BY <1>2 DEF EvidenceOf
<1>4. EvidenceOf(r, s)' \subseteq 1 .. Len(evidence') /\ Len(evidence') \in Int
  BY <1>1 DEF EvidenceOf
<1>5. IsFiniteSet(EvidenceOf(r, s)')
  <2>1. IsFiniteSet(1 .. Len(evidence'))
    BY <1>4, FS_Interval
  <2> QED BY <1>4, <2>1, FS_Subset
<1> QED BY <1>3, <1>5, FS_Subset, FS_CardinalityType

(* A step of a coroutine that neither calls a handler nor holds a result     *)
(* without evidence.                                                         *)
LEMMA QuietAudit ==
  ASSUME AuditInv, NEW c \in Client,
         \A d \in Client : d # c => call'[d] = call[d],
         EvidenceGrows, UNCHANGED applied, faults' \in {faults, faults + 1},
         call[c].pc # "executed" \/ faults' # faults, call'[c].pc # "executed"
  PROVE  EffectsAudited'
<1> SUFFICES ASSUME faults' = 0, NEW r \in RunId, NEW s \in Step
             PROVE  applied[r][s] <= Cardinality(EvidenceOf(r, s)') + Cardinality(AwaitingEvidence(r, s)')
  BY DEF EffectsAudited
<1>1. faults = 0 /\ call[c].pc # "executed"
  BY DEF AuditInv, IInv, TypeOK
<1>2. AwaitingEvidence(r, s)' = AwaitingEvidence(r, s)
  BY <1>1 DEF AwaitingEvidence
<1>3. applied[r][s] <= Cardinality(EvidenceOf(r, s)) + Cardinality(AwaitingEvidence(r, s))
  BY <1>1 DEF AuditInv, EffectsAudited
<1>4. applied[r][s] \in Nat
  BY DEF AuditInv, IInv, TypeOK
<1> QED BY <1>2, <1>3, <1>4, AuditFinite, EvidenceOfGrows

(* Together, for the steps that reach no handler.                            *)
LEMMA AuditStep ==
  ASSUME AuditInv, IInv', NEW c \in Client,
         \A d \in Client : d # c => call'[d] = call[d],
         EvidenceGrows, UNCHANGED applied, UNCHANGED faults,
         call[c].pc # "executed", call'[c].pc # "executed",
         \A r \in RunId : \/ runs'[r].results = runs[r].results
                          \/ CitesOK(runs'[r].results, r, evidence'),
         CallCites(call'[c], evidence')
  PROVE  AuditInv'
<1>1. StoredCites' /\ CallsCite'
  BY CitesStep
<1>2. IsFiniteSet(Calling')
  BY CallingStep DEF AuditInv
<1>3. EffectsAudited'
  <2>1. faults' \in {faults, faults + 1}
    OBVIOUS
  <2> QED BY <2>1, QuietAudit
<1> QED BY <1>1, <1>2, <1>3 DEF AuditInv

\* A call that begins holds what the stored run cites.
LEMMA AskAudited ==
  ASSUME AuditInv, NEW c \in Client, Ask(c)
  PROVE  AuditInv'
<1>1. PICK r \in RunId : \/ SimulateBegin(c, r)
                        \/ HaltBegin(c, r)
                        \/ ExecuteBegin(c, r)
                        \/ \E a \in Approval : ApproveBegin(c, r, a) \/ RollbackBegin(c, r, a)
  BY DEF Ask
<1>2. UNCHANGED <<store, evidence, world, faults>>
  BY <1>1 DEF SimulateBegin, HaltBegin, ExecuteBegin, ApproveBegin, RollbackBegin
<1>3. PICK pc \in {"simulate", "halt", "execute", "approve", "rollback"},
           i \in Nat, grant \in Approval : Begin(c, r, pc, i, grant)
  BY <1>1, ConstantTypes
     DEF SimulateBegin, HaltBegin, ExecuteBegin, ApproveBegin, RollbackBegin
<1>4. IInv /\ IInv'
  BY AskKeepsIInv DEF AuditInv
<1>5. pc \in PC
  BY DEF PC
<1>6. /\ call[c].pc = "idle"
      /\ \A d \in Client : d # c => call'[d] = call[d]
      /\ call'[c].pc = pc /\ call'[c].id = r /\ call'[c].report = <<>> /\ call'[c].run = runs[r]
      /\ runs[r].results \in Seq(StepResult)
  <2>1. /\ \A d \in Client : d # c => call'[d] = call[d]
        /\ call'[c].pc = pc /\ call'[c].id = r /\ call'[c].report = <<>> /\ call'[c].run = runs[r]
        /\ runs[r] \in Run
    BY <1>3, <1>4, <1>5, BeginStep
  <2> QED BY <1>3, <2>1 DEF Begin, Run
<1>7. CallCites(call'[c], evidence)
  BY <1>6, EmptyReport DEF CallCites, AuditInv, StoredCites
<1>8. UNCHANGED <<runs, evidence, applied, faults>> /\ EvidenceGrows
  BY <1>2 DEF store, world, EvidenceGrows
<1> QED BY <1>4, <1>6, <1>7, <1>8, AuditStep

\* A call that ends, whatever it has stored
LEMMA EndAudited ==
  ASSUME AuditInv, IInv', NEW c \in Client, call' = Ended(c),
         UNCHANGED <<evidence, applied>>,
         \/ UNCHANGED faults /\ call[c].pc # "executed"
         \/ faults' = faults + 1,
         \A r \in RunId : \/ runs'[r].results = runs[r].results
                          \/ CitesOK(runs'[r].results, r, evidence)
  PROVE  AuditInv'
<1>1. TypeOK /\ EvidenceGrows
  BY DEF AuditInv, IInv, EvidenceGrows
<1>2. (\A d \in Client : d # c => call'[d] = call[d]) /\ call'[c].pc = "idle"
  BY <1>1, EndedStep, ConstantTypes
<1>3. CallCites(call'[c], evidence')
  BY <1>2 DEF CallCites
<1>4. StoredCites' /\ CallsCite'
  BY <1>1, <1>2, <1>3, CitesStep
<1>5. IsFiniteSet(Calling')
  BY <1>2, CallingStep DEF AuditInv
<1>6. faults' \in {faults, faults + 1} /\ (call[c].pc # "executed" \/ faults' # faults)
  BY <1>1 DEF TypeOK
<1>7. EffectsAudited'
  BY <1>1, <1>2, <1>6, QuietAudit
<1> QED BY <1>4, <1>5, <1>7 DEF AuditInv

LEMMA RefusalsAudited ==
  ASSUME AuditInv, NEW c \in Client,
         \/ Conflict(c) \/ RollbackRefused(c) \/ Interrupt(c)
         \/ \E s \in Step : ExecuteRefused(c, s)
  PROVE  AuditInv'
<1>1. IInv'
  BY Refusals DEF AuditInv
<1>2. /\ call' = Ended(c) /\ UNCHANGED <<runs, evidence, applied>>
      /\ \/ UNCHANGED faults /\ call[c].pc # "executed"
         \/ faults' = faults + 1
  BY DEF Conflict, RollbackRefused, Interrupt, ExecuteRefused, Due, store, world
<1> QED BY <1>1, <1>2, EndAudited

\* What each final write stores is what the call held, or one result more.
LEMMA FinalResults ==
  ASSUME AuditInv, NEW c \in Client,
         \/ SimulateEnd(c) \/ ApproveEnd(c) \/ HaltEnd(c)
         \/ RecordFailure(c) \/ Complete(c) \/ RollbackEnd(c)
  PROVE  \E run : /\ runs' = [runs EXCEPT ![call[c].id] = run]
                  /\ CitesOK(run.results, call[c].id, evidence)
<1> DEFINE k == call[c]
<1>1. /\ k.run \in Run /\ k.run.results \in Seq(StepResult) /\ k.report \in Seq(StepResult)
  BY CallTypes DEF AuditInv
<1>2. k.pc # "idle" /\ CallCites(k, evidence)
  BY DEF SimulateEnd, ApproveEnd, HaltEnd, RecordFailure, Complete, RollbackEnd, AuditInv, CallsCite
<1>3. CitesOK(k.run.results, k.id, evidence)
  BY <1>1, <1>2, CitesFirst DEF CallCites
<1>4. CASE SimulateEnd(c) \/ ApproveEnd(c) \/ HaltEnd(c) \/ Complete(c)
  <2> DEFINE f == finding[k.id]
             Written == {Simulated(k.run, f), WithApproval(k.run, f, k.grant), Halted(k.run), Completed(k.run)}
  <2>1. \E run \in Written : runs' = [runs EXCEPT ![k.id] = NextVersion(run)]
    BY <1>4 DEF SimulateEnd, ApproveEnd, HaltEnd, Complete, Save
  <2>2. \A run \in Written : NextVersion(run).results = k.run.results
    BY <1>1 DEF Run, Simulated, WithApproval, Halted, Completed, NextVersion
  <2> QED BY <1>3, <2>1, <2>2
<1>5. CASE RecordFailure(c)
  <2> DEFINE run == NextVersion(WithFailure(k.run, k.res))
  <2>1. runs' = [runs EXCEPT ![k.id] = run] /\ k.pc = "record"
    BY <1>5 DEF RecordFailure, Save
  <2>2. run.results = Append(k.run.results, k.res)
    BY <1>1 DEF Run, WithFailure, NextVersion
  <2> HIDE DEF run
  <2> QED BY <1>2, <2>1, <2>2 DEF CallCites
<1>6. CASE RollbackEnd(c)
  <2> DEFINE run == NextVersion(RolledBack(k.run, k.report))
  <2>1. runs' = [runs EXCEPT ![k.id] = run]
    BY <1>6 DEF RollbackEnd, Save
  <2>2. run.results = k.run.results \o k.report
    BY <1>1 DEF Run, RolledBack, NextVersion
  <2> HIDE DEF run
  <2> QED BY <1>2, <2>1, <2>2 DEF CallCites
<1> QED BY <1>4, <1>5, <1>6

LEMMA FinalAudited ==
  ASSUME AuditInv, NEW c \in Client,
         \/ SimulateEnd(c) \/ ApproveEnd(c) \/ HaltEnd(c)
         \/ RecordFailure(c) \/ Complete(c) \/ RollbackEnd(c)
  PROVE  AuditInv'
<1>1. IInv'
  BY FinalWrites DEF AuditInv
<1>2. /\ call' = Ended(c) /\ UNCHANGED <<evidence, applied, faults>> /\ call[c].pc # "executed"
  BY DEF SimulateEnd, ApproveEnd, HaltEnd, RecordFailure, Complete, RollbackEnd, world
<1>3. PICK run : /\ runs' = [runs EXCEPT ![call[c].id] = run]
                 /\ CitesOK(run.results, call[c].id, evidence)
  BY FinalResults
<1>4. \A r \in RunId : \/ runs'[r].results = runs[r].results
                       \/ CitesOK(runs'[r].results, r, evidence)
  <2>1. runs \in [RunId -> Run]
    BY DEF AuditInv, IInv, TypeOK
  <2> QED BY <1>3, <2>1
<1> QED BY <1>1, <1>2, <1>4, EndAudited

\* A step that changes locals and neither results, evidence nor effects
LEMMA LocalAudited ==
  ASSUME AuditInv, IInv', NEW c \in Client, NEW k, call' = [call EXCEPT ![c] = k],
         call[c].pc \notin {"idle", "executed"}, k.pc \notin {"record", "executed"},
         k.id = call[c].id, k.run = call[c].run, k.report = call[c].report,
         EvidenceGrows, UNCHANGED <<runs, applied, faults>>
  PROVE  AuditInv'
<1>1. (\A d \in Client : d # c => call'[d] = call[d]) /\ call'[c] = k
  BY DEF AuditInv, IInv, TypeOK
<1>2. CitesOK(k.run.results \o k.report, k.id, evidence)
  BY DEF AuditInv, CallsCite, CallCites
<1>3. CitesOK(k.run.results \o k.report, k.id, evidence')
  <2>1. evidence \in Seq(EvidenceRecord)
    BY DEF AuditInv, IInv, TypeOK
  <2> QED BY <1>2, <2>1, CitesKept DEF EvidenceGrows
<1>4. CallCites(call'[c], evidence')
  BY <1>1, <1>3 DEF CallCites
<1> QED BY <1>1, <1>4, AuditStep

LEMMA WriteGrows ==
  ASSUME IInv, NEW c \in Client, NEW s \in Step,
         NEW status \in StepStatus \cup {"simulated"}, Write(c, s, status)
  PROVE  /\ EvidenceGrows
         /\ evidence \in Seq(EvidenceRecord) /\ evidence' \in Seq(EvidenceRecord)
         /\ evidence' = Append(evidence, [id |-> call[c].id, step |-> s, status |-> status])
<1>1. [id |-> call[c].id, step |-> s, status |-> status] \in EvidenceRecord
  BY CallTypes DEF EvidenceRecord
<1>2. evidence \in Seq(EvidenceRecord) /\ evidence' \in Seq(EvidenceRecord)
  BY WriteTypes DEF IInv, TypeOK
<1> QED BY <1>1, <1>2 DEF Write, EvidenceGrows

LEMMA SimulateStepAudited ==
  ASSUME AuditInv, NEW c \in Client, SimulateStep(c)
  PROVE  AuditInv'
<1> DEFINE k == [call[c] EXCEPT !.i = @ + 1]
<1>1. IInv /\ IInv'
  BY SimulateStepKeeps DEF AuditInv
<1>2. k.id = call[c].id /\ k.run = call[c].run /\ k.report = call[c].report /\ k.pc = "simulate"
  BY <1>1, CallTypes DEF Call, SimulateStep
<1>3. call[c].i \in Step
  <2>1. call[c].i > 0 /\ call[c].i <= StepCount /\ call[c].i \in Nat
    BY <1>1, CallTypes DEF SimulateStep, CallOK
  <2> QED BY <2>1, RulesAssumption DEF Step
<1>4. call' = [call EXCEPT ![c] = k] /\ call[c].pc = "simulate" /\ UNCHANGED <<runs, applied, faults>>
  BY DEF SimulateStep, store, world
<1>5. EvidenceGrows
  BY <1>1, <1>3, WriteGrows DEF SimulateStep
<1> HIDE DEF k
<1> QED BY <1>1, <1>2, <1>4, <1>5, LocalAudited

LEMMA MovesAudited ==
  ASSUME AuditInv, NEW c \in Client,
         \/ UndoNext(c) \/ UndoSkip(c) \/ UndoCall(c)
         \/ \E s \in Step : CallHandler(c, s)
  PROVE  AuditInv'
<1>1. IInv /\ IInv'
  BY UndoNextKeeps, UndoSkipKeeps, UndoCallKeeps, CallHandlerKeeps DEF AuditInv
<1>2. UNCHANGED <<runs, evidence, applied, faults>> /\ call[c].pc \notin {"idle", "executed"}
  BY DEF UndoNext, UndoSkip, UndoCall, CallHandler, store, world
<1>3. PICK k : /\ call' = [call EXCEPT ![c] = k]
             /\ k.id = call[c].id /\ k.run = call[c].run /\ k.report = call[c].report
             /\ k.pc \notin {"record", "executed"}
  <2>1. CASE UndoNext(c)
    <3> DEFINE k == [call[c] EXCEPT !.i = @ - 1]
    <3>1. call' = [call EXCEPT ![c] = k]
      BY <2>1 DEF UndoNext
    <3>2. k.id = call[c].id /\ k.run = call[c].run /\ k.report = call[c].report /\ k.pc = "undo"
      BY <1>1, <2>1, CallTypes DEF Call, UndoNext
    <3> HIDE DEF k
    <3> QED BY <3>1, <3>2
  <2>2. CASE \E s \in Step : CallHandler(c, s)
    <3>1. PICK s \in Step : CallHandler(c, s)
      BY <2>2
    <3> DEFINE k == [call[c] EXCEPT !.pc = "calling", !.i = s]
    <3>2. call' = [call EXCEPT ![c] = k]
      BY <3>1 DEF CallHandler
    <3>3. k.id = call[c].id /\ k.run = call[c].run /\ k.report = call[c].report /\ k.pc = "calling"
      BY <1>1, CallTypes DEF Call
    <3> HIDE DEF k
    <3> QED BY <3>2, <3>3
  <2>3. CASE UndoSkip(c) \/ UndoCall(c)
    <3>1. PICK status : UndoReported(c, status)
      BY <2>3 DEF UndoSkip, UndoCall
    <3> DEFINE res == [NoResult EXCEPT !.step = call[c].run.results[call[c].i].step, !.status = status]
               k == [call[c] EXCEPT !.pc = "undo_called", !.res = res]
    <3>2. call' = [call EXCEPT ![c] = k]
      BY <3>1 DEF UndoReported
    <3> HIDE DEF res
    <3>3. k.id = call[c].id /\ k.run = call[c].run /\ k.report = call[c].report /\ k.pc = "undo_called"
      BY <1>1, CallTypes DEF Call
    <3> HIDE DEF k
    <3> QED BY <3>2, <3>3
  <2> QED BY <2>1, <2>2, <2>3
<1>4. EvidenceGrows
  BY <1>2 DEF EvidenceGrows
<1> QED BY <1>1, <1>2, <1>3, <1>4, LocalAudited

\* The result of an undone step joins the report with its evidence.
LEMMA UndoEvidenceAudited ==
  ASSUME AuditInv, NEW c \in Client, UndoEvidence(c)
  PROVE  AuditInv'
<1> DEFINE res == [call[c].res EXCEPT !.evidence = Len(evidence) + 1]
           k   == [call[c] EXCEPT !.pc = "undo", !.i = call[c].i - 1, !.res = NoResult,
                                  !.report = Append(call[c].report, res)]
           all == call[c].run.results \o call[c].report
<1>1. IInv /\ IInv'
  BY UndoEvidenceKeeps DEF AuditInv
<1>2. /\ call[c].pc = "undo_called" /\ Write(c, call[c].res.step, call[c].res.status)
      /\ call' = [call EXCEPT ![c] = k] /\ UNCHANGED <<runs, applied, faults>>
  BY DEF UndoEvidence, store, world
<1>3. /\ call[c].res.step \in Step /\ call[c].res.status \in StepStatus
      /\ call[c].run.results \in Seq(StepResult) /\ call[c].report \in Seq(StepResult)
      /\ call[c].id \in RunId
  BY <1>1, CallTypes DEF StepResult
<1>4. /\ EvidenceGrows
      /\ evidence \in Seq(EvidenceRecord) /\ evidence' \in Seq(EvidenceRecord)
      /\ evidence' = Append(evidence, [id |-> call[c].id, step |-> call[c].res.step,
                                       status |-> call[c].res.status])
  BY <1>1, <1>2, <1>3, WriteGrows
<1>5. /\ res \in StepResult /\ res.step = call[c].res.step /\ res.status = call[c].res.status
      /\ res.evidence = Len(evidence) + 1
  <2>1. Len(evidence) + 1 \in Nat
    BY <1>4
  <2> QED BY <1>1, <2>1, CallTypes DEF StepResult
<1> HIDE DEF res
<1>6. /\ k.id = call[c].id /\ k.run = call[c].run /\ k.pc = "undo"
      /\ k.report = Append(call[c].report, res)
  BY <1>1, CallTypes DEF Call
<1>7. /\ CitesOK(all, call[c].id, evidence) /\ all \in Seq(StepResult)
      /\ call[c].run.results \o Append(call[c].report, res) = Append(all, res)
  <2>1. CitesOK(all, call[c].id, evidence)
    BY <1>2 DEF AuditInv, CallsCite, CallCites
  <2>2. all \in Seq(StepResult)
    BY <1>3
  <2>3. call[c].run.results \o Append(call[c].report, res) = Append(all, res)
    BY <1>3, <1>5, ReportAppended
  <2> QED BY <2>1, <2>2, <2>3
<1>8. (\A d \in Client : d # c => call'[d] = call[d]) /\ call'[c] = k
  BY <1>1, <1>2 DEF IInv, TypeOK
<1> HIDE DEF k, all
<1>9. CitesOK(Append(all, res), call[c].id, evidence')
  BY <1>3, <1>4, <1>5, <1>7, CitesAppended
<1>10. CallCites(call'[c], evidence')
  BY <1>6, <1>7, <1>8, <1>9 DEF CallCites
<1> QED BY <1>1, <1>2, <1>4, <1>6, <1>8, <1>10, AuditStep

\* The writes after which the call goes on with what it has stored
LEMMA SavesAudited ==
  ASSUME AuditInv, NEW c \in Client, RecordSuccess(c) \/ RollbackGrant(c)
  PROVE  AuditInv'
<1>1. IInv /\ IInv'
  BY RecordSuccessKeeps, RollbackGrantKeeps DEF AuditInv
<1>2. /\ call[c].run \in Run /\ call[c].run.results \in Seq(StepResult) /\ call[c].id \in RunId
      /\ call[c].report \in Seq(StepResult) /\ runs \in [RunId -> Run]
      /\ CallCites(call[c], evidence)
  BY <1>1, CallTypes DEF AuditInv, CallsCite, IInv, TypeOK
<1>3. /\ call[c].pc \in {"record", "rollback"} /\ UNCHANGED <<evidence, applied, faults>>
      /\ EvidenceGrows
  BY DEF RecordSuccess, RollbackGrant, world, EvidenceGrows
<1>4. PICK k, run :
        /\ call' = [call EXCEPT ![c] = k] /\ runs' = [runs EXCEPT ![call[c].id] = run]
        /\ k.pc \in {"execute", "undo"} /\ k.id = call[c].id /\ k.run = run /\ k.report = <<>>
        /\ run.results \in Seq(StepResult) /\ CitesOK(run.results, call[c].id, evidence)
  <2>1. CASE RecordSuccess(c)
    <3> DEFINE run == NextVersion(WithSuccess(call[c].run, call[c].res))
               k   == [NoCall EXCEPT !.pc = "execute", !.id = call[c].id, !.run = run]
    <3>1. /\ call' = [call EXCEPT ![c] = k] /\ runs' = [runs EXCEPT ![call[c].id] = run]
          /\ call[c].pc = "record"
      BY <2>1 DEF RecordSuccess, Save
    <3>2. run.results = Append(call[c].run.results, call[c].res)
      BY <1>2 DEF Run, WithSuccess, NextVersion
    <3> HIDE DEF run
    <3>3. k.pc = "execute" /\ k.id = call[c].id /\ k.run = run /\ k.report = <<>>
      BY DEF NoCall
    <3>4. run.results \in Seq(StepResult)
      BY <1>1, <1>2, <3>2, CallTypes
    <3> HIDE DEF k
    <3> QED BY <1>2, <3>1, <3>2, <3>3, <3>4 DEF CallCites
  <2>2. CASE RollbackGrant(c)
    <3> DEFINE run == NextVersion(RollbackGranted(call[c].run, call[c].grant))
               k   == [call[c] EXCEPT !.pc = "undo", !.run = run, !.i = Len(run.results)]
    <3>1. /\ call' = [call EXCEPT ![c] = k] /\ runs' = [runs EXCEPT ![call[c].id] = run]
          /\ call[c].pc = "rollback"
      BY <1>2, <2>2 DEF RollbackGrant, Save, RollbackGranted, NextVersion, Run
    <3>2. run.results = call[c].run.results
      BY <1>2 DEF Run, RollbackGranted, NextVersion
    <3> HIDE DEF run
    <3>3. k.pc = "undo" /\ k.id = call[c].id /\ k.run = run /\ k.report = <<>>
      BY <1>1, <3>1, CallTypes DEF Call, CallOK
    <3>4. CitesOK(run.results, call[c].id, evidence)
      BY <1>2, <3>1, <3>2, CitesFirst DEF CallCites
    <3> HIDE DEF k
    <3> QED BY <1>2, <3>1, <3>2, <3>3, <3>4
  <2> QED BY <2>1, <2>2
<1>5. (\A d \in Client : d # c => call'[d] = call[d]) /\ call'[c] = k
  BY <1>1, <1>4 DEF IInv, TypeOK
<1>6. CallCites(call'[c], evidence')
  <2>1. run.results \o k.report = run.results
    BY <1>4, EmptyReport
  <2> QED BY <1>3, <1>4, <1>5, <2>1 DEF CallCites
<1>7. \A r \in RunId : \/ runs'[r].results = runs[r].results
                       \/ CitesOK(runs'[r].results, r, evidence')
  BY <1>2, <1>3, <1>4
<1> QED BY <1>1, <1>3, <1>4, <1>5, <1>6, <1>7, AuditStep

\* Evidence is written for a result: the action is no longer awaiting it.
LEMMA RecordEvidenceAudited ==
  ASSUME AuditInv, NEW c \in Client, RecordEvidence(c)
  PROVE  AuditInv'
<1> DEFINE n   == Len(evidence) + 1
           res == [call[c].res EXCEPT !.evidence = n]
           k   == [call[c] EXCEPT !.pc = "record", !.res = res]
<1>1. IInv /\ IInv'
  BY RecordEvidenceKeeps DEF AuditInv
<1>2. /\ call[c].pc = "executed" /\ Write(c, call[c].res.step, call[c].res.status)
      /\ call' = [call EXCEPT ![c] = k] /\ UNCHANGED <<runs, applied, faults>>
  BY DEF RecordEvidence, store, world
<1>3. /\ call[c].res.step \in Step /\ call[c].res.status \in {"succeeded", "failed"}
      /\ call[c].res.status \in StepStatus /\ call[c].id \in RunId
      /\ call[c].run.results \in Seq(StepResult) /\ call[c].report \in Seq(StepResult)
  BY <1>1, <1>2, CallTypes DEF StepResult, CallOK
<1>4. /\ EvidenceGrows
      /\ evidence \in Seq(EvidenceRecord) /\ evidence' \in Seq(EvidenceRecord)
      /\ evidence' = Append(evidence, [id |-> call[c].id, step |-> call[c].res.step,
                                       status |-> call[c].res.status])
  BY <1>1, <1>2, <1>3, WriteGrows
<1>5. n \in Nat /\ n \notin DOMAIN evidence /\ n \in DOMAIN evidence'
      /\ evidence'[n] = [id |-> call[c].id, step |-> call[c].res.step, status |-> call[c].res.status]
  BY <1>4
<1>6. /\ res \in StepResult /\ res.step = call[c].res.step /\ res.status = call[c].res.status
      /\ res.evidence = n
  BY <1>1, <1>5, CallTypes DEF StepResult
<1> HIDE DEF res
<1>7. /\ k.id = call[c].id /\ k.run = call[c].run /\ k.pc = "record"
      /\ k.report = call[c].report /\ k.res = res
  BY <1>1, CallTypes DEF Call
<1>8. (\A d \in Client : d # c => call'[d] = call[d]) /\ call'[c] = k
  BY <1>1, <1>2 DEF IInv, TypeOK
<1> HIDE DEF k
<1>9. CallCites(call'[c], evidence')
  <2>1. CitesOK(call[c].run.results \o call[c].report, call[c].id, evidence)
    BY <1>2 DEF AuditInv, CallsCite, CallCites
  <2>2. CitesOK(call[c].run.results, call[c].id, evidence)
    BY <1>3, <2>1, CitesFirst
  <2>3. CitesOK(Append(call[c].run.results, res), call[c].id, evidence')
    BY <1>3, <1>4, <1>6, <2>2, CitesAppended
  <2>4. CitesOK(call[c].run.results \o call[c].report, call[c].id, evidence')
    BY <1>4, <2>1, CitesKept DEF EvidenceGrows
  <2> QED BY <1>7, <1>8, <2>3, <2>4 DEF CallCites
<1>10. StoredCites' /\ CallsCite'
  BY <1>2, <1>4, <1>8, <1>9, CitesStep
<1>11. IsFiniteSet(Calling')
  BY <1>8, CallingStep DEF AuditInv
<1> HIDE DEF n
<1>12. EffectsAudited'
  <2> SUFFICES ASSUME faults' = 0, NEW r \in RunId, NEW s \in Step
               PROVE  applied[r][s] <= Cardinality(EvidenceOf(r, s)') + Cardinality(AwaitingEvidence(r, s)')
    BY <1>2 DEF EffectsAudited
  <2>1. /\ applied[r][s] <= Cardinality(EvidenceOf(r, s)) + Cardinality(AwaitingEvidence(r, s))
        /\ applied[r][s] \in Nat
    BY <1>1, <1>2 DEF AuditInv, EffectsAudited, IInv, TypeOK
  <2>2. CASE r = call[c].id /\ s = call[c].res.step
    <3>1. AwaitingEvidence(r, s)' = AwaitingEvidence(r, s) \ {c} /\ c \in AwaitingEvidence(r, s)
      BY <1>2, <1>7, <1>8, <2>2 DEF AwaitingEvidence
    <3>2. EvidenceOf(r, s)' = EvidenceOf(r, s) \cup {n} /\ n \notin EvidenceOf(r, s)
      <4>1. DOMAIN evidence' = DOMAIN evidence \cup {n} /\ \A m \in DOMAIN evidence : evidence'[m] = evidence[m]
        BY <1>4 DEF n
      <4> QED BY <1>3, <1>5, <2>2, <4>1 DEF EvidenceOf
    <3>3. Cardinality(AwaitingEvidence(r, s)') = Cardinality(AwaitingEvidence(r, s)) - 1
      BY <3>1, AuditFinite, FS_RemoveElement
    <3>4. Cardinality(EvidenceOf(r, s)') = Cardinality(EvidenceOf(r, s)) + 1
      BY <3>2, AuditFinite, FS_AddElement
    <3> QED BY <2>1, <3>3, <3>4, AuditFinite
  <2>3. CASE ~ (r = call[c].id /\ s = call[c].res.step)
    <3>1. AwaitingEvidence(r, s)' = AwaitingEvidence(r, s)
      BY <1>7, <1>8, <2>3 DEF AwaitingEvidence
    <3> QED BY <1>4, <2>1, <3>1, AuditFinite, EvidenceOfGrows
  <2> QED BY <2>2, <2>3
<1> QED BY <1>1, <1>10, <1>11, <1>12 DEF AuditInv

\* The handler returned: what it may have done awaits its evidence.
LEMMA HandlerAudited ==
  ASSUME AuditInv, NEW c \in Client, ExecuteReturns(c)
  PROVE  AuditInv'
<1> DEFINE id == call[c].id
           i  == call[c].i
<1>1. IInv /\ IInv'
  BY HandlerKeeps DEF AuditInv
<1>2. /\ call[c].pc = "calling" /\ UNCHANGED <<runs, evidence, faults>> /\ EvidenceGrows
      /\ \E n \in {applied[id][i], applied[id][i] + 1} : applied' = [applied EXCEPT ![id][i] = n]
  BY DEF ExecuteReturns, HandlerSucceeds, HandlerFails, store, EvidenceGrows
<1>3. PICK status, ref : Returned(c, status, ref)
  BY DEF ExecuteReturns, HandlerSucceeds, HandlerFails
<1>4. i \in Step /\ id \in RunId
  BY <1>1, <1>2, CallTypes DEF CallOK
<1> DEFINE res == [NoResult EXCEPT !.step = i, !.status = status, !.ref = ref]
           k   == [call[c] EXCEPT !.pc = "executed", !.res = res]
<1>5. call' = [call EXCEPT ![c] = k] /\ res.step = i
  BY <1>3 DEF Returned, NoResult
<1> HIDE DEF res
<1>6. k.id = id /\ k.run = call[c].run /\ k.report = call[c].report /\ k.pc = "executed" /\ k.res = res
  BY <1>1, CallTypes DEF Call
<1>7. (\A d \in Client : d # c => call'[d] = call[d]) /\ call'[c] = k
  BY <1>1, <1>5 DEF IInv, TypeOK
<1> HIDE DEF k
<1>8. CallCites(call'[c], evidence')
  BY <1>2, <1>6, <1>7 DEF AuditInv, CallsCite, CallCites
<1>9. StoredCites' /\ CallsCite'
  BY <1>2, <1>7, <1>8, CitesStep
<1>10. IsFiniteSet(Calling')
  BY <1>7, CallingStep DEF AuditInv
<1>11. EffectsAudited'
  <2> SUFFICES ASSUME faults = 0, NEW r \in RunId, NEW s \in Step
               PROVE  applied'[r][s] <= Cardinality(EvidenceOf(r, s)) + Cardinality(AwaitingEvidence(r, s)')
    BY <1>2 DEF EffectsAudited, EvidenceOf
  <2>1. /\ applied[r][s] <= Cardinality(EvidenceOf(r, s)) + Cardinality(AwaitingEvidence(r, s))
        /\ applied[r][s] \in Nat
    BY <1>1 DEF AuditInv, EffectsAudited, IInv, TypeOK
  <2>2. CASE r = id /\ s = i
    <3>1. AwaitingEvidence(r, s)' = AwaitingEvidence(r, s) \cup {c} /\ c \notin AwaitingEvidence(r, s)
      BY <1>2, <1>5, <1>6, <1>7, <2>2 DEF AwaitingEvidence
    <3>2. Cardinality(AwaitingEvidence(r, s)') = Cardinality(AwaitingEvidence(r, s)) + 1
      BY <3>1, AuditFinite, FS_AddElement
    <3>3. applied'[r][s] \in {applied[r][s], applied[r][s] + 1}
      BY <1>1, <1>2, <1>4, <2>2 DEF IInv, TypeOK
    <3> QED BY <2>1, <3>2, <3>3, AuditFinite
  <2>3. CASE ~ (r = id /\ s = i)
    <3>1. AwaitingEvidence(r, s)' = AwaitingEvidence(r, s)
      BY <1>2, <1>5, <1>6, <1>7, <2>3 DEF AwaitingEvidence
    <3>2. applied'[r][s] = applied[r][s]
      BY <1>1, <1>2, <1>4, <2>3 DEF IInv, TypeOK
    <3> QED BY <2>1, <3>1, <3>2
  <2> QED BY <2>2, <2>3
<1> QED BY <1>1, <1>9, <1>10, <1>11 DEF AuditInv

\* A new run has no results and a restart ends every call.
LEMMA ProposeRestartAudited ==
  ASSUME AuditInv, Restart \/ \E r \in RunId, f \in Finding : Propose(r, f)
  PROVE  AuditInv'
<1>1. IInv /\ IInv'
  BY RestartKeeps, ProposeKeeps DEF AuditInv
<1>2. CASE Restart
  <2>1. /\ call' = [c \in Client |-> NoCall] /\ UNCHANGED <<runs, evidence>> /\ faults' = faults + 1
        /\ faults \in Nat
    BY <1>1, <1>2 DEF Restart, IInv, TypeOK
  <2>2. StoredCites' /\ CallsCite' /\ Calling' = {}
    BY <2>1, ConstantTypes DEF AuditInv, StoredCites, CallsCite, CallCites, Calling, Active
  <2>3. EffectsAudited'
    BY <2>1 DEF EffectsAudited
  <2>4. IsFiniteSet(Calling')
    BY <2>2, FS_EmptySet
  <2> QED BY <1>1, <2>2, <2>3, <2>4 DEF AuditInv
<1>3. ASSUME NEW r \in RunId, NEW f \in Finding, Propose(r, f)
      PROVE  AuditInv'
  <2>1. /\ runs' = [runs EXCEPT ![r] = NewRun] /\ UNCHANGED <<evidence, call, applied, faults>>
        /\ runs \in [RunId -> Run] /\ NewRun.results = <<>>
    BY <1>1, <1>3 DEF Propose, world, NewRun, NoRun, IInv, TypeOK
  <2>2. StoredCites'
    BY <2>1 DEF AuditInv, StoredCites, CitesOK
  <2>3. CallsCite' /\ Calling' = Calling
    BY <2>1 DEF AuditInv, CallsCite, Calling, Active
  <2>4. EffectsAudited'
    BY <2>1 DEF AuditInv, EffectsAudited, EvidenceOf, AwaitingEvidence
  <2> QED BY <1>1, <2>2, <2>3, <2>4 DEF AuditInv
<1> QED BY <1>2, <1>3

LEMMA AuditInvariant == Spec => []AuditInv
<1>1. Init /\ IInv => AuditInv
  <2> SUFFICES ASSUME Init, IInv PROVE AuditInv
    OBVIOUS
  <2>1. StoredCites /\ CallsCite /\ Calling = {}
    <3>1. StoredCites
      BY DEF Init, StoredCites, CitesOK, NoRun
    <3>2. \A c \in Client : call[c].pc = "idle"
      BY ConstantTypes DEF Init
    <3> QED BY <3>1, <3>2 DEF CallsCite, CallCites, Calling, Active
  <2>2. IsFiniteSet(Calling)
    BY <2>1, FS_EmptySet
  <2>3. EffectsAudited
    <3> SUFFICES ASSUME NEW r \in RunId, NEW s \in Step
                 PROVE  0 <= Cardinality(EvidenceOf(r, s)) + Cardinality(AwaitingEvidence(r, s))
      BY DEF Init, EffectsAudited
    <3>1. EvidenceOf(r, s) = {} /\ AwaitingEvidence(r, s) = {}
      BY ConstantTypes DEF Init, EvidenceOf, AwaitingEvidence
    <3> QED BY <3>1, FS_EmptySet
  <2> QED BY <2>1, <2>2, <2>3 DEF AuditInv
<1>2. AuditInv /\ [Next]_vars => AuditInv'
  <2> SUFFICES ASSUME AuditInv, [Next]_vars PROVE AuditInv'
    OBVIOUS
  <2>1. CASE UNCHANGED vars
    BY <2>1 DEF vars, AuditInv, IInv, TypeOK, AbsentOK, CallsOK, AppliedOK, UndoneOnlyIfGranted,
                StoredCites, CallsCite, EffectsAudited, EvidenceOf, AwaitingEvidence, Calling, Active
  <2>2. ASSUME NEW c \in Client, Continue(c)
        PROVE  AuditInv'
    <3>1. CASE SimulateEnd(c) \/ ApproveEnd(c) \/ HaltEnd(c)
               \/ RecordFailure(c) \/ Complete(c) \/ RollbackEnd(c)
      BY <3>1, FinalAudited
    <3>2. CASE Conflict(c) \/ RollbackRefused(c) \/ \E s \in Step : ExecuteRefused(c, s)
      BY <3>2, RefusalsAudited
    <3>3. CASE UndoNext(c) \/ UndoSkip(c) \/ \E s \in Step : CallHandler(c, s)
      BY <3>3, MovesAudited
    <3>4. CASE RecordEvidence(c)
      BY <3>4, RecordEvidenceAudited
    <3>5. CASE RecordSuccess(c) \/ RollbackGrant(c)
      BY <3>5, SavesAudited
    <3>6. CASE UndoEvidence(c)
      BY <3>6, UndoEvidenceAudited
    <3> QED BY <2>2, <3>1, <3>2, <3>3, <3>4, <3>5, <3>6 DEF Continue
  <2>3. ASSUME NEW c \in Client, Ask(c) \/ ExecuteReturns(c) \/ SimulateStep(c)
                                 \/ UndoCall(c) \/ Interrupt(c)
        PROVE  AuditInv'
    BY <2>3, AskAudited, HandlerAudited, SimulateStepAudited, MovesAudited, RefusalsAudited
  <2>4. CASE Restart \/ \E r \in RunId, f \in Finding : Propose(r, f)
    BY <2>4, ProposeRestartAudited
  <2> QED BY <2>1, <2>2, <2>3, <2>4 DEF Next
<1> QED BY <1>1, <1>2, Invariant, PTL DEF Spec

(* Whatever calls overlap, an external effect has its evidence or is about   *)
(* to get it, as long as nothing is interrupted, and every stored result     *)
(* cites a record of its own (engine.execute, engine.rollback).              *)
THEOREM AuditIsCompleteTheorem == Spec => []AuditIsComplete
<1>1. AuditInv => AuditIsComplete
  <2> SUFFICES ASSUME AuditInv PROVE ResultsCiteEvidence
    BY DEF AuditInv, AuditIsComplete
  <2> QED BY DEF AuditInv, StoredCites, CitesOK, ResultsCiteEvidence
<1> QED BY <1>1, AuditInvariant, PTL

-----------------------------------------------------------------------------
(***************************************************************************)
(* Workflow implements RunLifecycle: a read-await-write of a coroutine is, *)
(* by the version check, an atomic transition of the latest record.        *)
(***************************************************************************)

(* The lifecycle has its own instance of the rules, with the same meaning.   *)
LEMMA SameTypes ==
  /\ Lifecycle!Step = Step
  /\ Lifecycle!Finding = Finding
  /\ Lifecycle!Approval = Approval
  /\ Lifecycle!StepResult = StepResult
  /\ Lifecycle!NoRun = NoRun
  /\ Lifecycle!NewRun = NewRun
<1>1. Lifecycle!Step = Step
  BY DEF Lifecycle!Step, Step
<1>2. Lifecycle!Finding = Finding
  BY DEF Lifecycle!Finding, Finding, Lifecycle!NoFinding, NoFinding
<1>3. Lifecycle!Approval = Approval
  BY <1>1 DEF Lifecycle!Approval, Approval
<1>4. Lifecycle!StepResult = StepResult
  BY <1>1 DEF Lifecycle!StepResult, StepResult, Lifecycle!StepStatus, StepStatus
<1>5. Lifecycle!NoRun = NoRun
  BY DEF Lifecycle!NoRun, NoRun
<1>6. Lifecycle!NewRun = NewRun
  BY <1>5 DEF Lifecycle!NewRun, NewRun
<1> QED BY <1>1, <1>2, <1>3, <1>4, <1>5, <1>6

LEMMA SameGates ==
  /\ \A s, f : Lifecycle!RequiresApproval(s, f) = RequiresApproval(s, f)
  /\ \A s, f, as, v : Lifecycle!MayExecute(s, f, as, v) = MayExecute(s, f, as, v)
  /\ \A a : Lifecycle!InScope(a) = InScope(a)
  /\ \A q : Lifecycle!Succeeded(q) = Succeeded(q)
  /\ \A q : Lifecycle!AllSucceeded(q) = AllSucceeded(q)
  /\ \A s, q : Lifecycle!IsNext(s, q) = IsNext(s, q)
  /\ \A q : Lifecycle!RollbackSteps(q) = RollbackSteps(q)
<1>1. Lifecycle!Step = Step
  BY SameTypes
<1>2. \A s, f : Lifecycle!RequiresApproval(s, f) = RequiresApproval(s, f)
  BY DEF Lifecycle!RequiresApproval, RequiresApproval
<1>3. \A s, as : Lifecycle!Approved(s, as) = Approved(s, as)
  BY DEF Lifecycle!Approved, Approved
<1>4. \A s, f, as, v : Lifecycle!MayExecute(s, f, as, v) = MayExecute(s, f, as, v)
  BY <1>2, <1>3 DEF Lifecycle!MayExecute, MayExecute
<1>5. \A a : Lifecycle!InScope(a) = InScope(a)
  BY DEF Lifecycle!InScope, InScope
<1>6. \A q : Lifecycle!Succeeded(q) = Succeeded(q)
  BY <1>1 DEF Lifecycle!Succeeded, Succeeded
<1>7. \A q : Lifecycle!AllSucceeded(q) = AllSucceeded(q)
  BY <1>1, <1>6 DEF Lifecycle!AllSucceeded, AllSucceeded
<1>8. \A s, q : Lifecycle!IsNext(s, q) = IsNext(s, q)
  BY <1>1, <1>6 DEF Lifecycle!IsNext, IsNext
<1>9. \A q : Lifecycle!RollbackSteps(q) = RollbackSteps(q)
  BY <1>1 DEF Lifecycle!RollbackSteps, RollbackSteps, Lifecycle!Undoable, Undoable
<1> QED BY <1>2, <1>4, <1>5, <1>6, <1>7, <1>8, <1>9

LEMMA SameWrites ==
  /\ \A run, f : Lifecycle!Simulated(run, f) = Simulated(run, f)
  /\ \A run, f, a : Lifecycle!WithApproval(run, f, a) = WithApproval(run, f, a)
  /\ \A run, res : Lifecycle!WithSuccess(run, res) = WithSuccess(run, res)
  /\ \A run, res : Lifecycle!WithFailure(run, res) = WithFailure(run, res)
  /\ \A run : Lifecycle!Completed(run) = Completed(run)
  /\ \A run : Lifecycle!Halted(run) = Halted(run)
  /\ \A run, a : Lifecycle!RollbackGranted(run, a) = RollbackGranted(run, a)
  /\ \A run, u : Lifecycle!RolledBack(run, u) = RolledBack(run, u)
  /\ \A run : Lifecycle!NextVersion(run) = NextVersion(run)
<1>1. Lifecycle!Step = Step
  BY SameTypes
<1>2. \A s, f : Lifecycle!RequiresApproval(s, f) = RequiresApproval(s, f)
  BY SameGates
<1>3. \A s, as : Lifecycle!Approved(s, as) = Approved(s, as)
  BY DEF Lifecycle!Approved, Approved
<1>4. \A f, as : Lifecycle!Covered(f, as) = Covered(f, as)
  BY <1>1, <1>2, <1>3 DEF Lifecycle!Covered, Covered
<1>5. \A f, as : Lifecycle!SimulatedStatus(f, as) = SimulatedStatus(f, as)
  BY <1>1, <1>2, <1>4 DEF Lifecycle!SimulatedStatus, SimulatedStatus
<1>6. \A f, as : Lifecycle!ApprovalStatus(f, as) = ApprovalStatus(f, as)
  BY <1>4 DEF Lifecycle!ApprovalStatus, ApprovalStatus
<1>7. \A run, f : Lifecycle!Simulated(run, f) = Simulated(run, f)
  BY <1>5 DEF Lifecycle!Simulated, Simulated
<1>8. \A run, f, a : Lifecycle!WithApproval(run, f, a) = WithApproval(run, f, a)
  BY <1>6 DEF Lifecycle!WithApproval, WithApproval
<1>9. /\ \A run, res : Lifecycle!WithSuccess(run, res) = WithSuccess(run, res)
      /\ \A run, res : Lifecycle!WithFailure(run, res) = WithFailure(run, res)
  BY DEF Lifecycle!WithSuccess, WithSuccess, Lifecycle!WithFailure, WithFailure
<1>10. /\ \A run : Lifecycle!Completed(run) = Completed(run)
       /\ \A run : Lifecycle!Halted(run) = Halted(run)
       /\ \A run : Lifecycle!NextVersion(run) = NextVersion(run)
  BY DEF Lifecycle!Completed, Completed, Lifecycle!Halted, Halted,
         Lifecycle!NextVersion, NextVersion
<1>11. /\ \A run, a : Lifecycle!RollbackGranted(run, a) = RollbackGranted(run, a)
       /\ \A run, u : Lifecycle!RolledBack(run, u) = RolledBack(run, u)
  BY DEF Lifecycle!RollbackGranted, RollbackGranted, Lifecycle!RolledBack, RolledBack
<1> QED BY <1>7, <1>8, <1>9, <1>10, <1>11

\* A checked write is a write of the abstract store on the latest record.
LEMMA SaveIsStore ==
  ASSUME IInv, NEW c \in Client, Active(c), NEW run \in Run, Save(c, run),
         Grows(call[c].run, NextVersion(run))
  PROVE  /\ Lifecycle!Store(call[c].id, run)
         /\ runs[call[c].id] = call[c].run
         /\ runs'[call[c].id] = NextVersion(run)
<1>1. /\ runs[call[c].id] = call[c].run /\ UNCHANGED finding
      /\ runs'[call[c].id] = NextVersion(run)
  BY SaveStep
<1>2. call[c].run.version > 0
  BY CallTypes DEF CallOK, Active
<1>3. Lifecycle!NextVersion(run) = NextVersion(run)
  BY SameWrites
<1> QED BY <1>1, <1>2, <1>3 DEF Lifecycle!Store, Lifecycle!Exists, Save

LEMMA RecordedResult ==
  ASSUME IInv, NEW c \in Client, call[c].pc = "record"
  PROVE  /\ call[c].res \in StepResult
         /\ IsNext(call[c].res.step, call[c].run.results)
         /\ MayExecute(call[c].res.step, finding[call[c].id], call[c].run.approvals, "allow")
<1>1. /\ IsNext(call[c].res.step, call[c].run.results)
      /\ Cleared(call[c].res.step, finding[call[c].id], call[c].run.approvals)
  BY CallTypes DEF CallOK
<1> QED BY <1>1, CallTypes DEF Cleared, MayExecute

\* The result an operation appends is found among those of the next record.
LEMMA AppendedIsNew ==
  ASSUME NEW run \in Run, NEW new, NEW res \in StepResult,
         new.results = Append(run.results, res)
  PROVE  res \in {new.results[i] : i \in DOMAIN new.results}
<1>1. /\ Append(run.results, res)[Len(run.results) + 1] = res
      /\ Len(run.results) + 1 \in DOMAIN Append(run.results, res)
  BY DEF Run
<1> QED BY <1>1

\* The results behind the old ones are the report of the rollback.
LEMMA AddedIsReport ==
  ASSUME NEW q \in Seq(StepResult), NEW u \in Seq(StepResult)
  PROVE  [i \in 1 .. (Len(q \o u) - Len(q)) |-> (q \o u)[Len(q) + i]] = u
<1>1. /\ Len(q \o u) = Len(q) + Len(u) /\ Len(q) \in Nat /\ Len(u) \in Nat
      /\ u = [i \in 1 .. Len(u) |-> u[i]]
  OBVIOUS
<1>2. \A i \in 1 .. Len(u) : (q \o u)[Len(q) + i] = u[i]
  OBVIOUS
<1>3. Len(q \o u) - Len(q) = Len(u)
  BY <1>1
<1> HIDE <1>1
<1> QED BY <1>1, <1>2, <1>3

(* Every step of the engine is a step of the lifecycle or leaves it alone.   *)
LEMMA StepRefines ==
  IInv /\ [Next]_vars => [Lifecycle!Next]_(Lifecycle!vars)
<1> SUFFICES ASSUME IInv, [Next]_vars
             PROVE  Lifecycle!Next \/ UNCHANGED <<runs, finding>>
  BY DEF Lifecycle!vars
<1>1. CASE UNCHANGED vars
  BY <1>1 DEF vars
<1>2. ASSUME NEW r \in RunId, NEW f \in Finding, Propose(r, f)
      PROVE  Lifecycle!Next
  BY <1>2, SameTypes DEF Propose, Exists, Lifecycle!Propose, Lifecycle!Exists, Lifecycle!Next
<1>3. ASSUME NEW c \in Client, Ask(c) \/ ExecuteReturns(c) \/ SimulateStep(c)
                               \/ UndoCall(c) \/ Interrupt(c)
      PROVE  UNCHANGED <<runs, finding>>
  BY <1>3 DEF Ask, SimulateBegin, HaltBegin, ExecuteBegin, ApproveBegin, RollbackBegin,
              ExecuteReturns, HandlerSucceeds, HandlerFails, SimulateStep, UndoCall,
              Interrupt, store
<1>4. CASE Restart
  BY <1>4 DEF Restart
<1>5. ASSUME NEW c \in Client, Continue(c)
      PROVE  Lifecycle!Next \/ UNCHANGED <<runs, finding>>
  <2> DEFINE id  == call[c].id
             run == call[c].run
             f   == finding[call[c].id]
  <2>1. /\ id \in RunId /\ run \in Run /\ f \in Finding
        /\ call[c].grant \in Approval /\ call[c].res \in StepResult
        /\ call[c].report \in Seq(StepResult)
    BY CallTypes
  <2>2. CASE SimulateEnd(c)
    <3>1. Lifecycle!Store(id, Simulated(run, f)) /\ runs[id] = run
      BY <2>1, <2>2, SaveIsStore, RuleTypes, RulesGrow DEF SimulateEnd, Active
    <3> QED BY <2>1, <3>1, SameWrites DEF Lifecycle!Simulate, Lifecycle!Next
  <2>3. CASE ApproveEnd(c)
    <3>1. Lifecycle!Store(id, WithApproval(run, f, call[c].grant)) /\ runs[id] = run
      BY <2>1, <2>3, SaveIsStore, RuleTypes, RulesGrow DEF ApproveEnd, Active
    <3>2. InScope(call[c].grant)
      BY <2>3, CallTypes DEF ApproveEnd, CallOK
    <3> QED BY <2>1, <3>1, <3>2, SameTypes, SameGates, SameWrites DEF Lifecycle!Approve, Lifecycle!Next
  <2>4. CASE HaltEnd(c)
    <3>1. Lifecycle!Store(id, Halted(run)) /\ runs[id] = run
      BY <2>1, <2>4, SaveIsStore, RuleTypes, RulesGrow DEF HaltEnd, Active
    <3> QED BY <2>1, <3>1, SameWrites DEF Lifecycle!Halt, Lifecycle!Next
  <2>5. CASE Complete(c)
    <3>1. Lifecycle!Store(id, Completed(run)) /\ runs[id] = run
      BY <2>1, <2>5, SaveIsStore, RuleTypes, RulesGrow DEF Complete, Active
    <3>2. AllSucceeded(run.results)
      BY <2>5 DEF Complete
    <3> QED BY <2>1, <3>1, <3>2, SameTypes, SameGates, SameWrites DEF Lifecycle!Complete, Lifecycle!Next
  <2>6. CASE RecordSuccess(c)
    <3> DEFINE res == call[c].res
               new == WithSuccess(run, res)
    <3>1. /\ Lifecycle!Store(id, new) /\ runs[id] = run /\ runs'[id] = NextVersion(new)
      BY <2>1, <2>6, SaveIsStore, RuleTypes, RulesGrow DEF RecordSuccess, Active
    <3>2. runs'[id].results = Append(run.results, res)
      BY <2>1, <3>1 DEF WithSuccess, NextVersion, Run
    <3>3. res \in Lifecycle!NewResults(id)
      BY <2>1, <3>2, AppendedIsNew DEF Lifecycle!NewResults
    <3>4. Lifecycle!StepSucceeds(id, res)
      BY <2>6, <3>1, RecordedResult, SameTypes, SameGates, SameWrites
         DEF RecordSuccess, Lifecycle!StepSucceeds
    <3> QED BY <2>1, <3>3, <3>4 DEF Lifecycle!Next
  <2>7. CASE RecordFailure(c)
    <3> DEFINE res == call[c].res
               new == WithFailure(run, res)
    <3>1. /\ Lifecycle!Store(id, new) /\ runs[id] = run /\ runs'[id] = NextVersion(new)
      BY <2>1, <2>7, SaveIsStore, RuleTypes, RulesGrow DEF RecordFailure, Active
    <3>2. runs'[id].results = Append(run.results, res)
      BY <2>1, <3>1 DEF WithFailure, NextVersion, Run
    <3>3. res \in Lifecycle!NewResults(id)
      BY <2>1, <3>2, AppendedIsNew DEF Lifecycle!NewResults
    <3>4. Lifecycle!StepFails(id, res)
      BY <2>7, <3>1, RecordedResult, SameTypes, SameGates, SameWrites
         DEF RecordFailure, Lifecycle!StepFails
    <3> QED BY <2>1, <3>3, <3>4 DEF Lifecycle!Next
  <2>8. CASE RollbackGrant(c)
    <3>1. Lifecycle!Store(id, RollbackGranted(run, call[c].grant)) /\ runs[id] = run
      BY <2>1, <2>8, SaveIsStore, RuleTypes, RulesGrow DEF RollbackGrant, Active
    <3>2. /\ InScope(call[c].grant)
          /\ call[c].grant.steps = RollbackSteps(run.results)
      BY <2>8, CallTypes DEF RollbackGrant, CallOK
    <3> QED BY <2>1, <3>1, <3>2, SameTypes, SameGates, SameWrites DEF Lifecycle!GrantRollback, Lifecycle!Next
  <2>9. CASE RollbackEnd(c)
    <3> DEFINE report == call[c].report
               new    == RolledBack(run, report)
    <3>1. /\ Lifecycle!Store(id, new) /\ runs[id] = run /\ runs'[id] = NextVersion(new)
      BY <2>1, <2>9, SaveIsStore, RuleTypes, RulesGrow DEF RollbackEnd, Active
    <3>2. runs'[id].results = run.results \o report /\ run.results \in Seq(StepResult)
      BY <2>1, <3>1 DEF RolledBack, NextVersion, Run
    <3>3. Lifecycle!Added(id) = report
      <4> report \in Seq(StepResult)
        BY <2>1
      <4> HIDE DEF report, new, id, run
      <4>1. Lifecycle!Added(id) =
              LET q == runs[id].results  more == runs'[id].results
              IN  [i \in 1 .. (Len(more) - Len(q)) |-> more[Len(q) + i]]
        BY Zenon DEF Lifecycle!Added
      <4>2. runs[id].results = run.results /\ runs'[id].results = run.results \o report
        BY <3>1, <3>2
      <4>3. [i \in 1 .. (Len(run.results \o report) - Len(run.results)) |->
               (run.results \o report)[Len(run.results) + i]] = report
        BY <3>2, AddedIsReport
      <4> QED BY ONLY <4>1, <4>2, <4>3, Zenon
    <3>4. /\ ReportOK(report, run, call[c].grant) /\ call[c].grant \in run.approvals
      BY <2>9, CallTypes DEF RollbackEnd, CallOK
    <3> HIDE DEF report, id, run
    <3>5. Lifecycle!Rollback(id)
      <4>1. \A i \in DOMAIN report :
              /\ report[i].step \in Succeeded(runs[id].results)
              /\ report[i].status \notin {"succeeded", "failed"}
              /\ report[i].status # "rollback_skipped" =>
                   \E a \in runs[id].approvals : report[i].step \in a.steps
        BY <3>1, <3>4 DEF ReportOK
      <4>2. report \in Seq(StepResult)
        BY <2>1 DEF report
      <4> QED BY <3>1, <3>3, <4>1, <4>2, SameTypes, SameGates, SameWrites DEF Lifecycle!Rollback
    <3> QED BY <2>1, <3>5 DEF Lifecycle!Next, id
  <2>10. CASE RecordEvidence(c) \/ RollbackRefused(c) \/ UndoNext(c) \/ UndoSkip(c)
              \/ UndoEvidence(c) \/ Conflict(c)
              \/ \E s \in Step : CallHandler(c, s) \/ ExecuteRefused(c, s)
    BY <2>10 DEF RecordEvidence, RollbackRefused, UndoNext, UndoSkip, UndoEvidence, Conflict,
                 CallHandler, ExecuteRefused, store
  <2> QED BY <1>5, <2>2, <2>3, <2>4, <2>5, <2>6, <2>7, <2>8, <2>9, <2>10 DEF Continue
<1> QED BY <1>1, <1>2, <1>3, <1>4, <1>5 DEF Next

(* The engine implements the abstract lifecycle of a run.                    *)
THEOREM Refinement == Spec => ImplementsLifecycle
<1>1. Init => Lifecycle!Init
  BY SameTypes DEF Init, Lifecycle!Init, NoFinding, Lifecycle!NoFinding
<1>2. IInv /\ [Next]_vars => [Lifecycle!Next]_(Lifecycle!vars)
  BY StepRefines
<1> QED BY <1>1, <1>2, Invariant, PTL DEF Spec, ImplementsLifecycle, Lifecycle!Spec

-----------------------------------------------------------------------------
(* The stored runs and their history                                         *)

RunsOK == \A r \in RunId : RunOK(runs[r], finding[r])

(* What a coroutine writes grows from the stored record and is as well       *)
(* formed as that record: its copy is the stored run when it may write.      *)
LEMMA Writes ==
  ASSUME IInv, RunsOK, NEW c \in Client, Continue(c)
  PROVE  \/ UNCHANGED <<runs, finding>>
         \/ \E new \in Run : /\ Active(c)
                             /\ Save(c, new)
                             /\ Grows(call[c].run, NextVersion(new))
                             /\ RunOK(new, finding[call[c].id])
<1> DEFINE k == call[c]
           f == finding[call[c].id]
           Written(new) == /\ new \in Run
                           /\ Grows(k.run, NextVersion(new))
                           /\ RunOK(k.run, f) => RunOK(new, f)
<1>1. /\ k.run \in Run /\ f \in Finding /\ k.grant \in Approval /\ k.res \in StepResult
      /\ k.report \in Seq(StepResult)
  BY CallTypes
<1>2. ASSUME NEW new, Active(c), Save(c, new), Written(new)
      PROVE  \E x \in Run : /\ Active(c) /\ Save(c, x)
                            /\ Grows(k.run, NextVersion(x)) /\ RunOK(x, f)
  <2>1. runs[k.id] = k.run
    BY <1>2, SaveStep
  <2>2. RunOK(k.run, f)
    BY <2>1, CallTypes DEF RunsOK
  <2> QED BY <1>2, <2>2
<1>3. /\ Written(Simulated(k.run, f)) /\ Written(WithApproval(k.run, f, k.grant))
      /\ Written(Halted(k.run)) /\ Written(RollbackGranted(k.run, k.grant))
      /\ AllSucceeded(k.run.results) => Written(Completed(k.run))
  BY <1>1, RuleTypes, RulesGrow, RulesKeepRunOK
<1>4. k.pc = "record" => /\ k.res.status = "succeeded" => Written(WithSuccess(k.run, k.res))
                         /\ k.res.status = "failed" => Written(WithFailure(k.run, k.res))
  BY <1>1, RecordedResult, RuleTypes, RulesGrow, RulesKeepRunOK
<1>5. k.pc = "undo" => Written(RolledBack(k.run, k.report))
  <2> SUFFICES ASSUME k.pc = "undo" PROVE Written(RolledBack(k.run, k.report))
    OBVIOUS
  <2>1. \A i \in DOMAIN k.report : k.report[i].status \notin {"succeeded", "failed"}
    BY CallTypes DEF CallOK, ReportOK
  <2> QED BY <1>1, <2>1, RuleTypes, RulesGrow, RulesKeepRunOK
<1> HIDE DEF Written
<1>6. CASE SimulateEnd(c) \/ ApproveEnd(c) \/ HaltEnd(c) \/ RollbackGrant(c)
  BY <1>2, <1>3, <1>6 DEF SimulateEnd, ApproveEnd, HaltEnd, RollbackGrant, Active
<1>7. CASE Complete(c) \/ RecordSuccess(c) \/ RecordFailure(c)
  BY <1>2, <1>3, <1>4, <1>7 DEF Complete, RecordSuccess, RecordFailure, Active
<1>8. CASE RollbackEnd(c)
  BY <1>2, <1>5, <1>8 DEF RollbackEnd, Active
<1>9. CASE RecordEvidence(c) \/ RollbackRefused(c) \/ UndoNext(c) \/ UndoSkip(c)
             \/ UndoEvidence(c) \/ Conflict(c)
             \/ \E s \in Step : CallHandler(c, s) \/ ExecuteRefused(c, s)
  BY <1>9 DEF RecordEvidence, RollbackRefused, UndoNext, UndoSkip, UndoEvidence, Conflict,
              CallHandler, ExecuteRefused, store
<1> QED BY <1>6, <1>7, <1>8, <1>9 DEF Continue

(* A checked write keeps every record well formed and the history intact.    *)
LEMMA WriteKeeps ==
  ASSUME IInv, RunsOK, NEW c \in Client, Active(c), NEW new \in Run, Save(c, new),
         Grows(call[c].run, NextVersion(new)), RunOK(new, finding[call[c].id])
  PROVE  RunsOK' /\ Lifecycle!HistoryStep
<1> DEFINE id == call[c].id
<1>1. /\ runs[id] = call[c].run /\ runs'[id] = NextVersion(new) /\ UNCHANGED finding
      /\ id \in RunId
  BY SaveStep, CallTypes
<1>2. \A r \in RunId : r # id => runs'[r] = runs[r]
  BY DEF Save, IInv, TypeOK
<1>3. RunOK(NextVersion(new), finding[id])
  BY RunOKVersion
<1>4. Grows(runs[id], runs'[id])
  BY <1>1
<1>5. \A r \in RunId : runs[r].results \in Seq(StepResult) /\ runs[r].version \in Nat
  BY DEF IInv, TypeOK, Run
<1> HIDE DEF id
<1>6. RunsOK'
  BY <1>1, <1>2, <1>3 DEF RunsOK
<1>7. ASSUME NEW r \in RunId
      PROVE  /\ Len(runs[r].results) <= Len(runs'[r].results)
             /\ \A i \in DOMAIN runs[r].results : runs'[r].results[i] = runs[r].results[i]
             /\ runs[r].approvals \subseteq runs'[r].approvals
             /\ runs'[r].version \in {runs[r].version, runs[r].version + 1}
  <2>1. CASE r = id
    BY <1>4, <2>1 DEF Grows
  <2>2. CASE r # id
    <3>1. Len(runs[r].results) \in Nat
      BY <1>5
    <3> QED BY <1>2, <2>2, <3>1
  <2> QED BY <2>1, <2>2
<1> QED BY <1>6, <1>7 DEF Lifecycle!HistoryStep

(* The stored runs stay well formed and their history only grows.            *)
LEMMA StoredStep ==
  IInv /\ RunsOK /\ [Next]_vars => RunsOK' /\ [Lifecycle!HistoryStep]_(Lifecycle!vars)
<1> SUFFICES ASSUME IInv, RunsOK, [Next]_vars
             PROVE  RunsOK' /\ (Lifecycle!HistoryStep \/ UNCHANGED <<runs, finding>>)
  BY DEF Lifecycle!vars
<1>1. CASE UNCHANGED <<runs, finding>>
  BY <1>1 DEF RunsOK
<1>2. ASSUME NEW r \in RunId, NEW f \in Finding, Propose(r, f)
      PROVE  RunsOK' /\ Lifecycle!HistoryStep
  <2>1. /\ runs[r] = NoRun
        /\ runs \in [RunId -> Run] /\ finding \in [RunId -> Finding]
    BY <1>2 DEF Propose, Exists, IInv, TypeOK, AbsentOK, Run
  <2>2. runs' = [runs EXCEPT ![r] = NewRun] /\ finding' = [finding EXCEPT ![r] = f]
    BY <1>2 DEF Propose
  <2>3. NewRun.results = <<>> /\ NewRun.approvals = {} /\ NewRun.version = 1
        /\ NewRun.status = "proposed"
    BY DEF NewRun, NoRun
  <2>4. NoRun.results = <<>> /\ NoRun.approvals = {} /\ NoRun.version = 0
    BY DEF NoRun
  <2>5. RunOK(NewRun, f)
    BY <2>3, Succeeded(<<>>) = {} DEF RunOK, Ordered, Initial, Succeeded
  <2>6. RunsOK'
    BY <2>1, <2>2, <2>5 DEF RunsOK
  <2>7. ASSUME NEW q \in RunId
        PROVE  /\ Len(runs[q].results) <= Len(runs'[q].results)
               /\ \A i \in DOMAIN runs[q].results : runs'[q].results[i] = runs[q].results[i]
               /\ runs[q].approvals \subseteq runs'[q].approvals
               /\ runs'[q].version \in {runs[q].version, runs[q].version + 1}
    <3>1. CASE q = r
      BY <2>1, <2>2, <2>3, <2>4, <3>1
    <3>2. CASE q # r
      <4>1. runs'[q] = runs[q] /\ runs[q].results \in Seq(StepResult)
        BY <2>1, <2>2, <3>2 DEF Run
      <4>2. Len(runs[q].results) \in Nat
        BY <4>1
      <4> QED BY <4>1, <4>2
    <3> QED BY <3>1, <3>2
  <2> QED BY <2>6, <2>7 DEF Lifecycle!HistoryStep
<1>3. ASSUME NEW c \in Client, Continue(c)
      PROVE  RunsOK' /\ (Lifecycle!HistoryStep \/ UNCHANGED <<runs, finding>>)
  BY <1>1, <1>3, Writes, WriteKeeps
<1>4. ASSUME NEW c \in Client, Ask(c) \/ ExecuteReturns(c) \/ SimulateStep(c)
                               \/ UndoCall(c) \/ Interrupt(c)
      PROVE  UNCHANGED <<runs, finding>>
  BY <1>4 DEF Ask, SimulateBegin, HaltBegin, ExecuteBegin, ApproveBegin, RollbackBegin,
              ExecuteReturns, HandlerSucceeds, HandlerFails, SimulateStep, UndoCall,
              Interrupt, store
<1>5. CASE Restart
  BY <1>1, <1>5 DEF Restart
<1>6. CASE UNCHANGED vars
  BY <1>1, <1>6 DEF vars
<1> QED BY <1>1, <1>2, <1>3, <1>4, <1>5, <1>6 DEF Next

LEMMA StoredInvariant == Spec => []RunsOK
<1>1. Init => RunsOK
  <2>1. RunOK(NoRun, NoFinding)
    BY Succeeded(<<>>) = {} DEF NoRun, RunOK, Ordered, Initial, Succeeded
  <2> QED BY <2>1 DEF Init, RunsOK
<1>2. IInv /\ RunsOK /\ [Next]_vars => RunsOK'
  BY StoredStep
<1> QED BY <1>1, <1>2, Invariant, PTL DEF Spec

(* However executes interleave, a run's successes are recorded in playbook   *)
(* order and each at most once.                                              *)
THEOREM SuccessesAreInOrder == Spec => []SuccessesInOrder
<1>1. RunsOK => SuccessesInOrder
  BY DEF RunsOK, RunOK, Ordered, SuccessesInOrder, Lifecycle!SuccessesInOrder
<1> QED BY <1>1, StoredInvariant, PTL

(* A run is marked completed only with the success of every step stored.     *)
THEOREM CompletedIsJustified == Spec => []CompletedMeansAllSucceeded
<1>1. RunsOK => CompletedMeansAllSucceeded
  BY SameGates DEF RunsOK, RunOK, CompletedMeansAllSucceeded,
                   Lifecycle!CompletedMeansAllSucceeded
<1> QED BY <1>1, StoredInvariant, PTL

(* No stored result, approval or version is ever lost or rewritten.          *)
THEOREM HistoryIsKept == Spec => HistoryOnlyGrows
<1>1. IInv /\ RunsOK /\ [Next]_vars => [Lifecycle!HistoryStep]_(Lifecycle!vars)
  BY StoredStep
<1> QED BY <1>1, Invariant, StoredInvariant, PTL
        DEF Spec, HistoryOnlyGrows, Lifecycle!HistoryOnlyGrows

-----------------------------------------------------------------------------
(***************************************************************************)
(* The lifecycle itself: types, and every record as RunOK says.  The       *)
(* refinement carries what is proved of it over to the engine.             *)
(***************************************************************************)
LifecycleTypes == runs \in [RunId -> Run] /\ finding \in [RunId -> Finding]

LifecycleInv == LifecycleTypes /\ \A r \in RunId : RunOK(runs[r], finding[r])

\* The property SuccessesApproved of the lifecycle
RecordsApproved ==
  \A r \in RunId : \A s \in Succeeded(runs[r].results) :
    /\ finding[r].eligibility # "none"
    /\ RequiresApproval(s, finding[r]) => Approved(s, runs[r].approvals)

LEMMA SameProperties ==
  /\ Lifecycle!TypeOK <=> LifecycleTypes
  /\ Lifecycle!SuccessesInOrder <=> SuccessesInOrder
  /\ Lifecycle!CompletedMeansAllSucceeded <=> CompletedMeansAllSucceeded
  /\ Lifecycle!SuccessesApproved <=> RecordsApproved
  /\ Lifecycle!NoFinding = NoFinding
<1>1. Lifecycle!Run = Run
  BY SameTypes DEF Lifecycle!Run, Run, Lifecycle!RunStatus, RunStatus
<1>2. Lifecycle!TypeOK <=> LifecycleTypes
  BY <1>1, SameTypes DEF Lifecycle!TypeOK, LifecycleTypes
<1>3. Lifecycle!SuccessesInOrder <=> SuccessesInOrder
  BY DEF Lifecycle!SuccessesInOrder, SuccessesInOrder
<1>4. Lifecycle!CompletedMeansAllSucceeded <=> CompletedMeansAllSucceeded
  BY SameGates DEF Lifecycle!CompletedMeansAllSucceeded, CompletedMeansAllSucceeded
<1>5. \A s, as : Lifecycle!Approved(s, as) = Approved(s, as)
  BY DEF Lifecycle!Approved, Approved
<1>6. Lifecycle!SuccessesApproved <=> RecordsApproved
  BY <1>5, SameGates DEF Lifecycle!SuccessesApproved, RecordsApproved
<1>7. Lifecycle!NoFinding = NoFinding
  BY DEF Lifecycle!NoFinding, NoFinding
<1> QED BY <1>2, <1>3, <1>4, <1>6, <1>7

(* Storing a well-formed record keeps the invariant.                         *)
LEMMA StoreKeepsLifecycle ==
  ASSUME LifecycleInv, NEW r \in RunId, NEW run \in Run, RunOK(run, finding[r]), Lifecycle!Store(r, run)
  PROVE  LifecycleInv'
<1>1. NextVersion(run) \in Run
  BY DEF NextVersion, Run
<1>2. RunOK(NextVersion(run), finding[r])
  BY RunOKVersion
<1>3. /\ runs' = [runs EXCEPT ![r] = NextVersion(run)]
      /\ finding' = finding
      /\ LifecycleTypes
  BY SameWrites DEF Lifecycle!Store, LifecycleInv
<1>4. LifecycleTypes'
  BY <1>1, <1>3 DEF LifecycleTypes
<1>5. ASSUME NEW q \in RunId
      PROVE  RunOK(runs'[q], finding'[q])
  <2>1. CASE q = r
    BY <1>2, <1>3, <2>1 DEF LifecycleTypes
  <2>2. CASE q # r
    <3>1. runs'[q] = runs[q]
      BY <1>3, <2>2 DEF LifecycleTypes
    <3> QED BY <1>3, <3>1 DEF LifecycleInv
  <2> QED BY <2>1, <2>2
<1> QED BY <1>4, <1>5 DEF LifecycleInv

(* The invariant of the abstract lifecycle.                                  *)
LEMMA LifecycleInductive == Lifecycle!Spec => []LifecycleInv
<1>1. Lifecycle!Init => LifecycleInv
  <2> SUFFICES ASSUME Lifecycle!Init PROVE LifecycleInv
    OBVIOUS
  <2>1. NoRun \in Run
    BY DEF NoRun, Run, RunStatus
  <2>2. LifecycleTypes
    BY <2>1, SameTypes, SameProperties DEF Lifecycle!Init, LifecycleTypes, Finding
  <2>3. Succeeded(<<>>) = {}
    BY DEF Succeeded
  <2>4. RunOK(NoRun, NoFinding)
    BY <2>3 DEF RunOK, NoRun, Ordered, Initial
  <2> QED BY <2>2, <2>4, SameTypes, SameProperties DEF Lifecycle!Init, LifecycleInv
<1>2. LifecycleInv /\ [Lifecycle!Next]_(Lifecycle!vars) => LifecycleInv'
  <2> SUFFICES ASSUME LifecycleInv, [Lifecycle!Next]_(Lifecycle!vars) PROVE LifecycleInv'
    OBVIOUS
  <2>1. CASE UNCHANGED Lifecycle!vars
    BY <2>1 DEF Lifecycle!vars, LifecycleInv, LifecycleTypes
  <2> SUFFICES ASSUME NEW r \in RunId,
                      \/ \E f \in Finding : Lifecycle!Propose(r, f)
                      \/ Lifecycle!Simulate(r)
                      \/ \E a \in Approval : Lifecycle!Approve(r, a) \/ Lifecycle!GrantRollback(r, a)
                      \/ \E res \in Lifecycle!NewResults(r) : Lifecycle!StepSucceeds(r, res) \/ Lifecycle!StepFails(r, res)
                      \/ Lifecycle!Complete(r)
                      \/ Lifecycle!Halt(r)
                      \/ Lifecycle!Rollback(r)
               PROVE  LifecycleInv'
    BY <2>1, SameTypes DEF Lifecycle!Next
  <2> DEFINE run == runs[r]
             f   == finding[r]
  <2>2. run \in Run /\ f \in Finding /\ RunOK(run, f)
    BY DEF LifecycleInv, LifecycleTypes
  <2>3. \E a \in Approval : TRUE
    <3>1. 1 \in Step
      BY RulesAssumption DEF Step
    <3>2. [steps |-> Step, token |-> TRUE] \in Approval
      BY <3>1 DEF Approval
    <3> QED BY <3>2
  <2>4. \E res \in StepResult : TRUE
    <3>1. [step |-> 1, status |-> "failed", ref |-> FALSE, evidence |-> 0] \in StepResult
      BY RulesAssumption DEF StepResult, StepStatus, Step
    <3> QED BY <3>1
  <2>5. ASSUME NEW p \in Finding, Lifecycle!Propose(r, p)
        PROVE  LifecycleInv'
    <3>1. NewRun \in Run /\ RunOK(NewRun, p)
      <4>1. NoRun \in Run
        BY DEF NoRun, Run, RunStatus
      <4>2. NewRun \in Run
        BY <4>1 DEF NewRun, Run
      <4>3. NewRun.status = "proposed" /\ NewRun.results = <<>>
        BY DEF NewRun, NoRun
      <4>4. Succeeded(<<>>) = {}
        BY DEF Succeeded
      <4> QED BY <4>2, <4>3, <4>4 DEF RunOK, Ordered, Initial
    <3>2. LifecycleTypes'
      BY <2>5, <3>1, SameTypes DEF Lifecycle!Propose, LifecycleInv, LifecycleTypes
    <3>3. ASSUME NEW q \in RunId
          PROVE  RunOK(runs'[q], finding'[q])
      <4>1. CASE q = r
        <5>1. runs'[q] = NewRun /\ finding'[q] = p
          BY <2>5, <4>1, SameTypes DEF Lifecycle!Propose, LifecycleInv, LifecycleTypes
        <5> QED BY <3>1, <5>1
      <4>2. CASE q # r
        <5>1. runs'[q] = runs[q] /\ finding'[q] = finding[q]
          BY <2>5, <4>2 DEF Lifecycle!Propose, LifecycleInv, LifecycleTypes
        <5> QED BY <5>1 DEF LifecycleInv
      <4> QED BY <4>1, <4>2
    <3> QED BY <3>2, <3>3 DEF LifecycleInv
  <2>6. CASE Lifecycle!Simulate(r)
    <3>1. PICK a \in Approval, res \in StepResult : TRUE
      BY <2>3, <2>4
    <3>2. Simulated(run, f) \in Run /\ RunOK(Simulated(run, f), f)
      BY <2>2, <3>1, RuleTypes, RulesKeepRunOK, <<>> \in Seq(StepResult)
    <3> QED BY <2>6, <3>2, SameGates, SameWrites, StoreKeepsLifecycle DEF Lifecycle!Simulate
  <2>7. ASSUME NEW a \in Approval, Lifecycle!Approve(r, a)
        PROVE  LifecycleInv'
    <3>1. PICK res \in StepResult : TRUE
      BY <2>4
    <3>2. WithApproval(run, f, a) \in Run /\ RunOK(WithApproval(run, f, a), f)
      BY <2>2, <3>1, RuleTypes, RulesKeepRunOK, <<>> \in Seq(StepResult)
    <3> QED BY <2>7, <3>2, SameGates, SameWrites, StoreKeepsLifecycle DEF Lifecycle!Approve
  <2>8. ASSUME NEW a \in Approval, Lifecycle!GrantRollback(r, a)
        PROVE  LifecycleInv'
    <3>1. PICK res \in StepResult : TRUE
      BY <2>4
    <3>2. RollbackGranted(run, a) \in Run /\ RunOK(RollbackGranted(run, a), f)
      BY <2>2, <3>1, RuleTypes, RulesKeepRunOK, <<>> \in Seq(StepResult)
    <3> QED BY <2>8, <3>2, SameGates, SameWrites, StoreKeepsLifecycle DEF Lifecycle!GrantRollback
  <2>9. ASSUME NEW res \in Lifecycle!NewResults(r), Lifecycle!StepSucceeds(r, res)
        PROVE  LifecycleInv'
    <3>1. PICK a \in Approval : TRUE
      BY <2>3
    <3>2. res \in StepResult
      BY <2>9, SameTypes DEF Lifecycle!StepSucceeds
    <3>3. WithSuccess(run, res) \in Run /\ RunOK(WithSuccess(run, res), f)
      BY <2>2, <2>9, <3>1, <3>2, RuleTypes, RulesKeepRunOK, SameGates, <<>> \in Seq(StepResult)
         DEF Lifecycle!StepSucceeds
    <3> QED BY <2>9, <3>3, SameGates, SameWrites, StoreKeepsLifecycle DEF Lifecycle!StepSucceeds
  <2>10. ASSUME NEW res \in Lifecycle!NewResults(r), Lifecycle!StepFails(r, res)
         PROVE  LifecycleInv'
    <3>1. PICK a \in Approval : TRUE
      BY <2>3
    <3>2. res \in StepResult
      BY <2>10, SameTypes DEF Lifecycle!StepFails
    <3>3. WithFailure(run, res) \in Run /\ RunOK(WithFailure(run, res), f)
      BY <2>2, <2>10, <3>1, <3>2, RuleTypes, RulesKeepRunOK, SameGates, <<>> \in Seq(StepResult)
         DEF Lifecycle!StepFails
    <3> QED BY <2>10, <3>3, SameGates, SameWrites, StoreKeepsLifecycle DEF Lifecycle!StepFails
  <2>11. CASE Lifecycle!Complete(r)
    <3>1. PICK a \in Approval, res \in StepResult : TRUE
      BY <2>3, <2>4
    <3>2. Completed(run) \in Run /\ RunOK(Completed(run), f)
      BY <2>2, <2>11, <3>1, RuleTypes, RulesKeepRunOK, SameGates, <<>> \in Seq(StepResult)
         DEF Lifecycle!Complete
    <3> QED BY <2>11, <3>2, SameGates, SameWrites, StoreKeepsLifecycle DEF Lifecycle!Complete
  <2>12. CASE Lifecycle!Halt(r)
    <3>1. PICK a \in Approval, res \in StepResult : TRUE
      BY <2>3, <2>4
    <3>2. Halted(run) \in Run /\ RunOK(Halted(run), f)
      BY <2>2, <3>1, RuleTypes, RulesKeepRunOK, <<>> \in Seq(StepResult)
    <3> QED BY <2>12, <3>2, SameGates, SameWrites, StoreKeepsLifecycle DEF Lifecycle!Halt
  <2>13. CASE Lifecycle!Rollback(r)
    <3> DEFINE u == Lifecycle!Added(r)
    <3>1. PICK a \in Approval, res \in StepResult : TRUE
      BY <2>3, <2>4
    <3>2. /\ u \in Seq(StepResult)
          /\ \A i \in DOMAIN u : u[i].status \notin {"succeeded", "failed"}
          /\ Lifecycle!Store(r, RolledBack(run, u))
      BY <2>13, SameTypes, SameWrites DEF Lifecycle!Rollback
    <3> HIDE DEF u
    <3>3. RolledBack(run, u) \in Run /\ RunOK(RolledBack(run, u), f)
      BY <2>2, <3>1, <3>2, RuleTypes, RulesKeepRunOK
    <3> QED BY <2>2, <3>2, <3>3, StoreKeepsLifecycle
  <2> QED BY <2>5, <2>6, <2>7, <2>8, <2>9, <2>10, <2>11, <2>12, <2>13
<1> QED BY <1>1, <1>2, PTL DEF Lifecycle!Spec

(* In the lifecycle the recorded success of a gated step stays covered by an *)
(* approval the run still holds, and successes are in order.                 *)
THEOREM LifecycleIsSound ==
  Lifecycle!Spec => [](/\ Lifecycle!TypeOK /\ Lifecycle!SuccessesInOrder
                       /\ Lifecycle!CompletedMeansAllSucceeded /\ Lifecycle!SuccessesApproved)
<1>1. LifecycleInv => /\ Lifecycle!TypeOK /\ Lifecycle!SuccessesInOrder
                      /\ Lifecycle!CompletedMeansAllSucceeded /\ Lifecycle!SuccessesApproved
  <2> SUFFICES ASSUME LifecycleInv
               PROVE  LifecycleTypes /\ SuccessesInOrder /\ CompletedMeansAllSucceeded /\ RecordsApproved
    BY SameProperties
  <2>1. SuccessesInOrder
    BY DEF LifecycleInv, RunOK, Ordered, SuccessesInOrder, Lifecycle!SuccessesInOrder
  <2>2. CompletedMeansAllSucceeded
    BY SameGates DEF LifecycleInv, RunOK, CompletedMeansAllSucceeded, Lifecycle!CompletedMeansAllSucceeded
  <2>3. RecordsApproved
    BY DEF LifecycleInv, RunOK, RecordsApproved
  <2> QED BY <2>1, <2>2, <2>3 DEF LifecycleInv
<1> QED BY <1>1, LifecycleInductive, PTL

(* No interleaving of the engine's calls withdraws an approval under which a *)
(* gated step has succeeded, or a success from its order: of the lifecycle,  *)
(* and so of the engine that implements it.                                  *)
THEOREM SuccessesStayApproved == Spec => []Lifecycle!SuccessesApproved
<1>1. Spec => Lifecycle!Spec
  BY Refinement DEF ImplementsLifecycle
<1> QED BY <1>1, LifecycleIsSound, PTL
=============================================================================
