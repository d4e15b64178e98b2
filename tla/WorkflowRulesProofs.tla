-------------------------- MODULE WorkflowRulesProofs --------------------------
(* Lemmas about the operators of WorkflowRules. *)
EXTENDS WorkflowRules, TLAPS

\* new is a later state of the stored record old, or old itself
Extends(old, new) ==
  /\ old.version <= new.version
  /\ old.version = new.version => old = new
  /\ old.approvals \subseteq new.approvals
  /\ Succeeded(old.results) \subseteq Succeeded(new.results)
  /\ RollbackSteps(old.results) \subseteq RollbackSteps(new.results)

\* new is what storing an operation's outcome on the record old gives
Grows(old, new) ==
  /\ new.version = old.version + 1
  /\ old.approvals \subseteq new.approvals
  /\ Len(old.results) <= Len(new.results)
  /\ \A i \in DOMAIN old.results : new.results[i] = old.results[i]

(* Appending a result adds its step to the succeeded ones if it is a success *)
(* (_step_succeeded over [*run.results, result]).                            *)
LEMMA SucceededAppend ==
  ASSUME NEW q \in Seq(StepResult), NEW res \in StepResult
  PROVE  Succeeded(Append(q, res)) =
           Succeeded(q) \cup (IF res.status = "succeeded" THEN {res.step} ELSE {})
<1> DEFINE p == Append(q, res)
<1>1. /\ Len(p) = Len(q) + 1
      /\ \A i \in 1 .. Len(q) : p[i] = q[i]
      /\ p[Len(q) + 1] = res
  OBVIOUS
<1>2. DOMAIN p = 1 .. Len(p) /\ DOMAIN q = 1 .. Len(q) /\ Len(q) \in Nat
  OBVIOUS
<1>3. DOMAIN p = DOMAIN q \cup {Len(q) + 1}
  BY <1>1, <1>2
<1>4. res.step \in Step
  BY DEF StepResult
<1> HIDE DEF p
<1>5. ASSUME NEW s \in Step
      PROVE  s \in Succeeded(p) <=> (s \in Succeeded(q) \/ (res.status = "succeeded" /\ s = res.step))
  BY <1>1, <1>2, <1>3 DEF Succeeded
<1>6. Succeeded(p) \subseteq Step /\ Succeeded(q) \subseteq Step
  BY DEF Succeeded
<1> QED BY <1>4, <1>5, <1>6 DEF p

(* No result is forgotten when others are added behind it: the recorded      *)
(* successes and the steps that can be rolled back only grow.                *)
LEMMA ResultsGrow ==
  ASSUME NEW q \in Seq(StepResult), NEW p \in Seq(StepResult),
         Len(q) <= Len(p), \A i \in DOMAIN q : p[i] = q[i]
  PROVE  /\ Succeeded(q) \subseteq Succeeded(p)
         /\ RollbackSteps(q) \subseteq RollbackSteps(p)
<1>1. DOMAIN q \subseteq DOMAIN p
  BY DOMAIN q = 1 .. Len(q), DOMAIN p = 1 .. Len(p), Len(q) \in Nat, Len(p) \in Nat
<1> QED BY <1>1 DEF Succeeded, RollbackSteps

(* Every record an operation stores is a run record (models.py Run).         *)
LEMMA RuleTypes ==
  ASSUME NEW run \in Run, NEW f \in Finding, NEW a \in Approval,
         NEW res \in StepResult, NEW report \in Seq(StepResult)
  PROVE  /\ Simulated(run, f) \in Run
         /\ WithApproval(run, f, a) \in Run
         /\ WithSuccess(run, res) \in Run
         /\ WithFailure(run, res) \in Run
         /\ Completed(run) \in Run
         /\ Halted(run) \in Run
         /\ RollbackGranted(run, a) \in Run
         /\ RolledBack(run, report) \in Run
         /\ NextVersion(run) \in Run
<1>1. SimulatedStatus(f, run.approvals) \in RunStatus
  BY DEF SimulatedStatus, RunStatus
<1>2. ApprovalStatus(f, run.approvals \cup {a}) \in RunStatus
  BY DEF ApprovalStatus, RunStatus
<1>3. Append(run.results, res) \in Seq(StepResult)
  BY DEF Run
<1>4. run.results \o report \in Seq(StepResult)
  BY DEF Run
<1>5. /\ run.approvals \cup {a} \in SUBSET Approval
      /\ run.version + 1 \in Nat
  BY DEF Run
<1>6. /\ \A st \in RunStatus : [run EXCEPT !.status = st] \in Run
      /\ \A as \in SUBSET Approval : [run EXCEPT !.approvals = as] \in Run
      /\ \A rs \in Seq(StepResult) : [run EXCEPT !.results = rs] \in Run
      /\ \A n \in Nat : [run EXCEPT !.version = n] \in Run
  BY DEF Run
<1>7. /\ \A as \in SUBSET Approval, st \in RunStatus :
           [run EXCEPT !.approvals = as, !.status = st] \in Run
      /\ \A rs \in Seq(StepResult), st \in RunStatus :
           [run EXCEPT !.results = rs, !.status = st] \in Run
  BY DEF Run
<1>8. {"failed", "completed", "halted"} \subseteq RunStatus
  BY DEF RunStatus
<1>9. Simulated(run, f) \in Run
  BY <1>1, <1>6 DEF Simulated
<1>10. WithApproval(run, f, a) \in Run
  BY <1>2, <1>5, <1>7 DEF WithApproval
<1>11. WithSuccess(run, res) \in Run
  BY <1>3, <1>6 DEF WithSuccess
<1>12. WithFailure(run, res) \in Run
  BY <1>3, <1>7, <1>8 DEF WithFailure
<1>13. Completed(run) \in Run /\ Halted(run) \in Run
  BY <1>6, <1>8 DEF Completed, Halted
<1>14. RollbackGranted(run, a) \in Run
  BY <1>5, <1>6 DEF RollbackGranted
<1>15. RolledBack(run, report) \in Run
  BY <1>4, <1>7, <1>8 DEF RolledBack
<1>16. NextVersion(run) \in Run
  BY <1>5, <1>6 DEF NextVersion
<1> QED BY <1>9, <1>10, <1>11, <1>12, <1>13, <1>14, <1>15, <1>16

(* Whatever an operation computes, storing it keeps the results as they are  *)
(* and adds behind them, keeps the approvals, and takes the next version.    *)
LEMMA RulesGrow ==
  ASSUME NEW run \in Run, NEW f \in Finding, NEW a \in Approval,
         NEW res \in StepResult, NEW report \in Seq(StepResult)
  PROVE  /\ Grows(run, NextVersion(Simulated(run, f)))
         /\ Grows(run, NextVersion(WithApproval(run, f, a)))
         /\ Grows(run, NextVersion(WithSuccess(run, res)))
         /\ Grows(run, NextVersion(WithFailure(run, res)))
         /\ Grows(run, NextVersion(Completed(run)))
         /\ Grows(run, NextVersion(Halted(run)))
         /\ Grows(run, NextVersion(RollbackGranted(run, a)))
         /\ Grows(run, NextVersion(RolledBack(run, report)))
<1> DEFINE Later(new) == /\ new.version = run.version + 1
                         /\ run.approvals \subseteq new.approvals
                         /\ \/ new.results = run.results
                            \/ new.results = Append(run.results, res)
                            \/ new.results = run.results \o report
<1>1. ASSUME NEW new, Later(new)
      PROVE  Grows(run, new)
  <2>1. run.results \in Seq(StepResult)
    BY DEF Run
  <2>2. CASE new.results = run.results
    BY <1>1, <2>1, <2>2 DEF Grows
  <2>3. CASE new.results = Append(run.results, res)
    BY <1>1, <2>1, <2>3 DEF Grows
  <2>4. CASE new.results = run.results \o report
    BY <1>1, <2>1, <2>4 DEF Grows
  <2> QED BY <1>1, <2>2, <2>3, <2>4
<1> DEFINE Stored == {Simulated(run, f), WithApproval(run, f, a), WithSuccess(run, res),
                      WithFailure(run, res), Completed(run), Halted(run),
                      RollbackGranted(run, a), RolledBack(run, report)}
<1>2. ASSUME NEW new \in Stored
      PROVE  Later(NextVersion(new))
  BY DEF Simulated, WithApproval, WithSuccess, WithFailure, Completed, Halted,
         RollbackGranted, RolledBack, NextVersion, Run
<1> HIDE DEF Later
<1>3. \A new \in Stored : Grows(run, NextVersion(new))
  BY <1>1, <1>2
<1> QED BY <1>3

(* A record that grew extends the one it grew from.                          *)
LEMMA GrowsExtends ==
  ASSUME NEW old \in Run, NEW new \in Run, Grows(old, new)
  PROVE  Extends(old, new)
<1>1. /\ old.results \in Seq(StepResult) /\ new.results \in Seq(StepResult)
      /\ old.version \in Nat
  BY DEF Run
<1>2. /\ Succeeded(old.results) \subseteq Succeeded(new.results)
      /\ RollbackSteps(old.results) \subseteq RollbackSteps(new.results)
  BY <1>1, ResultsGrow DEF Grows
<1> QED BY <1>1, <1>2 DEF Grows, Extends

(* Extends is reflexive, and transitive on run records.                      *)
LEMMA ExtendsReflexive == ASSUME NEW run \in Run PROVE Extends(run, run)
  BY DEF Extends, Run

LEMMA ExtendsTransitive ==
  ASSUME NEW x \in Run, NEW y \in Run, NEW z \in Run, Extends(x, y), Extends(y, z)
  PROVE  Extends(x, z)
  BY DEF Extends, Run

-----------------------------------------------------------------------------
(* What the results of a record look like: a completed record has every      *)
(* success, successes are ordered, and each is followed by its successors.   *)
Ordered(results) ==
  \A i, j \in DOMAIN results :
    /\ i < j
    /\ results[i].status = "succeeded"
    /\ results[j].status = "succeeded"
    => results[i].step < results[j].step

\* The steps that succeeded are the first ones of the playbook.
Initial(steps) == \A s \in steps : \A t \in Step : t < s => t \in steps

RunOK(run, f) ==
  /\ Ordered(run.results)
  /\ Initial(Succeeded(run.results))
  /\ run.status = "completed" => AllSucceeded(run.results)
  /\ \A s \in Succeeded(run.results) :
        /\ f.eligibility # "none"
        /\ RequiresApproval(s, f) => Approved(s, run.approvals)

(* Approvals only add permissions (_matching_approvals).                     *)
LEMMA ApprovedMonotonic ==
  ASSUME NEW s, NEW x, NEW y, x \subseteq y, Approved(s, x)
  PROVE  Approved(s, y)
BY DEF Approved

(* Adding a result that is no success keeps the order of the successes.      *)
LEMMA OrderedAppend ==
  ASSUME NEW q \in Seq(StepResult), NEW res \in StepResult, Ordered(q),
         res.status = "succeeded" => \A t \in Succeeded(q) : t < res.step
  PROVE  Ordered(Append(q, res))
<1> DEFINE p == Append(q, res)
<1>1. /\ Len(p) = Len(q) + 1 /\ Len(q) \in Nat
      /\ DOMAIN p = 1 .. Len(p) /\ DOMAIN q = 1 .. Len(q)
      /\ \A i \in 1 .. Len(q) : p[i] = q[i]
      /\ p[Len(q) + 1] = res
  OBVIOUS
<1>2. \A i \in DOMAIN q : q[i] \in StepResult
  OBVIOUS
<1>3. \A i \in DOMAIN q : q[i].status = "succeeded" => q[i].step \in Succeeded(q)
  BY <1>2 DEF Succeeded, StepResult
<1> HIDE DEF p
<1>4. ASSUME NEW i \in DOMAIN p, NEW j \in DOMAIN p, i < j,
             p[i].status = "succeeded", p[j].status = "succeeded"
      PROVE  p[i].step < p[j].step
  <2>1. i \in DOMAIN q /\ p[i] = q[i]
    BY <1>1, <1>4
  <2>2. CASE j \in DOMAIN q
    <3>1. p[j] = q[j]
      BY <1>1, <2>2
    <3> QED BY <1>4, <2>1, <2>2, <3>1 DEF Ordered
  <2>3. CASE j \notin DOMAIN q
    <3>1. p[j] = res
      BY <1>1, <2>3
    <3> QED BY <1>3, <1>4, <2>1, <3>1
  <2> QED BY <2>2, <2>3
<1> QED BY <1>4 DEF Ordered, p

(* A rollback report behind the results leaves the successes as they are.    *)
LEMMA ReportKeepsSuccesses ==
  ASSUME NEW q \in Seq(StepResult), NEW u \in Seq(StepResult), Ordered(q),
         \A i \in DOMAIN u : u[i].status \notin {"succeeded", "failed"}
  PROVE  Ordered(q \o u) /\ Succeeded(q \o u) = Succeeded(q)
<1> DEFINE p == q \o u
<1>1. /\ Len(p) = Len(q) + Len(u) /\ Len(q) \in Nat /\ Len(u) \in Nat
      /\ DOMAIN p = 1 .. Len(p) /\ DOMAIN q = 1 .. Len(q) /\ DOMAIN u = 1 .. Len(u)
      /\ \A i \in 1 .. Len(q) : p[i] = q[i]
      /\ \A i \in (Len(q) + 1) .. Len(p) : p[i] = u[i - Len(q)]
  OBVIOUS
<1> HIDE DEF p
<1>2. \A i \in DOMAIN p : p[i].status = "succeeded" => i \in DOMAIN q
  BY <1>1
<1>3. DOMAIN q \subseteq DOMAIN p /\ \A i \in DOMAIN q : p[i] = q[i]
  BY <1>1
<1>4. Ordered(p)
  BY <1>2, <1>3 DEF Ordered
<1>5. Succeeded(p) = Succeeded(q)
  BY <1>2, <1>3 DEF Succeeded
<1> QED BY <1>4, <1>5 DEF p

(* Each operation keeps a well-formed record well formed.                    *)
LEMMA RulesKeepRunOK ==
  ASSUME NEW run \in Run, NEW f \in Finding, NEW a \in Approval,
         NEW res \in StepResult, NEW u \in Seq(StepResult), RunOK(run, f)
  PROVE  /\ RunOK(Simulated(run, f), f)
         /\ RunOK(WithApproval(run, f, a), f)
         /\ AllSucceeded(run.results) => RunOK(Completed(run), f)
         /\ RunOK(Halted(run), f)
         /\ RunOK(RollbackGranted(run, a), f)
         /\ /\ IsNext(res.step, run.results)
            /\ MayExecute(res.step, f, run.approvals, "allow")
            /\ res.status = "succeeded"
            => RunOK(WithSuccess(run, res), f)
         /\ res.status = "failed" => RunOK(WithFailure(run, res), f)
         /\ (\A i \in DOMAIN u : u[i].status \notin {"succeeded", "failed"})
            => RunOK(RolledBack(run, u), f)
<1>1. /\ run.results \in Seq(StepResult)
      /\ \A s \in Succeeded(run.results) : s \in Step
  BY DEF Run, Succeeded
<1>2. \A s \in Succeeded(run.results) : \A more \in SUBSET Approval :
        /\ f.eligibility # "none"
        /\ RequiresApproval(s, f) => Approved(s, run.approvals \cup more)
  BY ApprovedMonotonic DEF RunOK
<1>3. RunOK(Simulated(run, f), f)
  <2>1. Simulated(run, f).status # "completed"
    BY DEF Simulated, SimulatedStatus, Run
  <2> QED BY <2>1 DEF RunOK, Simulated, Run
<1>4. RunOK(WithApproval(run, f, a), f)
  <2> DEFINE new == WithApproval(run, f, a)
  <2>1. /\ new.status # "completed"
        /\ new.results = run.results
        /\ new.approvals = run.approvals \cup {a}
    BY DEF WithApproval, ApprovalStatus, Run
  <2>2. Ordered(new.results)
    BY <2>1 DEF RunOK
  <2>3. \A s \in Succeeded(new.results) :
          /\ f.eligibility # "none"
          /\ RequiresApproval(s, f) => Approved(s, new.approvals)
    BY <1>2, <2>1
  <2>4. RunOK(new, f)
    <3> HIDE DEF new
    <3> QED BY <2>1, <2>2, <2>3 DEF RunOK
  <2> QED BY <2>4
<1>5. AllSucceeded(run.results) => RunOK(Completed(run), f)
  BY DEF RunOK, Completed, Run
<1>6. RunOK(Halted(run), f)
  BY DEF RunOK, Halted, Run
<1>7. RunOK(RollbackGranted(run, a), f)
  <2> DEFINE new == RollbackGranted(run, a)
  <2>1. /\ new.status = run.status
        /\ new.results = run.results
        /\ new.approvals = run.approvals \cup {a}
    BY DEF RollbackGranted, Run
  <2> HIDE DEF new
  <2>2. /\ Ordered(new.results) /\ Initial(Succeeded(new.results))
        /\ new.status = "completed" => AllSucceeded(new.results)
    BY <2>1 DEF RunOK
  <2>3. \A s \in Succeeded(new.results) :
          /\ f.eligibility # "none"
          /\ RequiresApproval(s, f) => Approved(s, new.approvals)
    <3>1. {a} \in SUBSET Approval
      OBVIOUS
    <3>2. \A s \in Succeeded(run.results) :
            /\ f.eligibility # "none"
            /\ RequiresApproval(s, f) => Approved(s, run.approvals \cup {a})
      BY ONLY <1>2, <3>1, Zenon
    <3> QED BY <2>1, <3>2
  <2>4. RunOK(new, f)
    BY <2>2, <2>3 DEF RunOK
  <2> QED BY <2>4 DEF new
<1>8. ASSUME IsNext(res.step, run.results),
             MayExecute(res.step, f, run.approvals, "allow"), res.status = "succeeded"
      PROVE  RunOK(WithSuccess(run, res), f)
  <2> DEFINE new == WithSuccess(run, res)
  <2>1. /\ new.status = run.status
        /\ new.approvals = run.approvals
        /\ new.results = Append(run.results, res)
    BY DEF WithSuccess, Run
  <2>2. Succeeded(new.results) = Succeeded(run.results) \cup {res.step}
    BY <1>1, <1>8, <2>1, SucceededAppend
  <2>3. \A t \in Succeeded(run.results) : t < res.step
    <3> SUFFICES ASSUME NEW t \in Succeeded(run.results) PROVE t < res.step
      OBVIOUS
    <3>1. t \in Int /\ res.step \in Int
      BY <1>1 DEF Step, StepResult
    <3>2. ~ (t > res.step)
      BY <1>1, <1>8 DEF RunOK, Initial, IsNext
    <3>3. t # res.step
      BY <1>8 DEF IsNext
    <3> QED BY <3>1, <3>2, <3>3
  <2>4. Ordered(new.results)
    BY <1>1, <2>1, <2>3, OrderedAppend DEF RunOK
  <2>5. Initial(Succeeded(new.results))
    BY <1>8, <2>2 DEF RunOK, Initial, IsNext
  <2>6. new.status = "completed" => AllSucceeded(new.results)
    BY <2>1, <2>2, <1>8 DEF RunOK, AllSucceeded, IsNext
  <2>7. \A s \in Succeeded(new.results) :
          /\ f.eligibility # "none"
          /\ RequiresApproval(s, f) => Approved(s, new.approvals)
    BY <1>8, <2>1, <2>2 DEF RunOK, MayExecute
  <2> QED BY <2>4, <2>5, <2>6, <2>7 DEF RunOK
<1>9. ASSUME res.status = "failed"
      PROVE  RunOK(WithFailure(run, res), f)
  <2> DEFINE new == WithFailure(run, res)
  <2>1. /\ new.status = "failed"
        /\ new.approvals = run.approvals
        /\ new.results = Append(run.results, res)
    BY DEF WithFailure, Run
  <2>2. Succeeded(new.results) = Succeeded(run.results)
    BY <1>1, <1>9, <2>1, SucceededAppend
  <2>3. Ordered(new.results)
    BY <1>1, <1>9, <2>1, OrderedAppend DEF RunOK
  <2> QED BY <2>1, <2>2, <2>3 DEF RunOK
<1>10. ASSUME \A i \in DOMAIN u : u[i].status \notin {"succeeded", "failed"}
       PROVE  RunOK(RolledBack(run, u), f)
  <2> DEFINE new == RolledBack(run, u)
  <2>1. /\ new.status = "halted"
        /\ new.approvals = run.approvals
        /\ new.results = run.results \o u
    BY DEF RolledBack, Run
  <2>2. Ordered(new.results) /\ Succeeded(new.results) = Succeeded(run.results)
    BY <1>1, <1>10, <2>1, ReportKeepsSuccesses DEF RunOK
  <2> QED BY <2>1, <2>2 DEF RunOK
<1> QED BY <1>3, <1>4, <1>5, <1>6, <1>7, <1>8, <1>9, <1>10

(* NextVersion touches the version only.                                     *)
LEMMA RunOKVersion ==
  ASSUME NEW run \in Run, NEW f, RunOK(run, f)
  PROVE  RunOK(NextVersion(run), f)
BY DEF RunOK, NextVersion, Run
=============================================================================
