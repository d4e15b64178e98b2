------------------------------ MODULE MCWorkflow ------------------------------
(* Small instances of Workflow for TLC. *)
EXTENDS Workflow, TLC

CONSTANTS r1, c1, c2

\* A read-only step, then a destructive one that its handler can reverse
EffectReadThenDestroy == [s \in 1 .. 2 |-> IF s = 1 THEN "read_only" ELSE "destructive"]
OnlySecond == {2}
AnyVerdict == [s \in 1 .. StepCount |-> {"allow", "require_approval", "deny"}]
Granted    == [s \in 1 .. StepCount |-> {"allow"}]
SomeFindings ==
  {[eligibility |-> "none", requires_approval |-> FALSE],
   [eligibility |-> "assisted", requires_approval |-> FALSE]}
NoFindings == {}

\* One reversible step
EffectReversible == [s \in 1 .. 1 |-> "reversible"]
OnlyFirst == {1}
Nothing   == {}

Clients == {c1, c2}
Runs    == {r1}
Symmetry == Permutations(Clients)
=============================================================================
