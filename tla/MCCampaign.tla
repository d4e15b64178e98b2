------------------------------ MODULE MCCampaign ------------------------------
(* A small instance of Campaign for TLC: two phases of one run. *)
EXTENDS Campaign, TLC

CONSTANTS r1, r2, f1, c1, c2

ReadOnly  == [s \in 1 .. 1 |-> "read_only"]
Undoable1 == [s \in 1 .. 1 |-> "reversible"]
OnlyStep  == {1}
Nothing   == {}
OneAssisted == {[eligibility |-> "assisted", requires_approval |-> FALSE]}
Granted   == [s \in 1 .. 1 |-> {"allow"}]
Clients   == {c1, c2}
Symmetry  == Permutations(Clients)
OneEach   == <<<<r1>>, <<r2>>>>
=============================================================================
