------------------------------ MODULE MCEvidence ------------------------------
(* Small instances of Evidence for TLC. *)
EXTENDS Evidence

CONSTANTS local, t1, l1, l2

\* Each tenant has a lock of its own.
OwnLocks == [t \in Tenant |-> IF t = local THEN l1 ELSE l2]

\* A package of two records, and one that names a record twice
TwoPackages == {<<1, 2>>, <<2, 2>>}
NoPackages  == {}
===============================================================================
