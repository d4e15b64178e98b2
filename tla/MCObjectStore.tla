----------------------------- MODULE MCObjectStore -----------------------------
(* Small instances of ObjectStore for TLC. *)
EXTENDS ObjectStore, TLC

CONSTANTS host, user, k1, k2

\* An observation of a host carries either of two keys or both.
HostKeys == [t \in {host} |-> {<<k1>>, <<k2>>, <<k2, k1>>}]

\* One key that observations of either type carry
SharedKey == [t \in {host, user} |-> {<<k1>>}]

\* Tenants and sources are only compared
Symmetry == Permutations(Tenant) \cup Permutations(Source)
================================================================================
