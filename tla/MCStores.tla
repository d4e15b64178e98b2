------------------------------- MODULE MCStores -------------------------------
(* Small instances of the transactions of two Postgres stores, which share *)
(* no rows.  A behaviour exercises one of them, the part; the other stays  *)
(* as it began.                                                            *)
EXTENDS Findings, ObjectTransactions, TLC
CONSTANTS c1, c2, k1, k2, o1, o2, t1, null

VARIABLE part

Clients  == {c1, c2}
Keys     == {k1, k2}
Feeds    == {o1, o2}
Symmetry == Permutations(Clients) \cup Permutations(Keys) \cup Permutations(Feeds)

StoresInit ==
  /\ part \in {"findings", "objects"}
  /\ Init0 /\ ObjectsInit

StoresNext ==
  \/ part = "findings" /\ Next0 /\ UNCHANGED <<part, objectVars>>
  \/ part = "objects" /\ ObjectsNext /\ UNCHANGED <<part, vars>>

StoresSpec == StoresInit /\ [][StoresNext]_<<part, vars, objectVars>>
=============================================================================
