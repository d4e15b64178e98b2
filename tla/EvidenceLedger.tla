---------------------------- MODULE EvidenceLedger ----------------------------
(***************************************************************************)
(* What an evidence store promises, and what InMemoryEvidenceStore         *)
(* (evidence/memory.py) does between two awaits: records are appended to   *)
(* the chain of their tenant and never touched again, and every access     *)
(* leaves its rows of custody.  Hashes, locks and transactions are not     *)
(* visible at this level; Evidence implements it.                          *)
(***************************************************************************)
EXTENDS Naturals, Sequences, FiniteSets, SequencesExt

CONSTANTS
  Tenant,      \* the partitions, the local one (tenant_id None) among them
  Content,     \* what a record observes
  MaxRecords   \* bound: ids handed out

Id     == 1 .. MaxRecords
Access == {"intake", "read", "package"}

VARIABLES
  chains,    \* _chains: the records of each tenant, oldest first
  custody,   \* _custody: the rows about each record, by action
  packages   \* _packages

vars == <<chains, custody, packages>>

Init ==
  /\ chains = [t \in Tenant |-> <<>>]
  /\ custody = [id \in Id |-> [a \in Access |-> 0]]
  /\ packages = <<>>

Recorded(t) == {chains[t][k].id : k \in DOMAIN chains[t]}

\* How often a sequence mentions the id
Mentions(ids, id) == Cardinality({k \in DOMAIN ids : ids[k] = id})

\* One row for every mention of the record in ids
Logged(ids, action) ==
  [id \in Id |-> [custody[id] EXCEPT ![action] = @ + Mentions(ids, id)]]

\* new_id: there is nothing about this id yet
Add(t, id, content) ==
  /\ custody[id] = [a \in Access |-> 0]
  /\ custody' = Logged(<<id>>, "intake")
  /\ chains' = [chains EXCEPT ![t] = Append(@, [id |-> id, content |-> content])]
  /\ UNCHANGED packages

Get(id) ==
  /\ custody' = Logged(<<id>>, "read")
  /\ \E t \in Tenant : id \in Recorded(t)
  /\ UNCHANGED <<chains, packages>>

\* The members of a package belong to one tenant.
Package(ids) ==
  /\ \E t \in Tenant : ToSet(ids) \subseteq Recorded(t)
  /\ packages' = Append(packages, ids)
  /\ custody' = Logged(ids, "package")
  /\ UNCHANGED chains

NewPackages == {packages'[i] : i \in DOMAIN packages'}

Next ==
  \/ \E t \in Tenant, id \in Id, content \in Content : Add(t, id, content)
  \/ \E id \in Id : Get(id)
  \/ \E ids \in NewPackages : Package(ids)

Spec == Init /\ [][Next]_vars
===============================================================================
