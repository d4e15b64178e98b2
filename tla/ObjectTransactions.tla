-------------------------- MODULE ObjectTransactions --------------------------
(***************************************************************************)
(* PostgresObjectStore (objects/postgres.py): READ COMMITTED transactions  *)
(* over the rows of objects, of their natural keys, of their history and   *)
(* of relationships (objects/ddl.py).  An action is a statement at which   *)
(* another transaction may interfere.  All objects are of one type, and    *)
(* callers merge two objects that were live when they asked for it.        *)
(***************************************************************************)
EXTENDS Naturals, Sequences

CONSTANTS
  Session,      \* callers of the store
  Scope,        \* tenant_id
  Unscoped,     \* tenant_id NULL, the only one in local mode
  NaturalKey, Source,
  Number,       \* object ids
  MaxTxs        \* bound: transactions started

ASSUME ObjectTransactionsAssumption ==
  /\ Unscoped \in Scope /\ "none" \notin Session
  /\ Number \subseteq Nat \ {0} /\ MaxTxs \in Nat

VARIABLES
  table,     \* aq_object, version 0 where there is no row
  keyRows,   \* aq_object_natural_key: [scope, key, id]
  snapshots, \* aq_object_history of each object, in the order of seq
  edges,     \* aq_relationship: [from, to]
  owner,     \* the transaction that holds the row of an object FOR UPDATE
  tx,        \* the transaction of each session
  txs,       \* counter of the bound
  seen,      \* history: observations committed, <<object, source>>
  overlap    \* history: two transactions have overlapped

objectVars == <<table, keyRows, snapshots, edges, owner, tx, txs, seen, overlap>>

NoRow == [scope |-> Unscoped, keys |-> {}, sources |-> {}, state |-> "active", into |-> 0, version |-> 0]
Rows  == {i \in Number : table[i].version > 0}
LiveRow(i) == table[i].version > 0 /\ table[i].state \in {"active", "archived"}

VALID_TRANSITIONS == [active   |-> {"archived", "merged", "deleted"},
                      archived |-> {"active", "merged", "deleted"},
                      merged   |-> {}, deleted |-> {}]

\* writes: rows written; left: of these, still to be indexed, the first one now; missing: its
\* keys to insert; dropped: objects whose key rows are deleted; added: key rows inserted.
NoTx == [pc |-> "idle", op |-> "none", id |-> 0, other |-> 0, copy |-> NoRow, source |-> Unscoped,
         writes |-> [i \in {} |-> NoRow], left |-> <<>>, missing |-> {}, dropped |-> {}, added |-> {}]

ObjectsInit ==
  /\ table = [i \in Number |-> NoRow]
  /\ keyRows = {} /\ edges = {} /\ seen = {}
  /\ snapshots = [i \in Number |-> <<>>]
  /\ owner = [i \in Number |-> "none"]
  /\ tx = [s \in Session |-> NoTx]
  /\ txs = 0 /\ overlap = FALSE

Stands(s, pc) == tx[s].pc = pc
KeepTables == UNCHANGED <<table, keyRows, snapshots, edges, seen>>
KeepMarks  == UNCHANGED <<txs, overlap>>

Opens(s, new) ==
  /\ Stands(s, "idle") /\ txs < MaxTxs
  /\ txs' = txs + 1
  /\ tx' = [tx EXCEPT ![s] = new]
  /\ overlap' = (overlap \/ \E r \in Session : ~ Stands(r, "idle"))
  /\ KeepTables /\ UNCHANGED owner

Closes(s) ==
  /\ tx' = [tx EXCEPT ![s] = NoTx]
  /\ owner' = [i \in Number |-> IF owner[i] = s THEN "none" ELSE owner[i]]
  /\ KeepMarks

\* Mutant of RowIsFree: the row is read without FOR UPDATE.
RowIsFree_Always(i) == owner[i] \in Session \cup {"none"}

\* SELECT ... FOR UPDATE waits for the holder and then sees what it committed.
RowIsFree(i) == owner[i] = "none"

\* _save: the rows are updated, and the key rows of the first one deleted
Saving(t, order, writes) ==
  [t EXCEPT !.pc = "index", !.writes = writes, !.left = order,
            !.missing = writes[order[1]].keys, !.dropped = {order[1]}]

Saves(s, i, row) ==
  /\ owner' = [owner EXCEPT ![i] = s]
  /\ tx' = [tx EXCEPT ![s] = Saving(@, <<i>>, [j \in {i} |-> row])]
  /\ KeepTables /\ KeepMarks

-----------------------------------------------------------------------------
(* upsert                                                                  *)

UpsertOpens(s, scope, keys, source) ==
  Opens(s, [NoTx EXCEPT !.pc = "lookup", !.op = "upsert", !.source = source,
                        !.copy = [NoRow EXCEPT !.scope = scope, !.keys = keys]])

\* Mutant of Matches: an archived object is not found.
Matches_Active(s, i) ==
  /\ LiveRow(i) /\ table[i].state = "active"
  /\ \E k \in tx[s].copy.keys : [scope |-> tx[s].copy.scope, key |-> k, id |-> i] \in keyRows

\* _find_by_nk, whichever of its keys the caller has put first
Matches(s, i) ==
  LiveRow(i) /\ \E k \in tx[s].copy.keys : [scope |-> tx[s].copy.scope, key |-> k, id |-> i] \in keyRows

UpsertFinds(s) ==
  /\ Stands(s, "lookup")
  /\ \E i \in Rows : Matches(s, i) /\ tx' = [tx EXCEPT ![s].pc = "lock", ![s].id = i]
  /\ KeepTables /\ KeepMarks /\ UNCHANGED owner

\* The row is taken as it now is, even if it was merged or deleted since it was found.
UpsertLocks(s) ==
  /\ Stands(s, "lock") /\ tx[s].op = "upsert" /\ RowIsFree(tx[s].id)
  /\ Saves(s, tx[s].id, [table[tx[s].id] EXCEPT !.sources = @ \cup {tx[s].source},
                                                !.version = @ + 1])

UpsertInserts(s) ==
  /\ Stands(s, "lookup") /\ ~ \E i \in Rows : Matches(s, i)
  /\ \E i \in Number \ Rows :
       /\ \A r \in Session : i \notin DOMAIN tx[r].writes
       /\ \A j \in Number \ Rows : j < i => \E r \in Session : j \in DOMAIN tx[r].writes
       /\ Saves(s, i, [tx[s].copy EXCEPT !.sources = {tx[s].source}, !.version = 1])

-----------------------------------------------------------------------------
(* update and set_state, by a caller that has read the object              *)

ChangeOpens(s, i, op) ==
  /\ i \in Rows /\ (op = "update" => LiveRow(i))
  /\ Opens(s, [NoTx EXCEPT !.pc = "lock", !.op = op, !.id = i, !.copy = table[i]])

VersionHolds(s) == table[tx[s].id].version = tx[s].copy.version

Permitted(s) ==
  /\ VersionHolds(s)
  /\ tx[s].op # "update" => tx[s].op \in VALID_TRANSITIONS[table[tx[s].id].state]

\* update writes the caller's copy, set_state the row that was read
ChangedRow(s) ==
  IF tx[s].op = "update" THEN [tx[s].copy EXCEPT !.version = @ + 1]
  ELSE [table[tx[s].id] EXCEPT !.state = tx[s].op, !.version = @ + 1]

ChangeLocks(s) ==
  /\ Stands(s, "lock") /\ tx[s].op \notin {"upsert", "merge"} /\ RowIsFree(tx[s].id)
  /\ \/ Permitted(s) /\ Saves(s, tx[s].id, ChangedRow(s))
     \/ ~ Permitted(s) /\ Closes(s) /\ KeepTables

-----------------------------------------------------------------------------
(* merge: the survivor is locked first, then the duplicate; no states or   *)
(* versions are compared                                                   *)

MergeOpens(s, i, j) ==
  /\ i # j /\ LiveRow(i) /\ LiveRow(j)
  /\ Opens(s, [NoTx EXCEPT !.pc = "lock", !.op = "merge", !.id = i, !.other = j])

MergeLocksSurvivor(s) ==
  /\ Stands(s, "lock") /\ tx[s].op = "merge" /\ RowIsFree(tx[s].id)
  /\ owner' = [owner EXCEPT ![tx[s].id] = s]
  /\ tx' = [tx EXCEPT ![s].pc = "lock2"]
  /\ KeepTables /\ KeepMarks

MergedRows(i, j) ==
  [n \in {i, j} |->
     IF n = i THEN [table[i] EXCEPT !.sources = @ \cup table[j].sources,
                                    !.keys = @ \cup table[j].keys, !.version = @ + 1]
     ELSE [table[j] EXCEPT !.state = "merged", !.into = i, !.version = @ + 1]]

MergeLocksDuplicate(s) ==
  /\ Stands(s, "lock2") /\ RowIsFree(tx[s].other)
  /\ LET i == tx[s].id  j == tx[s].other IN
       IF table[i].scope = table[j].scope
       THEN /\ owner' = [owner EXCEPT ![j] = s]
            /\ tx' = [tx EXCEPT ![s] = Saving(@, <<i, j>>, MergedRows(i, j))]
            /\ KeepMarks
       ELSE Closes(s)
  /\ KeepTables

-----------------------------------------------------------------------------
(* _reindex_nk: INSERT ... ON CONFLICT DO NOTHING for one key after the    *)
(* other.  The unique index compares tenant, namespace and value of all    *)
(* objects, live or not; NULL tenants are all different to it.             *)

KeyRow(s, k) == [scope |-> tx[s].writes[tx[s].left[1]].scope, key |-> k, id |-> tx[s].left[1]]
SameKey(a, b) == a.scope = b.scope /\ a.key = b.key /\ a.scope # Unscoped

\* A row that another transaction has inserted or deleted, and not yet committed
Unsettled(r, row) ==
  \/ \E other \in tx[r].added : SameKey(other, row)
  \/ \E other \in keyRows : SameKey(other, row) /\ other.id \in tx[r].dropped

Taken(s, row) ==
  \E other \in tx[s].added \cup {kr \in keyRows : kr.id \notin tx[s].dropped} : SameKey(other, row)

KeyInserts(s, k) ==
  /\ Stands(s, "index") /\ k \in tx[s].missing
  /\ LET row == KeyRow(s, k) IN
       /\ \A r \in Session \ {s} : ~ Unsettled(r, row)
       /\ tx' = [tx EXCEPT ![s].missing = @ \ {k},
                           ![s].added   = IF Taken(s, row) THEN @ ELSE @ \cup {row}]
  /\ KeepTables /\ KeepMarks /\ UNCHANGED owner

\* The next object of a merge is saved.
NextSaves(s) ==
  /\ Stands(s, "index") /\ tx[s].missing = {} /\ Len(tx[s].left) > 1
  /\ LET j == tx[s].left[2] IN
     tx' = [tx EXCEPT ![s].left = Tail(@), ![s].dropped = @ \cup {j},
                      ![s].missing = tx[s].writes[j].keys]
  /\ KeepTables /\ KeepMarks /\ UNCHANGED owner

Repointed(edge, i, j) == [from |-> IF edge.from = j THEN i ELSE edge.from,
                          to   |-> IF edge.to   = j THEN i ELSE edge.to]

\* The event is out before the commit; nobody else has seen a change until now.
TxCommits(s) ==
  /\ Stands(s, "index") /\ tx[s].missing = {} /\ Len(tx[s].left) = 1
  /\ LET new == tx[s].writes IN
       /\ table' = [i \in Number |-> IF i \in DOMAIN new THEN new[i] ELSE table[i]]
       /\ snapshots' = [i \in Number |-> IF i \in DOMAIN new THEN Append(snapshots[i], new[i])
                                                              ELSE snapshots[i]]
  /\ keyRows' = {kr \in keyRows : kr.id \notin tx[s].dropped} \cup tx[s].added
  /\ edges' = IF tx[s].op = "merge" THEN {Repointed(e, tx[s].id, tx[s].other) : e \in edges}
                                    ELSE edges
  /\ seen' = IF tx[s].op = "upsert" THEN seen \cup {<<tx[s].left[1], tx[s].source>>} ELSE seen
  /\ Closes(s)

\* The event sink raises, the connection is lost, or Postgres ends a deadlock: all is undone.
TxAborts(s) ==
  /\ ~ Stands(s, "idle")
  /\ Closes(s) /\ KeepTables

\* The foreign keys make the insert wait for a transaction that holds an endpoint.
Relates(i, j) ==
  /\ {i, j} \subseteq Rows /\ table[i].scope = table[j].scope
  /\ RowIsFree(i) /\ RowIsFree(j) /\ txs < MaxTxs
  /\ txs' = txs + 1
  /\ edges' = edges \cup {[from |-> i, to |-> j]}
  /\ UNCHANGED <<table, keyRows, snapshots, owner, tx, seen, overlap>>

ObjectsNext ==
  \/ \E s \in Session :
       \/ \E scope \in Scope, keys \in SUBSET NaturalKey, source \in Source :
            keys # {} /\ UpsertOpens(s, scope, keys, source)
       \/ UpsertFinds(s) \/ UpsertLocks(s) \/ UpsertInserts(s)
       \/ \E i \in Number, op \in {"update"} \cup DOMAIN VALID_TRANSITIONS : ChangeOpens(s, i, op)
       \/ ChangeLocks(s)
       \/ \E i, j \in Number : MergeOpens(s, i, j)
       \/ MergeLocksSurvivor(s) \/ MergeLocksDuplicate(s)
       \/ \E k \in NaturalKey : KeyInserts(s, k)
       \/ NextSaves(s) \/ TxCommits(s) \/ TxAborts(s)
  \/ \E i, j \in Number : Relates(i, j)

ObjectsSpec == ObjectsInit /\ [][ObjectsNext]_objectVars

-----------------------------------------------------------------------------
(* One snapshot per version, although transactions wait for each other and *)
(* are rolled back (FR-10).                                                *)
EveryVersionIsRecorded ==
  \A i \in Number :
    /\ Len(snapshots[i]) = table[i].version
    /\ \A v \in DOMAIN snapshots[i] : snapshots[i][v].version = v
    /\ i \in Rows => snapshots[i][table[i].version] = table[i]

(* No committed observation is written over (FR-5): its source stays on    *)
(* the row it was added to, and what a row had when it was merged is on    *)
(* the object it was merged into.                                          *)
SourcesAreCarried ==
  /\ \A o \in seen : o[2] \in table[o[1]].sources
  /\ \A i \in Rows : \A v \in DOMAIN snapshots[i] :
       LET old == snapshots[i][v] IN
       old.into # 0 /\ (v = 1 \/ snapshots[i][v - 1].into # old.into)
         => old.sources \subseteq table[old.into].sources

(* However transactions overlap, history and provenance stay complete.     *)
RowsLoseNothing == EveryVersionIsRecorded /\ SourcesAreCarried

(* The rows of natural keys are of objects that carry the key; a tenant's  *)
(* key leads to one object at most, and without a tenant every key of      *)
(* every object is there: then transactions that never overlapped leave    *)
(* one live object per key (FR-4).  Relationships stay in a tenant.        *)
KeysLeadHome ==
  /\ \A kr \in keyRows : kr.key \in table[kr.id].keys /\ kr.scope = table[kr.id].scope
  /\ \A a, b \in keyRows : SameKey(a, b) => a = b
  /\ \A i \in Rows : table[i].scope = Unscoped =>
       \A k \in table[i].keys : [scope |-> Unscoped, key |-> k, id |-> i] \in keyRows
  /\ ~ overlap => \A i, j \in Rows :
       i # j /\ LiveRow(i) /\ LiveRow(j) /\ table[i].scope = Unscoped /\ table[j].scope = Unscoped
         => table[i].keys \cap table[j].keys = {}
  /\ \A e \in edges : table[e.from].scope = table[e.to].scope

(* docs/architecture/foundation/EA-0002: "one live object per natural key  *)
(* per tenant/type", of callers whose transactions never overlap.          *)
OneLiveObjectPerKey ==
  ~ overlap => \A i, j \in Rows :
    i # j /\ LiveRow(i) /\ LiveRow(j) /\ table[i].scope = table[j].scope
      => table[i].keys \cap table[j].keys = {}
=============================================================================
