------------------------------ MODULE ObjectStore ------------------------------
(***************************************************************************)
(* InMemoryObjectStore (objects/memory.py), the reference implementation   *)
(* of the universal object model, and the engines that call it.            *)
(*                                                                         *)
(* Each operation runs without a suspension up to its last await, the      *)
(* event sink: one action per operation.  Callers hold deep copies and use *)
(* their version later; when the sink raises, the change is made but the   *)
(* caller keeps the copy it had.  An object's id is its position in objs.  *)
(*                                                                         *)
(* Callers meet only in the store: one whose replies may be lost holds the *)
(* same copies, old and new, as one that others overtake.                  *)
(***************************************************************************)
EXTENDS Naturals, Sequences, FiniteSets, SequencesExt

CONSTANTS
  Caller,       \* coroutines that use the store
  Tenant,       \* tenant_id, one of which may be None
  Type,         \* object_type
  Key,          \* natural keys: (namespace, value)
  Source,       \* SourceRefs
  KeyLists,     \* [Type -> the lists of natural keys an observation may carry]
  Careful,      \* callers merge two live objects and update live objects only
  MaxObjects,   \* bound: objects
  MaxWrites,    \* bound: versions written, of all objects together
  MaxRelations  \* bound: relationships

ASSUME ObjectStoreAssumption ==
  /\ KeyLists \in [Type -> SUBSET Seq(Key)]
  /\ Careful \in BOOLEAN
  /\ MaxObjects \in Nat /\ MaxWrites \in Nat /\ MaxRelations \in Nat

VARIABLES
  objs,     \* _objs
  index,    \* _nk: 0 for a key that is not there
  history,  \* _history: the snapshots of each object, oldest first
  rels,     \* _rels: the endpoints of each relationship
  copies,   \* the object each caller last received
  seen      \* history variable: the observations applied, <<object, source>>

vars == <<objs, index, history, rels, copies, seen>>

Id     == Nat \ {0}
State  == {"active", "archived", "merged", "deleted"}
Object == [type : Type, tenant : Tenant, keys : SUBSET Key, sources : SUBSET Source,
           state : State, into : Nat, version : Nat]
Relation == [from : Id, to : Id]

NoCopy == [id |-> 0]
Copy   == {NoCopy} \cup [id : Id, obj : Object]

\* VALID_TRANSITIONS
ValidTransitions ==
  [s \in State |-> CASE s = "active"   -> {"archived", "merged", "deleted"}
                     [] s = "archived" -> {"active", "merged", "deleted"}
                     [] OTHER -> {}]

LiveState == {"active", "archived"}
Ids       == DOMAIN objs
Live(i)   == objs[i].state \in LiveState
Writes    == FoldLeft(LAMBDA n, obj : n + obj.version, 0, objs)
Redirects(i) == objs[i].state = "merged" /\ objs[i].into # 0

-----------------------------------------------------------------------------
(* get: the redirects are followed until they end or close a circle.        *)
\* The objects visited from i on, none of them twice
Walk(i, visited) ==
  /\ visited[1] = i
  /\ \A k \in 1 .. Len(visited) - 1 :
       Redirects(visited[k]) /\ visited[k + 1] = objs[visited[k]].into
  /\ \A k, l \in DOMAIN visited : visited[k] = visited[l] => k = l

Stops(visited) ==
  \/ ~ Redirects(Last(visited))
  \/ objs[Last(visited)].into \in ToSet(visited)

Resolve(i) ==
  Last(CHOOSE visited \in UNION {[1 .. n -> Ids] : n \in Ids} : Walk(i, visited) /\ Stops(visited))

(* _nk_lookup: the first key that is indexed for a live object of the type. *)
\* Mutant of Hit: an archived object does not count as live.
Hit_ActiveOnly(tenant, type, key) ==
  LET i == index[<<tenant, key>>] IN
  i # 0 /\ objs[i].type = type /\ objs[i].state = "active"

Hit(tenant, type, key) ==
  LET i == index[<<tenant, key>>] IN
  i # 0 /\ objs[i].type = type /\ Live(i)

\* 0 when there is none
Lookup(tenant, type, keys) ==
  LET hits == {p \in DOMAIN keys : Hit(tenant, type, keys[p])} IN
  IF hits = {} THEN 0
  ELSE index[<<tenant, keys[CHOOSE p \in hits : \A q \in hits : p <= q]>>]

\* _index_nk: every key of the object leads to it
Indexed(i, obj) ==
  [tk \in DOMAIN index |-> IF tk[1] = obj.tenant /\ tk[2] \in obj.keys THEN i ELSE index[tk]]

Recorded(i, obj) == [history EXCEPT ![i] = Append(@, obj)]

\* The sink delivers the event or raises.
Reply(c, i, obj) ==
  copies' \in {copies, [copies EXCEPT ![c] = [id |-> i, obj |-> obj]]}

-----------------------------------------------------------------------------
Init ==
  /\ objs = <<>>
  /\ index = [tk \in Tenant \X Key |-> 0]
  /\ history = <<>>
  /\ rels = {}
  /\ copies = [c \in Caller |-> NoCopy]
  /\ seen = {}

Get(c, i) ==
  /\ i \in Ids
  /\ copies' = [copies EXCEPT ![c] = [id |-> Resolve(i), obj |-> objs[Resolve(i)]]]
  /\ UNCHANGED <<objs, index, history, rels, seen>>

\* An observation of a known object: its source is added, its keys are not.
UpsertMatched(c, tenant, type, keys, source) ==
  LET i   == Lookup(tenant, type, keys)
      obj == [objs[i] EXCEPT !.sources = @ \cup {source}, !.version = @ + 1]
  IN
  /\ i # 0
  /\ Writes < MaxWrites
  /\ objs' = [objs EXCEPT ![i] = obj]
  /\ index' = Indexed(i, obj)
  /\ history' = Recorded(i, obj)
  /\ seen' = seen \cup {<<i, source>>}
  /\ Reply(c, i, obj)
  /\ UNCHANGED rels

UpsertCreates(c, tenant, type, keys, source) ==
  LET i   == Len(objs) + 1
      obj == [type |-> type, tenant |-> tenant, keys |-> ToSet(keys), sources |-> {source},
              state |-> "active", into |-> 0, version |-> 1]
  IN
  /\ Lookup(tenant, type, keys) = 0
  /\ Len(objs) < MaxObjects /\ Writes < MaxWrites
  /\ objs' = Append(objs, obj)
  /\ index' = Indexed(i, obj)
  /\ history' = Append(history, <<obj>>)
  /\ seen' = seen \cup {<<i, source>>}
  /\ Reply(c, i, obj)
  /\ UNCHANGED rels

\* Mutant of UpToDate: no comparison with expected_version.
UpToDate_Any(c) == copies[c].id \in Ids

UpToDate(c) ==
  /\ copies[c].id \in Ids
  /\ objs[copies[c].id].version = copies[c].obj.version

\* The caller's copy replaces the object; what it changed (its confidence) is
\* left out.
Update(c) ==
  LET i   == copies[c].id
      obj == [copies[c].obj EXCEPT !.version = objs[i].version + 1]
  IN
  /\ UpToDate(c)
  /\ Writes < MaxWrites
  /\ Careful => copies[c].obj.state \in LiveState
  /\ objs' = [objs EXCEPT ![i] = obj]
  /\ index' = Indexed(i, obj)
  /\ history' = Recorded(i, obj)
  /\ Reply(c, i, obj)
  /\ UNCHANGED <<rels, seen>>

\* Mutant of SetState: no history is written.
SetState_Unrecorded(c, state) ==
  LET i   == copies[c].id
      obj == [objs[i] EXCEPT !.state = state, !.version = @ + 1]
  IN
  /\ UpToDate(c)
  /\ state \in ValidTransitions[objs[i].state]
  /\ Writes < MaxWrites
  /\ objs' = [objs EXCEPT ![i] = obj]
  /\ Reply(c, i, obj)
  /\ UNCHANGED <<index, history, rels, seen>>

\* "merged" is among the transitions: such an object leads nowhere.
SetState(c, state) ==
  LET i   == copies[c].id
      obj == [objs[i] EXCEPT !.state = state, !.version = @ + 1]
  IN
  /\ UpToDate(c)
  /\ state \in ValidTransitions[objs[i].state]
  /\ Writes < MaxWrites
  /\ objs' = [objs EXCEPT ![i] = obj]
  /\ history' = Recorded(i, obj)
  /\ Reply(c, i, obj)
  /\ UNCHANGED <<index, rels, seen>>

Related(from, to) ==
  {from, to} \subseteq Ids /\ objs[from].tenant = objs[to].tenant

\* No event and no history: a relationship is not an object.
Relate(from, to) ==
  /\ Related(from, to)
  /\ Cardinality(rels) < MaxRelations
  /\ rels' = rels \cup {[from |-> from, to |-> to]}
  /\ UNCHANGED <<objs, index, history, copies, seen>>

-----------------------------------------------------------------------------
(* merge: no guard on states or versions; both may be one object            *)
Repointed(rel, survivor, duplicate) ==
  [from |-> IF rel.from = duplicate THEN survivor ELSE rel.from,
   to   |-> IF rel.to   = duplicate THEN survivor ELSE rel.to]

\* The survivor takes over sources and keys,
Kept(survivor, duplicate) ==
  [objs[survivor] EXCEPT !.sources = @ \cup objs[duplicate].sources,
                         !.keys    = @ \cup objs[duplicate].keys,
                         !.version = @ + 1]

\* and the duplicate, as it then is, becomes a redirect.
Merged(survivor, duplicate) ==
  LET kept == [objs EXCEPT ![survivor] = Kept(survivor, duplicate)] IN
  [kept EXCEPT ![duplicate] =
     [kept[duplicate] EXCEPT !.state = "merged", !.into = survivor, !.version = @ + 1]]

MayMerge(survivor, duplicate) ==
  /\ {survivor, duplicate} \subseteq Ids
  /\ objs[survivor].tenant = objs[duplicate].tenant

Merge(c, survivor, duplicate) ==
  LET after == Merged(survivor, duplicate) IN
  /\ MayMerge(survivor, duplicate)
  /\ Careful => survivor # duplicate /\ Live(survivor) /\ Live(duplicate)
  /\ Writes + 2 <= MaxWrites
  /\ objs' = after
  /\ index' = Indexed(survivor, Kept(survivor, duplicate))
  /\ rels' = {Repointed(rel, survivor, duplicate) : rel \in rels}
  /\ history' = [history EXCEPT ![survivor]  = Append(@, after[survivor]),
                                ![duplicate] = Append(@, after[duplicate])]
  /\ Reply(c, survivor, after[survivor])
  /\ UNCHANGED seen

-----------------------------------------------------------------------------
Upsert(c) ==
  \E tenant \in Tenant, type \in Type, source \in Source :
    \E keys \in KeyLists[type] :
      \/ UpsertMatched(c, tenant, type, keys, source)
      \/ UpsertCreates(c, tenant, type, keys, source)

Next ==
  \/ \E c \in Caller :
       \/ Upsert(c)
       \/ Update(c)
       \/ \E i \in Ids : Get(c, i)
       \/ \E state \in State : SetState(c, state)
       \/ \E i, j \in Ids : Merge(c, i, j)
  \/ \E i, j \in 1 .. MaxObjects : Relate(i, j)

Spec == Init /\ [][Next]_vars

-----------------------------------------------------------------------------
(* Properties *)

(* Type correctness, with every id in use that of an existing object.       *)
TypeOK ==
  /\ objs \in Seq(Object)
  /\ \A i \in Ids : objs[i].into \in {0} \cup Ids
  /\ index \in [Tenant \X Key -> {0} \cup Ids]
  /\ history \in [Ids -> Seq(Object)]
  /\ \A rel \in rels : rel.from \in Ids /\ rel.to \in Ids
  /\ copies \in [Caller -> Copy]
  /\ seen \subseteq Ids \X Source

(* FR-10, NFR-3: the history of an object has one snapshot per version,     *)
(* from the first to the current one, and the last shows its current state. *)
HistoryIsFaithful ==
  \A i \in Ids :
    /\ Len(history[i]) = objs[i].version
    /\ \A v \in DOMAIN history[i] : history[i][v].version = v
    /\ Last(history[i]) = objs[i]

(* FR-4: no two live objects of a tenant and a type share a natural key,    *)
(* whatever was archived, deleted, merged and observed again in between.    *)
OneLivePerKey ==
  \A i, j \in Ids :
    /\ i # j /\ Live(i) /\ Live(j)
    /\ objs[i].type = objs[j].type /\ objs[i].tenant = objs[j].tenant
    => objs[i].keys \cap objs[j].keys = {}

(* FR-5, FR-8: the source of every observation the store accepted is found  *)
(* on the object that its id now resolves to: updates from old copies and   *)
(* chains of merges lose no provenance.                                     *)
ProvenanceIsKept ==
  \A o \in seen : o[2] \in objs[Resolve(o[1])].sources

(* FR-8: no chain of redirects is a circle: a merged id resolves to an      *)
(* object that is not redirected itself.                                    *)
RedirectsEnd == \A i \in Ids : ~ Redirects(Resolve(i))

(* FR-12: merges and updates never make a relationship span two tenants.    *)
RelationsStayInTenant ==
  \A rel \in rels : objs[rel.from].tenant = objs[rel.to].tenant

(* FR-4, FR-8, FR-12: a key, an id and the end of a relationship lead to    *)
(* one live object of their own tenant, after any order of upserts,         *)
(* updates from old copies, archives, deletions and chains of merges.       *)
IdentityHolds == TypeOK /\ OneLivePerKey /\ RedirectsEnd /\ RelationsStayInTenant
================================================================================
