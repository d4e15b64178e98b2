--------------------------- MODULE ObjectStoreProofs ---------------------------
(***************************************************************************)
(* What an id, a natural key, a source and a version of the universal      *)
(* object model mean after any sequence of calls, for any number of        *)
(* objects, callers and keys.  The argument: a redirect is drawn from a    *)
(* live object to a live object and never changed, so that redirects lead  *)
(* downwards in some order and sources only upwards; the index has every   *)
(* key of a live object; a copy of the current version is the object.      *)
(***************************************************************************)
EXTENDS ObjectStore, FiniteSetTheorems, SequenceTheorems, WellFoundedInduction, TLAPS

-----------------------------------------------------------------------------
(* The inductive invariant                                                 *)

\* A version of an object identifies it: a copy of the current one is the object.
CopyIs(copy, objects) ==
  copy.id # 0 => /\ copy.id \in DOMAIN objects
                 /\ copy.obj.version <= objects[copy.id].version
                 /\ copy.obj.version = objects[copy.id].version => copy.obj = objects[copy.id]

CopiesOK == \A c \in Caller : CopyIs(copies[c], objs)

\* Only a merged object leads on, to a live one when it was merged.
OnlyMergedLead == \A i \in Ids : objs[i].state # "merged" => objs[i].into = 0

\* Redirects lead downwards in this order of the objects.
Falls(rank) == \A i \in Ids : Redirects(i) => rank[objs[i].into] < rank[i]

Ranked == \E rank \in [Ids -> Nat] : Falls(rank)

\* What an object was seen by is known where it leads.
SourcesFlow == \A i \in Ids : Redirects(i) => objs[i].sources \subseteq objs[objs[i].into].sources

SeenKept == \A o \in seen : o[2] \in objs[o[1]].sources

IInv ==
  /\ TypeOK /\ CopiesOK
  /\ OnlyMergedLead /\ Ranked /\ SourcesFlow /\ SeenKept
  /\ RelationsStayInTenant /\ HistoryIsFaithful

\* Every key of a live object leads to it.
KeysLead == \A i \in Ids : Live(i) => \A k \in objs[i].keys : index[<<objs[i].tenant, k>>] = i

OneType == \A s, t \in Type : s = t

-----------------------------------------------------------------------------
(* Following redirects                                                     *)

LEMMA LeastNat ==
  ASSUME NEW S \in SUBSET Nat, S # {}
  PROVE  \E n \in S : \A m \in S : n <= m
<1>1. PICK n \in S : \A m \in S : ~ (<<m, n>> \in OpToRel(<, Nat))
  BY NatLessThanWellFounded, WFMin
<1>2. \A m \in Nat : m < n => <<m, n>> \in OpToRel(<, Nat)
  BY DEF OpToRel
<1>3. \A m \in S : ~ (m < n)
  BY <1>1, <1>2
<1> QED BY <1>3

\* A walk of n objects from i to one that leads nowhere, falling all the way
Downward(i, n, visited, rank) ==
  /\ visited \in [1 .. n -> Ids] /\ Walk(i, visited)
  /\ ~ Redirects(visited[n])
  /\ \A k \in 1 .. n : rank[visited[k]] <= rank[i]

LEMMA WalkGrows ==
  ASSUME objs \in Seq(Object), NEW rank \in [Ids -> Nat], Falls(rank),
         NEW i \in Ids, Redirects(i), objs[i].into \in Ids,
         NEW n \in Nat, n > 0, NEW visited, Downward(objs[i].into, n, visited, rank)
  PROVE  Downward(i, n + 1, [k \in 1 .. n + 1 |-> IF k = 1 THEN i ELSE visited[k - 1]], rank)
<1> DEFINE j == objs[i].into
           longer == [k \in 1 .. n + 1 |-> IF k = 1 THEN i ELSE visited[k - 1]]
<1>1. /\ visited \in [1 .. n -> Ids] /\ Len(visited) = n /\ visited[1] = j
      /\ \A k \in 1 .. n - 1 : Redirects(visited[k]) /\ visited[k + 1] = objs[visited[k]].into
      /\ \A k, l \in 1 .. n : visited[k] = visited[l] => k = l
      /\ ~ Redirects(visited[n])
      /\ \A k \in 1 .. n : rank[visited[k]] <= rank[j]
  <2>1. visited \in [1 .. n -> Ids] /\ Walk(j, visited)
    BY DEF Downward
  <2>2. Len(visited) = n /\ DOMAIN visited = 1 .. n
    BY <2>1
  <2> QED BY <2>1, <2>2 DEF Downward, Walk
<1>2. rank[j] < rank[i] /\ rank[i] \in Nat /\ rank[j] \in Nat
  BY DEF Falls
<1>3. \A k \in 1 .. n + 1 : k = 1 \/ (k > 1 /\ k - 1 \in 1 .. n)
  OBVIOUS
<1>4. longer \in [1 .. n + 1 -> Ids] /\ Len(longer) = n + 1 /\ longer[1] = i
  <2>1. longer \in [1 .. n + 1 -> Ids]
    BY <1>1, <1>3
  <2>2. Len(longer) = n + 1 /\ longer[1] = i
    BY <2>1
  <2> QED BY <2>1, <2>2
<1>5. \A k \in 1 .. n : longer[k + 1] = visited[k]
  <2>1. \A k \in 1 .. n : k + 1 \in 1 .. n + 1 /\ k + 1 # 1 /\ (k + 1) - 1 = k
    OBVIOUS
  <2> QED BY <2>1
<1> HIDE DEF longer
<1>6. ASSUME NEW k \in 1 .. n PROVE Redirects(longer[k]) /\ longer[k + 1] = objs[longer[k]].into
  <2>1. CASE k = 1
    <3>1. 1 \in 1 .. n
      OBVIOUS
    <3> QED BY <1>1, <1>4, <1>5, <2>1, <3>1
  <2>2. CASE k # 1
    <3>1. k - 1 \in 1 .. n - 1 /\ (k - 1) + 1 = k /\ k - 1 \in 1 .. n
      BY <2>2
    <3>2. longer[k] = visited[k - 1] /\ longer[k + 1] = visited[k]
      BY <1>5, <3>1
    <3> QED BY <1>1, <3>1, <3>2
  <2> QED BY <2>1, <2>2
<1>7. \A k \in 1 .. n : rank[longer[k + 1]] < rank[i] /\ longer[k + 1] # i
  <2>1. \A k \in 1 .. n : rank[visited[k]] <= rank[j] /\ rank[visited[k]] \in Nat
    BY <1>1
  <2> QED BY <1>2, <1>5, <2>1
<1>8. ASSUME NEW k \in 1 .. n + 1, NEW l \in 1 .. n + 1, longer[k] = longer[l] PROVE k = l
  <2>1. CASE k = 1 \/ l = 1
    <3>1. \A m \in 1 .. n + 1 : m # 1 => longer[m] # i
      <4>1. \A m \in 1 .. n + 1 : m # 1 => m - 1 \in 1 .. n /\ (m - 1) + 1 = m
        OBVIOUS
      <4> QED BY <1>7, <4>1
    <3> QED BY <1>4, <1>8, <2>1, <3>1
  <2>2. CASE k # 1 /\ l # 1
    <3>1. k - 1 \in 1 .. n /\ (k - 1) + 1 = k /\ l - 1 \in 1 .. n /\ (l - 1) + 1 = l
      BY <2>2
    <3>2. visited[k - 1] = visited[l - 1]
      BY <1>5, <1>8, <3>1
    <3>3. k - 1 = l - 1
      BY <1>1, <3>1, <3>2
    <3> QED BY <3>1, <3>3
  <2> QED BY <2>1, <2>2
<1>9. Walk(i, longer)
  <2>1. DOMAIN longer = 1 .. n + 1 /\ Len(longer) - 1 = n
    BY <1>4
  <2> QED BY <1>4, <1>6, <1>8, <2>1 DEF Walk
<1>10. ~ Redirects(longer[n + 1])
  <2>1. n \in 1 .. n
    OBVIOUS
  <2> QED BY <1>1, <1>5, <2>1
<1>11. \A k \in 1 .. n + 1 : rank[longer[k]] <= rank[i]
  <2>1. \A k \in 1 .. n + 1 : k = 1 \/ (k - 1 \in 1 .. n /\ (k - 1) + 1 = k)
    OBVIOUS
  <2>2. \A k \in 1 .. n : rank[longer[k + 1]] <= rank[i]
    <3>1. \A k \in 1 .. n : longer[k + 1] \in Ids
      <4>1. \A k \in 1 .. n : visited[k] \in Ids
        BY <1>1
      <4> QED BY ONLY <1>5, <4>1
    <3> QED BY <1>2, <1>7, <3>1
  <2> QED BY <1>2, <1>4, <2>1, <2>2
<1>12. Downward(i, n + 1, longer, rank)
  BY <1>4, <1>9, <1>10, <1>11 DEF Downward
<1> QED BY <1>12 DEF longer

LEMMA WalkFound ==
  ASSUME objs \in Seq(Object), \A i \in Ids : objs[i].into \in {0} \cup Ids,
         NEW rank \in [Ids -> Nat], Falls(rank), NEW i \in Ids
  PROVE  \E n \in Nat : n > 0 /\ \E visited : Downward(i, n, visited, rank)
<1> DEFINE Found(j) == \E n \in Nat : n > 0 /\ \E visited : Downward(j, n, visited, rank)
           lost == {j \in Ids : ~ Found(j)}
           ranks == {rank[j] : j \in lost}
<1>1. SUFFICES ASSUME lost # {} PROVE FALSE
  OBVIOUS
<1>2. ranks \in SUBSET Nat /\ ranks # {}
  BY <1>1
<1>3. PICK m \in ranks : \A l \in ranks : m <= l
  BY <1>2, LeastNat, Zenon
<1>4. PICK j \in lost : m = rank[j]
  BY <1>3
<1>5. ~ Redirects(j) => Found(j)
  <2> SUFFICES ASSUME ~ Redirects(j) PROVE Found(j)
    OBVIOUS
  <2> DEFINE alone == [k \in 1 .. 1 |-> j]
  <2>1. alone \in [1 .. 1 -> Ids] /\ Len(alone) = 1 /\ DOMAIN alone = 1 .. 1
    OBVIOUS
  <2>2. \A k \in 1 .. 1 : k = 1 /\ alone[k] = j
    OBVIOUS
  <2> HIDE DEF alone
  <2>3. Walk(j, alone)
    <3>1. 1 .. Len(alone) - 1 = {}
      BY <2>1
    <3>2. 1 \in 1 .. 1
      OBVIOUS
    <3> QED BY <2>1, <2>2, <3>1, <3>2 DEF Walk
  <2>4. 1 \in 1 .. 1 /\ alone[1] = j /\ rank[j] \in Nat
    BY <2>2
  <2>5. Downward(j, 1, alone, rank)
    BY <2>1, <2>2, <2>3, <2>4 DEF Downward
  <2>6. 1 \in Nat /\ 1 > 0
    OBVIOUS
  <2> QED BY <2>5, <2>6
<1>6. Redirects(j) => Found(j)
  <2> SUFFICES ASSUME Redirects(j) PROVE Found(j)
    OBVIOUS
  <2>1. objs[j].into \in Ids /\ rank[objs[j].into] < rank[j] /\ rank[objs[j].into] \in Nat /\ rank[j] \in Nat
    BY DEF Redirects, Falls
  <2>2. objs[j].into \notin lost
    <3>1. objs[j].into \in lost => rank[objs[j].into] \in ranks
      OBVIOUS
    <3> HIDE DEF ranks, lost
    <3> QED BY <1>3, <1>4, <2>1, <3>1
  <2>3. PICK n \in Nat : n > 0 /\ \E visited : Downward(objs[j].into, n, visited, rank)
    BY <2>1, <2>2
  <2>4. PICK visited : Downward(objs[j].into, n, visited, rank)
    BY <2>3
  <2>5. Downward(j, n + 1, [k \in 1 .. n + 1 |-> IF k = 1 THEN j ELSE visited[k - 1]], rank)
    BY <2>1, <2>3, <2>4, WalkGrows
  <2>6. n + 1 \in Nat /\ n + 1 > 0
    BY <2>3
  <2> QED BY <2>5, <2>6, Zenon
<1> QED BY <1>4, <1>5, <1>6

\* Resolve follows a walk that stops.
LEMMA ResolveWalks ==
  ASSUME objs \in Seq(Object), \A i \in Ids : objs[i].into \in {0} \cup Ids, Ranked, NEW i \in Ids
  PROVE  \E n \in Ids : \E visited \in [1 .. n -> Ids] :
           /\ Walk(i, visited) /\ Stops(visited)
           /\ Len(visited) = n /\ Resolve(i) = visited[n]
<1> DEFINE ways == UNION {[1 .. n -> Ids] : n \in Ids}
           way == CHOOSE visited \in ways : Walk(i, visited) /\ Stops(visited)
<1>1. PICK rank \in [Ids -> Nat] : Falls(rank)
  BY DEF Ranked
<1>2. PICK n \in Nat : n > 0 /\ \E visited : Downward(i, n, visited, rank)
  BY <1>1, WalkFound, Zenon
<1>3. PICK visited : Downward(i, n, visited, rank)
  BY <1>2
<1>4. visited \in [1 .. n -> Ids] /\ Walk(i, visited) /\ ~ Redirects(visited[n])
  BY <1>3 DEF Downward
<1>5. Len(visited) = n /\ DOMAIN visited = 1 .. n
  BY <1>2, <1>4
<1>6. Ids = 1 .. Len(objs) /\ Len(objs) \in Nat
  BY DEF Ids
<1>7. n \in Ids
  <2>1. visited \in Injection(1 .. n, Ids)
    BY <1>4, <1>5 DEF Walk, Injection, IsInjective
  <2>2. /\ IsFiniteSet(1 .. n) /\ Cardinality(1 .. n) = n
        /\ IsFiniteSet(Ids) /\ Cardinality(Ids) = Len(objs)
    <3>1. 1 \in Int /\ n \in Int /\ Len(objs) \in Int
      BY <1>6
    <3>2. IsFiniteSet(1 .. n) /\ Cardinality(1 .. n) = IF 1 > n THEN 0 ELSE n - 1 + 1
      BY <3>1, FS_Interval
    <3>3. /\ IsFiniteSet(1 .. Len(objs))
          /\ Cardinality(1 .. Len(objs)) = IF 1 > Len(objs) THEN 0 ELSE Len(objs) - 1 + 1
      BY <3>1, FS_Interval
    <3> QED BY <1>2, <1>6, <3>2, <3>3
  <2>3. Cardinality(1 .. n) <= Cardinality(Ids)
    BY <2>1, <2>2, FS_Injection, Zenon
  <2> QED BY <1>2, <1>6, <2>2, <2>3
<1>8. Stops(visited)
  BY <1>4, <1>5 DEF Stops, Last
<1>9. visited \in ways
  BY <1>4, <1>7
<1>10. way \in ways /\ Walk(i, way) /\ Stops(way)
  BY <1>4, <1>8, <1>9, Zenon
<1>11. PICK m \in Ids : way \in [1 .. m -> Ids]
  BY <1>10, Zenon
<1> HIDE DEF way
<1>12. Len(way) = m
  BY <1>6, <1>11
<1>13. Resolve(i) = way[m]
  <2>1. Resolve(i) = Last(way)
    BY DEF Resolve, way
  <2> QED BY <1>12, <2>1 DEF Last
<1> QED BY <1>10, <1>11, <1>12, <1>13

(***************************************************************************)
(* An id resolves to an object that leads nowhere, and has the sources of  *)
(* every object on the way.                                                *)
(***************************************************************************)
LEMMA ResolveEnds ==
  ASSUME objs \in Seq(Object), \A i \in Ids : objs[i].into \in {0} \cup Ids, Ranked, SourcesFlow,
         NEW i \in Ids
  PROVE  /\ Resolve(i) \in Ids /\ ~ Redirects(Resolve(i))
         /\ objs[i].sources \subseteq objs[Resolve(i)].sources
<1>1. PICK n \in Ids : \E v \in [1 .. n -> Ids] :
         Walk(i, v) /\ Stops(v) /\ Len(v) = n /\ Resolve(i) = v[n]
  BY ResolveWalks, Zenon
<1>2. PICK v \in [1 .. n -> Ids] : Walk(i, v) /\ Stops(v) /\ Len(v) = n /\ Resolve(i) = v[n]
  BY <1>1
<1>3. PICK rank \in [Ids -> Nat] : Falls(rank)
  BY DEF Ranked
<1>4. n \in Nat /\ n > 0 /\ n \in 1 .. n /\ DOMAIN v = 1 .. n
  BY <1>2 DEF Ids
<1>5. /\ v[1] = i
      /\ \A k \in 1 .. n - 1 : Redirects(v[k]) /\ v[k + 1] = objs[v[k]].into
  BY <1>2 DEF Walk
<1> DEFINE Fine(k) == /\ rank[v[n]] <= rank[v[k]]
                      /\ objs[v[k]].sources \subseteq objs[v[n]].sources
           wrong == {d \in Nat : d < n /\ ~ Fine(n - d)}
<1>6. wrong = {}
  <2>1. SUFFICES ASSUME wrong # {} PROVE FALSE
    OBVIOUS
  <2>2. PICK d \in wrong : \A e \in wrong : d <= e
    <3>1. wrong \in SUBSET Nat
      OBVIOUS
    <3> HIDE DEF wrong
    <3> QED BY <2>1, <3>1, LeastNat, Zenon
  <2>3. d # 0
    <3>1. rank[v[n]] \in Nat
      BY <1>2, <1>4
    <3>2. n - 0 = n
      BY <1>4
    <3> QED BY <3>1, <3>2
  <2>4. d - 1 \in Nat /\ d - 1 < n /\ ~ (d <= d - 1)
    <3>1. d \in Nat /\ d < n
      OBVIOUS
    <3> QED BY ONLY <1>4, <2>3, <3>1
  <2>5. Fine(n - (d - 1))
    BY <2>2, <2>4
  <2>6. /\ n - d \in 1 .. n - 1 /\ n - d \in 1 .. n /\ (n - d) + 1 = n - (d - 1)
        /\ n - (d - 1) \in 1 .. n
    BY <1>4, <2>3
  <2>7. Redirects(v[n - d]) /\ v[n - (d - 1)] = objs[v[n - d]].into
    BY <1>5, <2>6
  <2>8. v[n - d] \in Ids /\ v[n - (d - 1)] \in Ids /\ v[n] \in Ids
    BY <1>2, <1>4, <2>6
  <2>9. /\ rank[v[n - (d - 1)]] < rank[v[n - d]]
        /\ objs[v[n - d]].sources \subseteq objs[v[n - (d - 1)]].sources
    BY <1>3, <2>7, <2>8 DEF Falls, SourcesFlow
  <2>10. /\ rank[v[n]] \in Nat /\ rank[v[n - d]] \in Nat /\ rank[v[n - (d - 1)]] \in Nat
    BY <1>3, <2>8
  <2>11. Fine(n - d)
    BY <2>5, <2>9, <2>10
  <2> QED BY <2>2, <2>11
<1>7. \A k \in 1 .. n : Fine(k)
  <2>1. \A k \in 1 .. n : n - k \in Nat /\ n - k < n /\ n - (n - k) = k
    BY <1>4
  <2> HIDE DEF Fine
  <2> QED BY <1>6, <2>1
<1>8. ~ Redirects(v[n])
  <2> SUFFICES ASSUME Redirects(v[n]) PROVE FALSE
    OBVIOUS
  <2>1. objs[v[n]].into \in ToSet(v)
    BY <1>2 DEF Stops, Last
  <2>2. PICK k \in 1 .. n : v[k] = objs[v[n]].into
    BY <1>4, <2>1 DEF ToSet
  <2>3. rank[v[k]] < rank[v[n]]
    BY <1>2, <1>3, <1>4, <2>2 DEF Falls
  <2>4. rank[v[n]] <= rank[v[k]] /\ rank[v[n]] \in Nat /\ rank[v[k]] \in Nat
    BY <1>2, <1>4, <1>7
  <2> QED BY <2>3, <2>4
<1>9. objs[i].sources \subseteq objs[v[n]].sources
  <2>1. 1 \in 1 .. n
    BY <1>4
  <2> QED BY <1>5, <1>7, <2>1
<1> QED BY <1>2, <1>4, <1>8, <1>9

LEMMA Properties ==
  IInv => /\ ProvenanceIsKept /\ RedirectsEnd
          /\ \A i \in Ids : Resolve(i) \in Ids
<1> SUFFICES ASSUME IInv
             PROVE  /\ ProvenanceIsKept /\ RedirectsEnd
                    /\ \A i \in Ids : Resolve(i) \in Ids
  OBVIOUS
<1>1. \A i \in Ids : /\ Resolve(i) \in Ids /\ ~ Redirects(Resolve(i))
                     /\ objs[i].sources \subseteq objs[Resolve(i)].sources
  BY ResolveEnds DEF IInv, TypeOK
<1>2. \A o \in seen : o[1] \in Ids /\ o[2] \in objs[o[1]].sources
  BY DEF IInv, TypeOK, SeenKept
<1> QED BY <1>1, <1>2 DEF ProvenanceIsKept, RedirectsEnd

-----------------------------------------------------------------------------
(* What a step keeps of the copies and of the key index                    *)

LEMMA TypesOfObject ==
  ASSUME NEW o \in Object
  PROVE  /\ o.type \in Type /\ o.tenant \in Tenant /\ o.keys \in SUBSET Key
         /\ o.sources \in SUBSET Source /\ o.state \in State /\ o.into \in Nat /\ o.version \in Nat
  BY DEF Object

Fields == {"type", "tenant", "keys", "sources", "state", "into", "version"}

\* The next version of an object, of which sources and state may be others
LEMMA NextVersion ==
  ASSUME NEW o \in Object, NEW n, n = [f \in Fields |-> n[f]],
         n.type = o.type, n.tenant = o.tenant, n.keys = o.keys, n.into = o.into,
         n.version = o.version + 1, n.sources \in SUBSET Source, n.state \in State
  PROVE  n \in Object
<1>1. /\ n.type \in Type /\ n.tenant \in Tenant /\ n.keys \in SUBSET Key
      /\ n.into \in Nat /\ n.version \in Nat
  BY TypesOfObject
<1> QED BY <1>1 DEF Object, Fields

\* Objects are never taken away, and a changed one has a higher version.
Moves(objects, later) ==
  /\ DOMAIN objects \subseteq DOMAIN later
  /\ \A i \in DOMAIN objects : later[i] = objects[i] \/ later[i].version > objects[i].version

LEMMA CopyKept ==
  ASSUME NEW objects \in Seq(Object), NEW later \in Seq(Object), Moves(objects, later),
         NEW copy \in Copy, CopyIs(copy, objects)
  PROVE  CopyIs(copy, later)
<1>1. CASE copy.id = 0
  BY <1>1 DEF CopyIs
<1>2. CASE copy.id # 0
  <2> DEFINE i == copy.id
  <2>1. copy.obj \in Object
    BY <1>2 DEF Copy, NoCopy
  <2>2. /\ i \in DOMAIN objects /\ copy.obj.version <= objects[i].version
        /\ copy.obj.version = objects[i].version => copy.obj = objects[i]
    BY <1>2 DEF CopyIs
  <2>3. i \in DOMAIN later /\ (later[i] = objects[i] \/ later[i].version > objects[i].version)
    BY <2>2 DEF Moves
  <2>4. objects[i] \in Object /\ later[i] \in Object
    BY <2>2, <2>3
  <2>5. copy.obj.version \in Nat /\ objects[i].version \in Nat /\ later[i].version \in Nat
    BY <2>1, <2>4, TypesOfObject
  <2>6. CASE later[i] = objects[i]
    BY <2>2, <2>3, <2>6 DEF CopyIs
  <2>7. CASE later[i].version > objects[i].version
    <3>1. copy.obj.version < later[i].version
      BY <2>2, <2>5, <2>7
    <3> QED BY <2>3, <2>5, <3>1 DEF CopyIs
  <2> QED BY <2>3, <2>6, <2>7
<1> QED BY <1>1, <1>2

LEMMA RepliesKeepCopies ==
  ASSUME IInv, objs' \in Seq(Object), Moves(objs, objs'),
         NEW c \in Caller, NEW i \in DOMAIN objs', Reply(c, i, objs'[i])
  PROVE  CopiesOK' /\ copies' \in [Caller -> Copy]
<1> DEFINE new == [id |-> i, obj |-> objs'[i]]
<1>1. copies \in [Caller -> Copy] /\ objs \in Seq(Object)
  BY DEF IInv, TypeOK
<1>2. \A d \in Caller : CopyIs(copies[d], objs')
  <2>1. \A d \in Caller : copies[d] \in Copy /\ CopyIs(copies[d], objs)
    BY <1>1 DEF IInv, CopiesOK
  <2> QED BY <1>1, <2>1, CopyKept
<1>3. new \in Copy
  <2>1. i \in Id
    BY DEF Id
  <2>2. objs'[i] \in Object
    OBVIOUS
  <2> QED BY <2>1, <2>2 DEF Copy
<1>4. CopyIs(new, objs')
  <2>1. objs'[i].version \in Nat
    <3>1. objs'[i] \in Object
      OBVIOUS
    <3> QED BY <3>1, TypesOfObject
  <2>2. objs'[i].version <= objs'[i].version
    BY ONLY <2>1
  <2> QED BY <2>2 DEF CopyIs
<1>5. copies' = copies \/ copies' = [copies EXCEPT ![c] = new]
  BY DEF Reply
<1> HIDE DEF new
<1>6. \A d \in Caller : copies'[d] = copies[d] \/ copies'[d] = new
  BY <1>1, <1>5
<1>7. copies' \in [Caller -> Copy]
  BY <1>1, <1>3, <1>5
<1>8. \A d \in Caller : CopyIs(copies'[d], objs')
  BY <1>2, <1>4, <1>6
<1> QED BY <1>7, <1>8 DEF CopiesOK

LEMMA IndexedTyped ==
  ASSUME index \in [Tenant \X Key -> {0} \cup Ids], Ids \subseteq Ids', NEW i \in Ids', NEW obj \in Object
  PROVE  /\ Indexed(i, obj) \in [Tenant \X Key -> {0} \cup Ids']
         /\ \A t \in Tenant, k \in Key :
              Indexed(i, obj)[<<t, k>>] = IF t = obj.tenant /\ k \in obj.keys THEN i ELSE index[<<t, k>>]
<1>1. Indexed(i, obj) \in [Tenant \X Key -> {0} \cup Ids']
  <2>1. \A tk \in Tenant \X Key : index[tk] \in {0} \cup Ids'
    OBVIOUS
  <2> QED BY <2>1 DEF Indexed
<1>2. ASSUME NEW t \in Tenant, NEW k \in Key
      PROVE  Indexed(i, obj)[<<t, k>>] = IF t = obj.tenant /\ k \in obj.keys THEN i ELSE index[<<t, k>>]
  <2>1. <<t, k>> \in DOMAIN index /\ <<t, k>>[1] = t /\ <<t, k>>[2] = k
    OBVIOUS
  <2> QED BY <2>1 DEF Indexed
<1> QED BY <1>1, <1>2

(***************************************************************************)
(* _nk_lookup finds a live object of the type, or no key of the            *)
(* observation is indexed for one.                                         *)
(***************************************************************************)
LEMMA LookupIs ==
  ASSUME index \in [Tenant \X Key -> {0} \cup Ids], NEW t \in Tenant, NEW ty \in Type, NEW keys \in Seq(Key)
  PROVE  /\ Lookup(t, ty, keys) # 0 =>
              /\ Lookup(t, ty, keys) \in Ids /\ Live(Lookup(t, ty, keys))
              /\ objs[Lookup(t, ty, keys)].type = ty
              /\ \E p \in DOMAIN keys : Lookup(t, ty, keys) = index[<<t, keys[p]>>]
         /\ Lookup(t, ty, keys) = 0 => \A p \in DOMAIN keys : ~ Hit(t, ty, keys[p])
<1> DEFINE hits == {p \in DOMAIN keys : Hit(t, ty, keys[p])}
           first == CHOOSE p \in hits : \A q \in hits : p <= q
<1>1. Lookup(t, ty, keys) = IF hits = {} THEN 0 ELSE index[<<t, keys[first]>>]
  BY DEF Lookup
<1>2. hits # {} => first \in hits
  <2> SUFFICES ASSUME hits # {} PROVE first \in hits
    OBVIOUS
  <2>1. hits \in SUBSET Nat
    OBVIOUS
  <2> HIDE DEF hits
  <2>2. \E p \in hits : \A q \in hits : p <= q
    BY <2>1, LeastNat
  <2> QED BY <2>2, Zenon
<1> HIDE DEF first
<1>3. CASE hits = {}
  BY <1>1, <1>3
<1>4. CASE hits # {}
  <2>1. first \in DOMAIN keys /\ Hit(t, ty, keys[first])
    BY <1>2, <1>4
  <2>2. Lookup(t, ty, keys) = index[<<t, keys[first]>>]
    BY <1>1, <1>4
  <2>3. keys[first] \in Key
    BY <2>1
  <2>4. index[<<t, keys[first]>>] \in {0} \cup Ids
    BY <2>3
  <2> QED BY <2>1, <2>2, <2>4 DEF Hit
<1> QED BY <1>3, <1>4

-----------------------------------------------------------------------------
(* What a step keeps of history and of redirects                           *)

\* An object is as it was, or one version on and recorded.
Stepped(i) ==
  \/ objs'[i] = objs[i] /\ history'[i] = history[i]
  \/ objs'[i].version = objs[i].version + 1 /\ history'[i] = Append(history[i], objs'[i])

Created(i) == objs'[i].version = 1 /\ history'[i] = <<objs'[i]>>

\* The snapshots h tell the versions of the object o
Faithful(h, o) ==
  /\ Len(h) = o.version /\ \A v \in DOMAIN h : h[v].version = v
  /\ Last(h) = o

LEMMA FaithfulGrows ==
  ASSUME NEW h \in Seq(Object), NEW old \in Object, NEW o \in Object, o.version = old.version + 1,
         Faithful(h, old)
  PROVE  Append(h, o) \in Seq(Object) /\ Faithful(Append(h, o), o)
<1> DEFINE longer == Append(h, o)
           n == Len(h)
<1>1. longer \in Seq(Object) /\ Len(longer) = n + 1 /\ DOMAIN longer = 1 .. n + 1 /\ n \in Nat
  OBVIOUS
<1>2. \A v \in 1 .. n : longer[v] = h[v] /\ v \in DOMAIN h
  OBVIOUS
<1>3. longer[n + 1] = o
  OBVIOUS
<1> HIDE DEF longer
<1>4. \A v \in 1 .. n + 1 : v \in 1 .. n \/ v = n + 1
  BY <1>1
<1> QED BY <1>1, <1>2, <1>3, <1>4 DEF Last, Faithful, longer

LEMMA HistoryKept ==
  ASSUME IInv, objs' \in Seq(Object), Ids \subseteq Ids', DOMAIN history' = Ids',
         history' = [i \in DOMAIN history' |-> history'[i]],
         \A i \in Ids : Stepped(i), \A i \in Ids' \ Ids : Created(i)
  PROVE  HistoryIsFaithful' /\ history' \in [Ids' -> Seq(Object)] /\ Moves(objs, objs')
<1>1. /\ objs \in Seq(Object) /\ history \in [Ids -> Seq(Object)]
      /\ \A i \in Ids : objs[i] \in Object /\ objs[i].version \in Nat
      /\ \A i \in Ids' : objs'[i] \in Object /\ objs'[i].version \in Nat
  <2>1. /\ objs \in Seq(Object) /\ history \in [Ids -> Seq(Object)]
    BY DEF IInv, TypeOK
  <2>2. /\ \A i \in Ids : objs[i] \in Object
        /\ \A i \in Ids' : objs'[i] \in Object
    BY <2>1 DEF Ids
  <2> QED BY <2>1, <2>2, TypesOfObject
<1>2. ASSUME NEW i \in Ids PROVE history'[i] \in Seq(Object) /\ Faithful(history'[i], objs'[i])
  <2>1. history[i] \in Seq(Object) /\ Faithful(history[i], objs[i])
    BY <1>1 DEF IInv, HistoryIsFaithful, Faithful
  <2>2. CASE objs'[i] = objs[i] /\ history'[i] = history[i]
    BY <2>1, <2>2
  <2>3. CASE objs'[i].version = objs[i].version + 1 /\ history'[i] = Append(history[i], objs'[i])
    <3>1. objs[i] \in Object /\ objs'[i] \in Object /\ objs'[i].version = objs[i].version + 1
      BY <1>1, <2>3
    <3> QED BY <2>1, <2>3, <3>1, FaithfulGrows
  <2> QED BY <2>2, <2>3 DEF Stepped
<1>3. ASSUME NEW i \in Ids' \ Ids PROVE history'[i] \in Seq(Object) /\ Faithful(history'[i], objs'[i])
  <2>1. objs'[i].version = 1 /\ history'[i] = <<objs'[i]>> /\ objs'[i] \in Object
    BY <1>1 DEF Created
  <2>2. \A o \in Object : /\ <<o>> \in Seq(Object) /\ Len(<<o>>) = 1 /\ <<o>>[1] = o
                          /\ \A v \in DOMAIN <<o>> : v = 1
    OBVIOUS
  <2> QED BY <2>1, <2>2 DEF Faithful, Last
<1>4. HistoryIsFaithful'
  BY <1>2, <1>3 DEF HistoryIsFaithful, Faithful
<1>5. history' \in [Ids' -> Seq(Object)]
  BY <1>2, <1>3
<1>6. Moves(objs, objs')
  <2>1. \A i \in Ids : objs'[i] = objs[i] \/ objs'[i].version > objs[i].version
    BY <1>1 DEF Stepped
  <2> QED BY <2>1 DEF Moves, Ids
<1> QED BY <1>4, <1>5, <1>6

\* No redirect is drawn: each leads where it led.
LEMMA RedirectsKept ==
  ASSUME IInv, Ids \subseteq Ids',
         \A i \in Ids : /\ Redirects(i)' <=> Redirects(i)
                        /\ objs[i].sources \subseteq objs'[i].sources
                        /\ Redirects(i) => /\ objs'[i].into = objs[i].into
                                           /\ objs'[i].sources = objs[i].sources,
         \A i \in Ids' \ Ids : ~ Redirects(i)'
  PROVE  Ranked' /\ SourcesFlow'
<1>1. \A i \in Ids : Redirects(i) => objs[i].into \in Ids
  BY DEF IInv, TypeOK, Redirects
<1>2. Ranked'
  <2>1. PICK rank \in [Ids -> Nat] : Falls(rank)
    BY DEF IInv, Ranked
  <2>2. PICK more \in [Ids' -> Nat] : more = [i \in Ids' |-> IF i \in Ids THEN rank[i] ELSE 0]
    OBVIOUS
  <2>3. \A i \in Ids' : Redirects(i)' => more[objs'[i].into] < more[i]
    <3> SUFFICES ASSUME NEW i \in Ids', Redirects(i)' PROVE more[objs'[i].into] < more[i]
      OBVIOUS
    <3>1. i \in Ids /\ Redirects(i)
      OBVIOUS
    <3>2. objs'[i].into = objs[i].into /\ objs[i].into \in Ids /\ rank[objs[i].into] < rank[i]
      BY <1>1, <2>1, <3>1 DEF Falls
    <3>3. more[i] = rank[i] /\ more[objs[i].into] = rank[objs[i].into]
      BY <2>2, <3>1, <3>2
    <3> QED BY <3>2, <3>3
  <2>4. Falls(more)'
    BY <2>3 DEF Falls
  <2> QED BY <2>2, <2>4 DEF Ranked
<1>3. SourcesFlow'
  <2> SUFFICES ASSUME NEW i \in Ids', Redirects(i)' PROVE objs'[i].sources \subseteq objs'[objs'[i].into].sources
    BY DEF SourcesFlow
  <2>1. i \in Ids /\ Redirects(i)
    OBVIOUS
  <2>2. objs[i].sources \subseteq objs[objs[i].into].sources /\ objs[i].into \in Ids
    BY <1>1, <2>1 DEF IInv, SourcesFlow
  <2>3. objs[objs[i].into].sources \subseteq objs'[objs[i].into].sources
    BY <2>2
  <2> QED BY <2>1, <2>2, <2>3
<1> QED BY <1>2, <1>3

-----------------------------------------------------------------------------
(* The steps                                                               *)

\* A live object is written: its next version is obj.
Write(i, obj) ==
  /\ i \in Ids /\ Live(i) /\ obj \in Object /\ obj.into = 0
  /\ obj.type = objs[i].type /\ obj.tenant = objs[i].tenant /\ obj.keys = objs[i].keys
  /\ objs[i].sources \subseteq obj.sources /\ obj.version = objs[i].version + 1
  /\ objs' = [objs EXCEPT ![i] = obj]
  /\ history' = Recorded(i, obj)
  /\ index' \in {index, Indexed(i, obj)}
  /\ rels' = rels
  /\ seen' = seen \/ \E s \in obj.sources : seen' = seen \cup {<<i, s>>}

LEMMA Types ==
  IInv => /\ objs \in Seq(Object) /\ Ids = 1 .. Len(objs) /\ Len(objs) \in Nat
          /\ \A i \in Ids : objs[i] \in Object /\ objs[i].into \in {0} \cup Ids
          /\ index \in [Tenant \X Key -> {0} \cup Ids]
          /\ history \in [Ids -> Seq(Object)]
          /\ \A rel \in rels : rel.from \in Ids /\ rel.to \in Ids
          /\ copies \in [Caller -> Copy] /\ seen \subseteq Ids \X Source
<1> SUFFICES ASSUME IInv
             PROVE  /\ objs \in Seq(Object) /\ Ids = 1 .. Len(objs) /\ Len(objs) \in Nat
                    /\ \A i \in Ids : objs[i] \in Object
  BY DEF IInv, TypeOK
<1>1. objs \in Seq(Object)
  BY DEF IInv, TypeOK
<1> QED BY <1>1 DEF Ids

LEMMA WriteKeepsIInv ==
  ASSUME IInv, NEW c \in Caller, NEW i, NEW obj, Write(i, obj), Reply(c, i, obj)
  PROVE  IInv'
<1>1. /\ i \in Ids /\ objs[i].state # "merged" /\ ~ Redirects(i)
      /\ obj \in Object /\ obj.into = 0 /\ obj.tenant = objs[i].tenant
      /\ objs[i].sources \subseteq obj.sources /\ obj.version = objs[i].version + 1
  BY DEF Write, Live, LiveState, Redirects
<1>2. /\ objs' \in Seq(Object) /\ Ids' = Ids /\ Len(objs') = Len(objs) /\ objs'[i] = obj
      /\ \A j \in Ids : j # i => objs'[j] = objs[j]
  <2>1. objs' = [objs EXCEPT ![i] = obj] /\ i \in DOMAIN objs
    BY DEF Write, Ids
  <2> QED BY <1>1, <2>1, Types DEF Ids
<1>3. /\ DOMAIN history' = Ids' /\ history' = [j \in DOMAIN history' |-> history'[j]]
      /\ \A j \in Ids : Stepped(j)
  <2>1. history' = [history EXCEPT ![i] = Append(@, obj)] /\ DOMAIN history = Ids
    BY Types DEF Write, Recorded
  <2>2. history'[i] = Append(history[i], obj) /\ \A j \in Ids : j # i => history'[j] = history[j]
    BY <1>1, <2>1
  <2>3. \A j \in Ids : Stepped(j)
    BY <1>1, <1>2, <2>2 DEF Stepped
  <2>4. DOMAIN history' = Ids' /\ history' = [j \in DOMAIN history' |-> history'[j]]
    BY <1>2, <2>1
  <2> QED BY <2>3, <2>4
<1>4. HistoryIsFaithful' /\ history' \in [Ids' -> Seq(Object)] /\ Moves(objs, objs')
  BY <1>2, <1>3, HistoryKept
<1>5. CopiesOK' /\ copies' \in [Caller -> Copy]
  <2>1. i \in DOMAIN objs' /\ Reply(c, i, objs'[i])
    BY <1>1, <1>2 DEF Ids
  <2> QED BY <1>2, <1>4, <2>1, RepliesKeepCopies
<1>6. \A j \in Ids : objs'[j].into \in {0} \cup Ids' /\ objs'[j].tenant = objs[j].tenant
                     /\ objs[j].sources \subseteq objs'[j].sources
  BY <1>1, <1>2, Types
<1>7. OnlyMergedLead'
  <2>1. \A j \in Ids : objs'[j].state # "merged" => objs'[j].into = 0
    BY <1>1, <1>2 DEF IInv, OnlyMergedLead
  <2> QED BY <1>2, <2>1 DEF OnlyMergedLead
<1>8. Ranked' /\ SourcesFlow'
  <2>1. \A j \in Ids : /\ Redirects(j)' <=> Redirects(j)
                       /\ Redirects(j) => objs'[j].into = objs[j].into /\ objs'[j].sources = objs[j].sources
    BY <1>1, <1>2 DEF Redirects
  <2> QED BY <1>2, <1>6, <2>1, RedirectsKept
<1>9. SeenKept' /\ seen' \subseteq Ids' \X Source
  <2>1. \A o \in seen : o \in Ids \X Source /\ o[1] \in Ids /\ o[2] \in objs[o[1]].sources
    BY Types DEF IInv, SeenKept
  <2>2. \A o \in seen : o[2] \in objs'[o[1]].sources
    BY <1>6, <2>1
  <2>3. \A s \in obj.sources : s \in Source
    BY <1>1, TypesOfObject
  <2> QED BY <1>1, <1>2, <2>1, <2>2, <2>3 DEF Write, SeenKept
<1>10. RelationsStayInTenant' /\ \A rel \in rels' : rel.from \in Ids' /\ rel.to \in Ids'
  <2>1. \A rel \in rels : /\ rel.from \in Ids /\ rel.to \in Ids
                          /\ objs[rel.from].tenant = objs[rel.to].tenant
    BY Types DEF IInv, RelationsStayInTenant
  <2> QED BY <1>2, <1>6, <2>1 DEF Write, RelationsStayInTenant
<1>11. index' \in [Tenant \X Key -> {0} \cup Ids']
  <2>1. Indexed(i, obj) \in [Tenant \X Key -> {0} \cup Ids']
    BY <1>1, <1>2, IndexedTyped, Types
  <2> QED BY <1>2, <2>1, Types DEF Write
<1>12. TypeOK'
  BY <1>2, <1>4, <1>5, <1>6, <1>9, <1>10, <1>11 DEF TypeOK
<1> QED BY <1>4, <1>5, <1>7, <1>8, <1>9, <1>10, <1>12 DEF IInv

LEMMA MatchedWrites ==
  ASSUME IInv, NEW c \in Caller, NEW t \in Tenant, NEW ty \in Type, NEW keys \in KeyLists[ty],
         NEW s \in Source, UpsertMatched(c, t, ty, keys, s)
  PROVE  \E i \in Ids : \E obj : Write(i, obj) /\ Reply(c, i, obj)
<1> DEFINE i == Lookup(t, ty, keys)
           obj == [objs[i] EXCEPT !.sources = @ \cup {s}, !.version = @ + 1]
<1>1. /\ i # 0 /\ objs' = [objs EXCEPT ![i] = obj] /\ index' = Indexed(i, obj)
      /\ history' = Recorded(i, obj) /\ seen' = seen \cup {<<i, s>>} /\ Reply(c, i, obj) /\ rels' = rels
  BY DEF UpsertMatched
<1>2. i \in Ids /\ Live(i)
  <2>1. keys \in Seq(Key)
    BY ObjectStoreAssumption
  <2> QED BY <1>1, <2>1, LookupIs, Types
<1> HIDE DEF i
<1>3. objs[i] \in Object /\ objs[i].into = 0
  BY <1>2, Types DEF IInv, OnlyMergedLead, Live, LiveState
<1>4. /\ obj \in Object /\ obj.into = 0
      /\ obj.type = objs[i].type /\ obj.tenant = objs[i].tenant /\ obj.keys = objs[i].keys
      /\ objs[i].sources \subseteq obj.sources /\ obj.version = objs[i].version + 1 /\ s \in obj.sources
  <2>1. DOMAIN objs[i] = Fields
    BY <1>3 DEF Object, Fields
  <2>2. /\ obj.into = objs[i].into /\ obj.state = objs[i].state
        /\ obj.type = objs[i].type /\ obj.tenant = objs[i].tenant /\ obj.keys = objs[i].keys
        /\ obj.sources = objs[i].sources \cup {s} /\ obj.version = objs[i].version + 1
    BY <2>1 DEF Fields
  <2>3. obj = [f \in Fields |-> obj[f]]
    BY <2>1
  <2> HIDE DEF obj
  <2>4. obj.sources \in SUBSET Source /\ obj.state \in State
    BY <1>3, <2>2, TypesOfObject
  <2>5. obj \in Object
    BY <1>3, <2>2, <2>3, <2>4, NextVersion
  <2> QED BY <1>3, <2>2, <2>5
<1> HIDE DEF obj
<1>5. Write(i, obj)
  BY <1>1, <1>2, <1>4 DEF Write
<1> QED BY <1>1, <1>2, <1>5

LEMMA UpdateWrites ==
  ASSUME IInv, Careful, NEW c \in Caller, Update(c)
  PROVE  \E i \in Ids : \E obj : Write(i, obj) /\ Reply(c, i, obj)
<1> DEFINE i == copies[c].id
           obj == [copies[c].obj EXCEPT !.version = objs[i].version + 1]
<1>1. /\ UpToDate(c) /\ copies[c].obj.state \in LiveState
      /\ objs' = [objs EXCEPT ![i] = obj] /\ index' = Indexed(i, obj)
      /\ history' = Recorded(i, obj) /\ seen' = seen /\ Reply(c, i, obj) /\ rels' = rels
  BY DEF Update
<1>2. i \in Ids /\ copies[c].obj = objs[i]
  <2>1. i \in Ids /\ objs[i].version = copies[c].obj.version
    BY <1>1 DEF UpToDate
  <2>2. i # 0
    BY <2>1, Types
  <2> QED BY <2>1, <2>2 DEF IInv, CopiesOK, CopyIs
<1>3. objs[i] \in Object /\ objs[i].into = 0 /\ Live(i)
  BY <1>1, <1>2, Types DEF IInv, OnlyMergedLead, Live, LiveState
<1>4. /\ obj \in Object /\ obj.into = 0
      /\ obj.type = objs[i].type /\ obj.tenant = objs[i].tenant /\ obj.keys = objs[i].keys
      /\ objs[i].sources \subseteq obj.sources /\ obj.version = objs[i].version + 1
  BY <1>2, <1>3 DEF Object
<1> HIDE DEF obj
<1>5. Write(i, obj)
  BY <1>1, <1>2, <1>3, <1>4 DEF Write
<1> QED BY <1>1, <1>2, <1>5

LEMMA SetStateWrites ==
  ASSUME IInv, NEW c \in Caller, NEW state \in State, SetState(c, state)
  PROVE  \E i \in Ids : \E obj : Write(i, obj) /\ Reply(c, i, obj)
<1> DEFINE i == copies[c].id
           obj == [objs[i] EXCEPT !.state = state, !.version = @ + 1]
<1>1. /\ i \in Ids /\ state \in ValidTransitions[objs[i].state]
      /\ objs' = [objs EXCEPT ![i] = obj] /\ index' = index
      /\ history' = Recorded(i, obj) /\ seen' = seen /\ Reply(c, i, obj) /\ rels' = rels
  BY DEF SetState, UpToDate
<1>2. objs[i] \in Object /\ objs[i].state \in State
  <2>1. objs[i] \in Object
    BY <1>1, Types
  <2> QED BY <2>1, TypesOfObject
<1>3. Live(i)
  BY <1>1, <1>2 DEF Live, LiveState, ValidTransitions, State
<1>4. objs[i].into = 0
  BY <1>1, <1>3 DEF IInv, OnlyMergedLead, Live, LiveState
<1>5. /\ obj \in Object /\ obj.into = 0
      /\ obj.type = objs[i].type /\ obj.tenant = objs[i].tenant /\ obj.keys = objs[i].keys
      /\ objs[i].sources \subseteq obj.sources /\ obj.version = objs[i].version + 1
  <2>1. DOMAIN objs[i] = Fields
    BY <1>2 DEF Object, Fields
  <2>2. /\ obj.into = objs[i].into /\ obj.state = state
        /\ obj.type = objs[i].type /\ obj.tenant = objs[i].tenant /\ obj.keys = objs[i].keys
        /\ obj.sources = objs[i].sources /\ obj.version = objs[i].version + 1
    BY <2>1 DEF Fields
  <2>3. obj = [f \in Fields |-> obj[f]]
    BY <2>1
  <2> HIDE DEF obj
  <2>4. obj.sources \in SUBSET Source /\ obj.state \in State
    BY <1>2, <2>2, TypesOfObject
  <2>5. obj \in Object
    BY <1>2, <2>2, <2>3, <2>4, NextVersion
  <2> QED BY <1>4, <2>2, <2>5
<1> HIDE DEF obj
<1>6. Write(i, obj)
  BY <1>1, <1>3, <1>5 DEF Write
<1> QED BY <1>1, <1>6

\* What an observation creates that finds no live object
Observed(t, ty, keys, s) ==
  [type |-> ty, tenant |-> t, keys |-> ToSet(keys), sources |-> {s},
   state |-> "active", into |-> 0, version |-> 1]

LEMMA CreatesIs ==
  ASSUME IInv, NEW c \in Caller, NEW t \in Tenant, NEW ty \in Type, NEW keys \in KeyLists[ty],
         NEW s \in Source, UpsertCreates(c, t, ty, keys, s)
  PROVE  LET i == Len(objs) + 1
             obj == Observed(t, ty, keys, s)
         IN  /\ obj \in Object /\ objs' \in Seq(Object) /\ Ids' = Ids \cup {i} /\ i \notin Ids /\ i \in Ids'
             /\ objs'[i] = obj /\ \A j \in Ids : objs'[j] = objs[j]
             /\ index' = Indexed(i, obj) /\ seen' = seen \cup {<<i, s>>} /\ rels' = rels
             /\ DOMAIN history' = Ids' /\ history' = [j \in DOMAIN history' |-> history'[j]]
             /\ history'[i] = <<obj>> /\ \A j \in Ids : history'[j] = history[j]
             /\ Reply(c, i, obj)
<1> DEFINE i == Len(objs) + 1
           obj == Observed(t, ty, keys, s)
           n == Len(objs)
<1>1. /\ objs' = Append(objs, obj) /\ index' = Indexed(i, obj) /\ history' = Append(history, <<obj>>)
      /\ seen' = seen \cup {<<i, s>>} /\ Reply(c, i, obj) /\ rels' = rels
  BY DEF UpsertCreates, Observed
<1>2. obj \in Object
  <2>1. ToSet(keys) \in SUBSET Key
    <3>1. keys \in Seq(Key)
      BY ObjectStoreAssumption
    <3> QED BY <3>1 DEF ToSet
  <2> QED BY <2>1 DEF Object, Observed, State
<1> HIDE DEF obj
<1>3. objs \in Seq(Object) /\ n \in Nat /\ Ids = 1 .. n /\ DOMAIN objs = 1 .. n
  BY Types DEF Ids
<1>4. /\ Append(objs, obj) \in Seq(Object) /\ DOMAIN Append(objs, obj) = 1 .. n + 1
      /\ Append(objs, obj)[n + 1] = obj
      /\ \A j \in 1 .. n : Append(objs, obj)[j] = objs[j]
  BY <1>2, <1>3
<1>5. /\ Ids' = 1 .. n + 1 /\ Ids' = Ids \cup {i} /\ i \notin Ids /\ i \in Ids'
  <2>1. 1 .. n + 1 = 1 .. n \cup {n + 1}
    BY <1>3
  <2> QED BY <1>1, <1>3, <1>4, <2>1 DEF Ids
<1>6. /\ DOMAIN history' = 1 .. n + 1 /\ history' = [j \in DOMAIN history' |-> history'[j]]
      /\ history'[n + 1] = <<obj>> /\ \A j \in 1 .. n : history'[j] = history[j]
  <2>1. history \in [1 .. n -> Seq(Object)]
    BY <1>3, Types
  <2>2. <<obj>> \in Seq(Object)
    BY <1>2
  <2>3. history \in Seq(Seq(Object)) /\ Len(history) = n
    BY <1>3, <2>1
  <2>4. Append(history, <<obj>>) \in Seq(Seq(Object)) /\ Len(Append(history, <<obj>>)) = n + 1
        /\ Append(history, <<obj>>)[n + 1] = <<obj>>
        /\ \A j \in 1 .. n : Append(history, <<obj>>)[j] = history[j]
    BY <2>2, <2>3, AppendProperties
  <2>5. \A T : \A x \in Seq(T) : DOMAIN x = 1 .. Len(x) /\ x = [j \in DOMAIN x |-> x[j]]
    OBVIOUS
  <2>6. /\ DOMAIN Append(history, <<obj>>) = 1 .. Len(Append(history, <<obj>>))
        /\ Append(history, <<obj>>) = [j \in DOMAIN Append(history, <<obj>>) |-> Append(history, <<obj>>)[j]]
    BY <2>4, <2>5, Zenon
  <2> QED BY <1>1, <2>4, <2>6
<1>7. /\ objs' \in Seq(Object) /\ objs'[i] = obj /\ \A j \in Ids : objs'[j] = objs[j]
  BY <1>1, <1>3, <1>4
<1>8. /\ DOMAIN history' = Ids' /\ history' = [j \in DOMAIN history' |-> history'[j]]
      /\ history'[i] = <<obj>> /\ \A j \in Ids : history'[j] = history[j]
  BY <1>3, <1>5, <1>6
<1> QED BY <1>1, <1>2, <1>5, <1>7, <1>8 DEF obj

LEMMA CreatesKeepsIInv ==
  ASSUME IInv, NEW c \in Caller, NEW t \in Tenant, NEW ty \in Type, NEW keys \in KeyLists[ty],
         NEW s \in Source, UpsertCreates(c, t, ty, keys, s)
  PROVE  IInv'
<1> DEFINE i == Len(objs) + 1
           obj == Observed(t, ty, keys, s)
<1>1. /\ obj \in Object /\ objs' \in Seq(Object) /\ Ids' = Ids \cup {i} /\ i \notin Ids /\ i \in Ids'
      /\ objs'[i] = obj /\ \A j \in Ids : objs'[j] = objs[j]
      /\ index' = Indexed(i, obj) /\ seen' = seen \cup {<<i, s>>} /\ rels' = rels
      /\ DOMAIN history' = Ids' /\ history' = [j \in DOMAIN history' |-> history'[j]]
      /\ history'[i] = <<obj>> /\ \A j \in Ids : history'[j] = history[j]
      /\ Reply(c, i, obj)
  BY CreatesIs
<1>2. obj.state = "active" /\ obj.into = 0 /\ obj.version = 1 /\ obj.sources = {s}
  BY DEF Observed
<1> HIDE DEF i, obj
<1>3. HistoryIsFaithful' /\ history' \in [Ids' -> Seq(Object)] /\ Moves(objs, objs')
  <2>1. \A j \in Ids : Stepped(j)
    BY <1>1 DEF Stepped
  <2>2. \A j \in Ids' \ Ids : Created(j)
    BY <1>1, <1>2 DEF Created
  <2> QED BY <1>1, <2>1, <2>2, HistoryKept
<1>4. CopiesOK' /\ copies' \in [Caller -> Copy]
  <2>1. i \in DOMAIN objs' /\ Reply(c, i, objs'[i])
    BY <1>1 DEF Ids
  <2> QED BY <1>1, <1>3, <2>1, RepliesKeepCopies
<1>5. \A j \in Ids' : objs'[j].into \in {0} \cup Ids'
  BY <1>1, <1>2, Types
<1>6. OnlyMergedLead'
  <2>1. \A j \in Ids : objs'[j].state # "merged" => objs'[j].into = 0
    BY <1>1 DEF IInv, OnlyMergedLead
  <2> QED BY <1>1, <1>2, <2>1 DEF OnlyMergedLead
<1>7. Ranked' /\ SourcesFlow'
  <2>1. \A j \in Ids : /\ Redirects(j)' <=> Redirects(j)
                       /\ objs[j].sources \subseteq objs'[j].sources
                       /\ Redirects(j) => objs'[j].into = objs[j].into /\ objs'[j].sources = objs[j].sources
    BY <1>1 DEF Redirects
  <2>2. \A j \in Ids' \ Ids : ~ Redirects(j)'
    BY <1>1, <1>2 DEF Redirects
  <2> QED BY <1>1, <2>1, <2>2, RedirectsKept
<1>8. SeenKept' /\ seen' \subseteq Ids' \X Source
  <2>1. \A o \in seen : o \in Ids \X Source /\ o[1] \in Ids /\ o[2] \in objs[o[1]].sources
    BY Types DEF IInv, SeenKept
  <2> QED BY <1>1, <1>2, <2>1 DEF SeenKept
<1>9. RelationsStayInTenant' /\ \A rel \in rels' : rel.from \in Ids' /\ rel.to \in Ids'
  <2>1. \A rel \in rels : /\ rel.from \in Ids /\ rel.to \in Ids
                          /\ objs[rel.from].tenant = objs[rel.to].tenant
    BY Types DEF IInv, RelationsStayInTenant
  <2> QED BY <1>1, <2>1 DEF RelationsStayInTenant
<1>10. index' \in [Tenant \X Key -> {0} \cup Ids']
  <2>1. Indexed(i, obj) \in [Tenant \X Key -> {0} \cup Ids']
    BY <1>1, IndexedTyped, Types
  <2> QED BY <1>1, <2>1
<1>11. TypeOK'
  BY <1>1, <1>3, <1>4, <1>5, <1>8, <1>9, <1>10 DEF TypeOK
<1> QED BY <1>3, <1>4, <1>6, <1>7, <1>8, <1>9, <1>11 DEF IInv

LEMMA MergeIs ==
  ASSUME IInv, Careful, NEW c \in Caller, NEW s \in Ids, NEW d \in Ids, Merge(c, s, d)
  PROVE  /\ s # d /\ Live(s) /\ Live(d) /\ objs[s].tenant = objs[d].tenant
         /\ objs' \in Seq(Object) /\ Ids' = Ids
         /\ \A j \in Ids : j # s /\ j # d => objs'[j] = objs[j]
         /\ objs'[s] = Kept(s, d) /\ Kept(s, d) \in Object
         /\ objs'[s].into = objs[s].into /\ objs'[s].state = objs[s].state
         /\ objs'[s].type = objs[s].type /\ objs'[s].tenant = objs[s].tenant
         /\ objs'[s].keys = objs[s].keys \cup objs[d].keys
         /\ objs'[s].sources = objs[s].sources \cup objs[d].sources
         /\ objs'[s].version = objs[s].version + 1
         /\ objs'[d].into = s /\ objs'[d].state = "merged" /\ objs'[d].sources = objs[d].sources
         /\ objs'[d].tenant = objs[d].tenant /\ objs'[d].version = objs[d].version + 1
         /\ DOMAIN history' = Ids' /\ history' = [j \in DOMAIN history' |-> history'[j]]
         /\ \A j \in Ids : j # s /\ j # d => history'[j] = history[j]
         /\ history'[s] = Append(history[s], objs'[s]) /\ history'[d] = Append(history[d], objs'[d])
         /\ index' = Indexed(s, Kept(s, d)) /\ seen' = seen
         /\ rels' = {Repointed(rel, s, d) : rel \in rels}
         /\ Reply(c, s, objs'[s])
<1> DEFINE kept == [objs EXCEPT ![s] = Kept(s, d)]
           gone == [kept[d] EXCEPT !.state = "merged", !.into = s, !.version = @ + 1]
<1>1. /\ s # d /\ Live(s) /\ Live(d) /\ objs[s].tenant = objs[d].tenant
      /\ objs' = Merged(s, d)
      /\ index' = Indexed(s, Kept(s, d)) /\ seen' = seen
      /\ rels' = {Repointed(rel, s, d) : rel \in rels}
      /\ Reply(c, s, Merged(s, d)[s])
      /\ history' = [history EXCEPT ![s] = Append(@, Merged(s, d)[s]), ![d] = Append(@, Merged(s, d)[d])]
  BY DEF Merge, MayMerge
<1>2. objs' = [kept EXCEPT ![d] = gone]
  BY <1>1 DEF Merged
<1>3. objs \in Seq(Object) /\ objs[s] \in Object /\ objs[d] \in Object /\ Ids = DOMAIN objs
  BY Types DEF Ids
<1>4. /\ Kept(s, d) \in Object
      /\ Kept(s, d).into = objs[s].into /\ Kept(s, d).state = objs[s].state
      /\ Kept(s, d).type = objs[s].type /\ Kept(s, d).tenant = objs[s].tenant
      /\ Kept(s, d).keys = objs[s].keys \cup objs[d].keys
      /\ Kept(s, d).sources = objs[s].sources \cup objs[d].sources
      /\ Kept(s, d).version = objs[s].version + 1
  <2> DEFINE n == [objs[s] EXCEPT !.sources = @ \cup objs[d].sources,
                                  !.keys    = @ \cup objs[d].keys,
                                  !.version = @ + 1]
  <2>1. DOMAIN objs[s] = Fields
    BY <1>3 DEF Object, Fields
  <2>2. /\ n.into = objs[s].into /\ n.state = objs[s].state
        /\ n.type = objs[s].type /\ n.tenant = objs[s].tenant
        /\ n.keys = objs[s].keys \cup objs[d].keys
        /\ n.sources = objs[s].sources \cup objs[d].sources /\ n.version = objs[s].version + 1
    BY <2>1 DEF Fields
  <2>3. n = [f \in Fields |-> n[f]]
    BY <2>1
  <2> HIDE DEF n
  <2>4. n \in Object
    <3>1. /\ n.type \in Type /\ n.tenant \in Tenant /\ n.keys \in SUBSET Key
          /\ n.sources \in SUBSET Source /\ n.state \in State /\ n.into \in Nat /\ n.version \in Nat
      BY <1>3, <2>2, TypesOfObject
    <3> QED BY ONLY <2>3, <3>1 DEF Object, Fields
  <2>5. Kept(s, d) = n
    BY DEF Kept, n
  <2> QED BY <2>2, <2>4, <2>5
<1>5. kept \in Seq(Object) /\ DOMAIN kept = Ids /\ kept[s] = Kept(s, d)
      /\ \A j \in Ids : j # s => kept[j] = objs[j]
  BY <1>3, <1>4
<1>6. /\ gone \in Object /\ gone.into = s /\ gone.state = "merged" /\ gone.sources = objs[d].sources
      /\ gone.tenant = objs[d].tenant /\ gone.version = objs[d].version + 1
  <2>1. kept[d] = objs[d]
    BY <1>1, <1>5
  <2>2. DOMAIN kept[d] = Fields
    BY <1>3, <2>1 DEF Object, Fields
  <2> HIDE DEF kept
  <2>3. /\ gone.into = s /\ gone.state = "merged" /\ gone.sources = kept[d].sources
        /\ gone.type = kept[d].type /\ gone.tenant = kept[d].tenant /\ gone.keys = kept[d].keys
        /\ gone.version = kept[d].version + 1
    BY <2>2 DEF Fields
  <2>4. gone = [f \in Fields |-> gone[f]]
    BY <2>2
  <2> HIDE DEF gone
  <2>5. gone \in Object
    <3>1. s \in Nat
      BY Types
    <3>2. /\ gone.type \in Type /\ gone.tenant \in Tenant /\ gone.keys \in SUBSET Key
          /\ gone.sources \in SUBSET Source /\ gone.state \in State /\ gone.into \in Nat
          /\ gone.version \in Nat
      BY <1>3, <2>1, <2>3, <3>1, TypesOfObject DEF State
    <3> QED BY ONLY <2>4, <3>2 DEF Object, Fields
  <2> QED BY <2>1, <2>3, <2>5
<1> HIDE DEF kept, gone
<1>7. /\ objs' \in Seq(Object) /\ Ids' = Ids /\ objs'[s] = Kept(s, d) /\ objs'[d] = gone
      /\ \A j \in Ids : j # s /\ j # d => objs'[j] = objs[j]
  BY <1>1, <1>2, <1>5, <1>6 DEF Ids
<1>8. /\ DOMAIN history' = Ids' /\ history' = [j \in DOMAIN history' |-> history'[j]]
      /\ \A j \in Ids : j # s /\ j # d => history'[j] = history[j]
      /\ history'[s] = Append(history[s], objs'[s]) /\ history'[d] = Append(history[d], objs'[d])
  <2>1. history' = [history EXCEPT ![s] = Append(@, objs'[s]), ![d] = Append(@, objs'[d])]
    BY <1>1
  <2>2. DOMAIN history = Ids
    BY Types
  <2> QED BY <1>1, <1>7, <2>1, <2>2
<1>9. Reply(c, s, objs'[s])
  BY <1>1
<1> QED BY <1>1, <1>4, <1>6, <1>7, <1>8, <1>9

LEMMA MergeKeepsIInv ==
  ASSUME IInv, Careful, NEW c \in Caller, NEW s \in Ids, NEW d \in Ids, Merge(c, s, d)
  PROVE  IInv'
<1>1. /\ s # d /\ Live(s) /\ Live(d) /\ objs[s].tenant = objs[d].tenant
      /\ objs' \in Seq(Object) /\ Ids' = Ids
      /\ \A j \in Ids : j # s /\ j # d => objs'[j] = objs[j]
      /\ objs'[s] = Kept(s, d) /\ Kept(s, d) \in Object
      /\ objs'[s].into = objs[s].into /\ objs'[s].state = objs[s].state
      /\ objs'[s].tenant = objs[s].tenant
      /\ objs'[s].sources = objs[s].sources \cup objs[d].sources
      /\ objs'[s].version = objs[s].version + 1
      /\ objs'[d].into = s /\ objs'[d].state = "merged" /\ objs'[d].sources = objs[d].sources
      /\ objs'[d].tenant = objs[d].tenant /\ objs'[d].version = objs[d].version + 1
  BY MergeIs
<1>2. /\ DOMAIN history' = Ids' /\ history' = [j \in DOMAIN history' |-> history'[j]]
      /\ \A j \in Ids : j # s /\ j # d => history'[j] = history[j]
      /\ history'[s] = Append(history[s], objs'[s]) /\ history'[d] = Append(history[d], objs'[d])
      /\ index' = Indexed(s, Kept(s, d)) /\ seen' = seen
      /\ rels' = {Repointed(rel, s, d) : rel \in rels}
      /\ Reply(c, s, objs'[s])
  BY MergeIs
<1>3. HistoryIsFaithful' /\ history' \in [Ids' -> Seq(Object)] /\ Moves(objs, objs')
  <2>1. \A j \in Ids : Stepped(j)
    BY <1>1, <1>2 DEF Stepped
  <2> QED BY <1>1, <1>2, <2>1, HistoryKept
<1>4. CopiesOK' /\ copies' \in [Caller -> Copy]
  <2>1. s \in DOMAIN objs' /\ Reply(c, s, objs'[s])
    BY <1>1, <1>2 DEF Ids
  <2> QED BY <1>1, <1>3, <2>1, RepliesKeepCopies
<1>5. \A j \in Ids : objs'[j].into \in {0} \cup Ids' /\ objs'[j].tenant = objs[j].tenant
                     /\ objs[j].sources \subseteq objs'[j].sources
  <2>1. \A j \in Ids : objs[j].into \in {0} \cup Ids
    BY Types
  <2> QED BY <1>1, <2>1
<1>6. OnlyMergedLead'
  <2>1. \A j \in Ids : objs'[j].state # "merged" => objs'[j].into = 0
    BY <1>1 DEF IInv, OnlyMergedLead
  <2> QED BY <1>1, <2>1 DEF OnlyMergedLead
<1>7. ~ Redirects(s) /\ ~ Redirects(d) /\ ~ Redirects(s)'
  BY <1>1 DEF Redirects, Live, LiveState
<1>8. \A j \in Ids : Redirects(j)' => j = d \/ (j # s /\ j # d /\ Redirects(j) /\ objs'[j] = objs[j])
  BY <1>1, <1>7 DEF Redirects
<1>9. \A j \in Ids : Redirects(j) => objs[j].into \in Ids
  BY Types DEF Redirects
<1>10. Ranked'
  <2>1. PICK rank \in [Ids -> Nat] : Falls(rank)
    BY DEF IInv, Ranked
  <2>2. PICK up \in [Ids' -> Nat] : up = [j \in Ids |-> IF j = s THEN rank[s] ELSE rank[j] + rank[s] + 1]
    <3> DEFINE u == [j \in Ids |-> IF j = s THEN rank[s] ELSE rank[j] + rank[s] + 1]
    <3>1. \A j \in Ids : rank[j] \in Nat /\ rank[j] + rank[s] + 1 \in Nat
      OBVIOUS
    <3>2. u \in [Ids -> Nat]
      BY <3>1
    <3> QED BY <1>1, <3>2
  <2>3. ASSUME NEW j \in Ids, Redirects(j)' PROVE up[objs'[j].into] < up[j]
    <3>1. CASE j = d
      <4>1. up[j] = rank[d] + rank[s] + 1 /\ up[objs'[j].into] = rank[s]
        BY <1>1, <2>2, <3>1
      <4>2. rank[d] \in Nat /\ rank[s] \in Nat
        OBVIOUS
      <4> QED BY <4>1, <4>2
    <3>2. CASE j # s /\ j # d /\ Redirects(j) /\ objs'[j] = objs[j]
      <4>1. objs[j].into \in Ids /\ rank[objs[j].into] < rank[j]
        BY <1>9, <2>1, <3>2 DEF Falls
      <4>2. /\ up[j] = rank[j] + rank[s] + 1
            /\ up[objs[j].into] \in {rank[s], rank[objs[j].into] + rank[s] + 1}
        BY <2>2, <3>2, <4>1
      <4>3. rank[objs[j].into] \in Nat /\ rank[s] \in Nat /\ rank[j] \in Nat
        BY <4>1
      <4>4. up[objs[j].into] < up[j]
        BY <4>1, <4>2, <4>3
      <4> QED BY <3>2, <4>4
    <3> QED BY <1>8, <2>3, <3>1, <3>2
  <2>4. Falls(up)'
    BY <1>1, <2>3 DEF Falls
  <2> QED BY <2>4 DEF Ranked
<1>11. SourcesFlow'
  <2> SUFFICES ASSUME NEW j \in Ids, Redirects(j)' PROVE objs'[j].sources \subseteq objs'[objs'[j].into].sources
    BY <1>1 DEF SourcesFlow
  <2>1. CASE j = d
    BY <1>1, <2>1
  <2>2. CASE j # s /\ j # d /\ Redirects(j) /\ objs'[j] = objs[j]
    <3>1. objs[j].into \in Ids /\ objs[j].sources \subseteq objs[objs[j].into].sources
      BY <1>9, <2>2 DEF IInv, SourcesFlow
    <3>2. objs[objs[j].into].sources \subseteq objs'[objs[j].into].sources
      BY <1>5, <3>1
    <3> QED BY <2>2, <3>1, <3>2
  <2> QED BY <1>8, <2>1, <2>2
<1>12. SeenKept' /\ seen' \subseteq Ids' \X Source
  <2>1. \A o \in seen : o \in Ids \X Source /\ o[1] \in Ids /\ o[2] \in objs[o[1]].sources
    BY Types DEF IInv, SeenKept
  <2>2. \A o \in seen : o[2] \in objs'[o[1]].sources
    BY <1>5, <2>1
  <2> QED BY <1>1, <1>2, <2>1, <2>2 DEF SeenKept
<1>13. RelationsStayInTenant' /\ \A rel \in rels' : rel.from \in Ids' /\ rel.to \in Ids'
  <2>1. ASSUME NEW rel \in rels
        PROVE  LET moved == Repointed(rel, s, d)
               IN  /\ moved.from \in Ids' /\ moved.to \in Ids'
                   /\ objs'[moved.from].tenant = objs'[moved.to].tenant
    <3>1. /\ rel.from \in Ids /\ rel.to \in Ids
          /\ objs[rel.from].tenant = objs[rel.to].tenant
      BY Types DEF IInv, RelationsStayInTenant
    <3>2. /\ Repointed(rel, s, d).from = IF rel.from = d THEN s ELSE rel.from
          /\ Repointed(rel, s, d).to = IF rel.to = d THEN s ELSE rel.to
      BY DEF Repointed
    <3> QED BY <1>1, <1>5, <3>1, <3>2
  <2> QED BY <1>2, <2>1 DEF RelationsStayInTenant
<1>14. index' \in [Tenant \X Key -> {0} \cup Ids']
  <2>1. Indexed(s, Kept(s, d)) \in [Tenant \X Key -> {0} \cup Ids']
    BY <1>1, IndexedTyped, Types
  <2> QED BY <1>2, <2>1
<1>15. TypeOK'
  BY <1>1, <1>3, <1>4, <1>5, <1>12, <1>13, <1>14 DEF TypeOK
<1> QED BY <1>3, <1>4, <1>6, <1>10, <1>11, <1>12, <1>13, <1>15 DEF IInv

\* get gives out the object the id resolves to.
LEMMA GetKeepsIInv ==
  ASSUME IInv, NEW c \in Caller, NEW i \in Ids, Get(c, i)
  PROVE  IInv'
<1> DEFINE r == Resolve(i)
           new == [id |-> r, obj |-> objs[r]]
<1>1. copies' = [copies EXCEPT ![c] = new] /\ UNCHANGED <<objs, index, history, rels, seen>>
  BY DEF Get
<1>2. r \in Ids
  BY Properties
<1> HIDE DEF r
<1>3. new \in Copy /\ CopyIs(new, objs)
  <2>1. r \in Id /\ objs[r] \in Object
    BY <1>2, Types DEF Id
  <2>2. objs[r].version \in Nat
    BY <2>1, TypesOfObject
  <2>3. objs[r].version <= objs[r].version
    BY <2>2
  <2> QED BY <1>2, <2>1, <2>3 DEF Copy, CopyIs, Ids
<1> HIDE DEF new
<1>4. copies' \in [Caller -> Copy]
  BY <1>1, <1>3, Types
<1>5. \A d \in Caller : copies'[d] = copies[d] \/ copies'[d] = new
  BY <1>1, Types
<1>6. CopiesOK'
  <2>1. \A d \in Caller : CopyIs(copies[d], objs)
    BY DEF IInv, CopiesOK
  <2>2. \A d \in Caller : CopyIs(copies'[d], objs)
    BY <1>3, <1>5, <2>1
  <2>3. objs' = objs
    BY <1>1
  <2> QED BY <2>2, <2>3 DEF CopiesOK
<1>7. TypeOK'
  BY <1>1, <1>4 DEF IInv, TypeOK, Ids
<1>8. OnlyMergedLead' /\ Ranked' /\ SourcesFlow' /\ SeenKept' /\ RelationsStayInTenant' /\ HistoryIsFaithful'
  BY <1>1 DEF IInv, OnlyMergedLead, Ranked, Falls, SourcesFlow, SeenKept, RelationsStayInTenant,
              HistoryIsFaithful, Redirects, Ids
<1> QED BY <1>6, <1>7, <1>8 DEF IInv

LEMMA RelateKeepsIInv ==
  ASSUME IInv, NEW i, NEW j, Relate(i, j)
  PROVE  IInv'
<1>1. /\ UNCHANGED <<objs, index, history, copies, seen>>
      /\ rels' = rels \cup {[from |-> i, to |-> j]}
      /\ i \in Ids /\ j \in Ids /\ objs[i].tenant = objs[j].tenant
  BY DEF Relate, Related
<1>2. \A rel \in rels' : rel.from \in Ids /\ rel.to \in Ids /\ objs[rel.from].tenant = objs[rel.to].tenant
  <2>1. \A rel \in rels : rel.from \in Ids /\ rel.to \in Ids /\ objs[rel.from].tenant = objs[rel.to].tenant
    BY Types DEF IInv, RelationsStayInTenant
  <2> QED BY <1>1, <2>1
<1>3. TypeOK' /\ RelationsStayInTenant'
  BY <1>1, <1>2 DEF IInv, TypeOK, RelationsStayInTenant, Ids
<1>4. CopiesOK' /\ OnlyMergedLead' /\ Ranked' /\ SourcesFlow' /\ SeenKept' /\ HistoryIsFaithful'
  BY <1>1 DEF IInv, CopiesOK, OnlyMergedLead, Ranked, Falls, SourcesFlow, SeenKept, HistoryIsFaithful,
              Redirects, Ids
<1> QED BY <1>3, <1>4 DEF IInv

LEMMA UnchangedKeepsIInv == IInv /\ UNCHANGED vars => IInv'
  BY DEF IInv, vars, TypeOK, CopiesOK, OnlyMergedLead, Ranked, Falls, SourcesFlow, SeenKept,
         RelationsStayInTenant, HistoryIsFaithful, Redirects, Ids

LEMMA InitIInv == Init => IInv
<1> SUFFICES ASSUME Init PROVE IInv
  OBVIOUS
<1>1. objs = <<>> /\ history = <<>> /\ rels = {} /\ seen = {} /\ Ids = {}
      /\ index = [tk \in Tenant \X Key |-> 0] /\ copies = [c \in Caller |-> NoCopy]
  BY DEF Init, Ids
<1>2. TypeOK
  BY <1>1 DEF TypeOK, Copy
<1>3. CopiesOK
  BY <1>1 DEF CopiesOK, CopyIs, NoCopy
<1>4. Ranked
  <2>1. <<>> \in [Ids -> Nat] /\ Falls(<<>>)
    BY <1>1 DEF Falls
  <2> QED BY <2>1 DEF Ranked
<1>5. OnlyMergedLead /\ SourcesFlow /\ SeenKept /\ RelationsStayInTenant /\ HistoryIsFaithful
  BY <1>1 DEF OnlyMergedLead, SourcesFlow, SeenKept, RelationsStayInTenant, HistoryIsFaithful
<1> QED BY <1>2, <1>3, <1>4, <1>5 DEF IInv

LEMMA NextKeepsIInv == IInv /\ Careful /\ [Next]_vars => IInv'
<1> SUFFICES ASSUME IInv, Careful, [Next]_vars PROVE IInv'
  OBVIOUS
<1>1. ASSUME NEW c \in Caller, Upsert(c) PROVE IInv'
  <2>1. PICK t \in Tenant, ty \in Type, s \in Source : \E keys \in KeyLists[ty] :
          UpsertMatched(c, t, ty, keys, s) \/ UpsertCreates(c, t, ty, keys, s)
    BY <1>1 DEF Upsert
  <2>2. PICK keys \in KeyLists[ty] : UpsertMatched(c, t, ty, keys, s) \/ UpsertCreates(c, t, ty, keys, s)
    BY <2>1
  <2>3. CASE UpsertMatched(c, t, ty, keys, s)
    BY <2>3, MatchedWrites, WriteKeepsIInv
  <2>4. CASE UpsertCreates(c, t, ty, keys, s)
    BY <2>4, CreatesKeepsIInv
  <2> QED BY <2>2, <2>3, <2>4
<1>2. ASSUME NEW c \in Caller, Update(c) PROVE IInv'
  BY <1>2, UpdateWrites, WriteKeepsIInv
<1>3. ASSUME NEW c \in Caller, NEW i \in Ids, Get(c, i) PROVE IInv'
  BY <1>3, GetKeepsIInv
<1>4. ASSUME NEW c \in Caller, NEW state \in State, SetState(c, state) PROVE IInv'
  BY <1>4, SetStateWrites, WriteKeepsIInv
<1>5. ASSUME NEW c \in Caller, NEW i \in Ids, NEW j \in Ids, Merge(c, i, j) PROVE IInv'
  BY <1>5, MergeKeepsIInv
<1>6. ASSUME NEW i \in 1 .. MaxObjects, NEW j \in 1 .. MaxObjects, Relate(i, j) PROVE IInv'
  BY <1>6, RelateKeepsIInv
<1>7. CASE UNCHANGED vars
  BY <1>7, UnchangedKeepsIInv
<1> QED BY <1>1, <1>2, <1>3, <1>4, <1>5, <1>6, <1>7 DEF Next

-----------------------------------------------------------------------------
(* Natural keys                                                            *)

LEMMA KeyTypes ==
  ASSUME IInv, NEW i \in Ids
  PROVE  objs[i].tenant \in Tenant /\ \A k \in objs[i].keys : k \in Key
<1>1. objs[i] \in Object
  BY Types
<1> QED BY <1>1, TypesOfObject

LEMMA WriteKeepsKeys ==
  ASSUME IInv, KeysLead, IInv', NEW i, NEW obj, Write(i, obj)
  PROVE  KeysLead'
<1>1. /\ i \in Ids /\ Live(i) /\ obj \in Object /\ obj.tenant = objs[i].tenant /\ obj.keys = objs[i].keys
      /\ objs' = [objs EXCEPT ![i] = obj] /\ index' \in {index, Indexed(i, obj)}
  BY DEF Write
<1>2. Ids' = Ids /\ objs'[i] = obj /\ \A j \in Ids : j # i => objs'[j] = objs[j]
  BY <1>1, Types DEF Ids
<1> SUFFICES ASSUME NEW j \in Ids, Live(j)', NEW k \in objs'[j].keys
             PROVE  index'[<<objs'[j].tenant, k>>] = j
  BY <1>2 DEF KeysLead
<1>3. Live(j) /\ objs'[j].keys = objs[j].keys /\ objs'[j].tenant = objs[j].tenant
  BY <1>1, <1>2 DEF Live
<1>4. index[<<objs[j].tenant, k>>] = j /\ objs[j].tenant \in Tenant /\ k \in Key
  BY <1>3, KeyTypes DEF KeysLead
<1>5. Indexed(i, obj)[<<objs[j].tenant, k>>] = j
  <2>1. Indexed(i, obj)[<<objs[j].tenant, k>>] =
          IF objs[j].tenant = obj.tenant /\ k \in obj.keys THEN i ELSE index[<<objs[j].tenant, k>>]
    BY <1>1, <1>2, <1>4, IndexedTyped, Types
  <2>2. objs[j].tenant = obj.tenant /\ k \in obj.keys => i = j
    BY <1>1, <1>4 DEF KeysLead
  <2> QED BY <1>4, <2>1, <2>2
<1> QED BY <1>1, <1>3, <1>4, <1>5

LEMMA CreatesKeepsKeys ==
  ASSUME IInv, KeysLead, OneType, NEW c \in Caller, NEW t \in Tenant, NEW ty \in Type,
         NEW keys \in KeyLists[ty], NEW s \in Source, UpsertCreates(c, t, ty, keys, s)
  PROVE  KeysLead'
<1> DEFINE i == Len(objs) + 1
           obj == Observed(t, ty, keys, s)
<1>1. /\ obj \in Object /\ Ids' = Ids \cup {i} /\ i \notin Ids /\ i \in Ids'
      /\ objs'[i] = obj /\ \A j \in Ids : objs'[j] = objs[j]
      /\ index' = Indexed(i, obj)
  BY CreatesIs
<1>2. obj.tenant = t /\ obj.keys = ToSet(keys)
  BY DEF Observed
<1>3. Lookup(t, ty, keys) = 0 /\ keys \in Seq(Key)
  BY ObjectStoreAssumption DEF UpsertCreates
<1> HIDE DEF i, obj
<1>4. \A u \in Tenant, k \in Key :
        index'[<<u, k>>] = IF u = obj.tenant /\ k \in obj.keys THEN i ELSE index[<<u, k>>]
  <2>1. index \in [Tenant \X Key -> {0} \cup Ids] /\ Ids \subseteq Ids'
    BY <1>1, Types
  <2>2. \A u \in Tenant, k \in Key :
          Indexed(i, obj)[<<u, k>>] = IF u = obj.tenant /\ k \in obj.keys THEN i ELSE index[<<u, k>>]
    BY <1>1, <2>1, IndexedTyped
  <2> QED BY <1>1, <2>2
<1> SUFFICES ASSUME NEW j \in Ids', Live(j)', NEW k \in objs'[j].keys
             PROVE  index'[<<objs'[j].tenant, k>>] = j
  BY DEF KeysLead
<1>5. CASE j = i
  <2>1. obj.tenant \in Tenant /\ k \in Key
    BY <1>1, <1>5, TypesOfObject
  <2> QED BY <1>1, <1>4, <1>5, <2>1
<1>6. CASE j \in Ids
  <2>1. Live(j) /\ objs'[j] = objs[j]
    BY <1>1, <1>6 DEF Live
  <2>2. index[<<objs[j].tenant, k>>] = j /\ objs[j].tenant \in Tenant /\ k \in Key
    BY <1>6, <2>1, KeyTypes DEF KeysLead
  <2>3. ~ (objs[j].tenant = t /\ k \in ToSet(keys))
    <3> SUFFICES ASSUME objs[j].tenant = t, k \in ToSet(keys) PROVE FALSE
      OBVIOUS
    <3>1. PICK p \in DOMAIN keys : keys[p] = k
      BY DEF ToSet
    <3>2. ~ Hit(t, ty, keys[p])
      BY <1>3, LookupIs, Types
    <3>3. j # 0 /\ objs[j].type = ty
      <4>1. objs[j] \in Object
        BY <1>6, Types
      <4>2. objs[j].type \in Type
        BY <4>1, TypesOfObject
      <4> QED BY <1>6, <4>2, Types DEF OneType
    <3> QED BY <2>1, <2>2, <3>1, <3>2, <3>3 DEF Hit
  <2> QED BY <1>2, <1>4, <2>1, <2>2, <2>3
<1> QED BY <1>1, <1>5, <1>6

LEMMA MergeKeepsKeys ==
  ASSUME IInv, KeysLead, Careful, NEW c \in Caller, NEW s \in Ids, NEW d \in Ids, Merge(c, s, d)
  PROVE  KeysLead'
<1>1. /\ s # d /\ Live(s) /\ Live(d) /\ objs[s].tenant = objs[d].tenant
      /\ Ids' = Ids
      /\ \A j \in Ids : j # s /\ j # d => objs'[j] = objs[j]
      /\ objs'[s] = Kept(s, d) /\ Kept(s, d) \in Object
      /\ objs'[s].tenant = objs[s].tenant
      /\ objs'[s].keys = objs[s].keys \cup objs[d].keys
      /\ objs'[d].state = "merged"
      /\ index' = Indexed(s, Kept(s, d))
  BY MergeIs
<1>2. \A u \in Tenant, k \in Key :
        index'[<<u, k>>] = IF u = objs[s].tenant /\ k \in objs[s].keys \cup objs[d].keys THEN s
                           ELSE index[<<u, k>>]
  <2>1. index \in [Tenant \X Key -> {0} \cup Ids] /\ Ids \subseteq Ids' /\ s \in Ids'
    BY <1>1, Types
  <2>2. \A u \in Tenant, k \in Key :
          Indexed(s, Kept(s, d))[<<u, k>>] =
            IF u = Kept(s, d).tenant /\ k \in Kept(s, d).keys THEN s ELSE index[<<u, k>>]
    BY <1>1, <2>1, IndexedTyped
  <2>3. /\ Kept(s, d).tenant = objs[s].tenant
        /\ Kept(s, d).keys = objs[s].keys \cup objs[d].keys
        /\ index' = Indexed(s, Kept(s, d))
    BY <1>1
  <2> QED BY ONLY <2>2, <2>3
<1>2a. Ids' = Ids
  BY <1>1
<1> SUFFICES ASSUME NEW j \in Ids, Live(j)', NEW k \in objs'[j].keys
             PROVE  index'[<<objs'[j].tenant, k>>] = j
  BY <1>2a DEF KeysLead
<1>3. j # d
  BY <1>1 DEF Live, LiveState
<1>4. CASE j = s
  <2>1. objs[s].tenant \in Tenant /\ k \in Key
    BY <1>1, <1>4, KeyTypes
  <2> QED BY <1>1, <1>2, <1>4, <2>1
<1>5. CASE j # s
  <2>1. Live(j) /\ objs'[j] = objs[j]
    BY <1>1, <1>3, <1>5 DEF Live
  <2>2. index[<<objs[j].tenant, k>>] = j /\ objs[j].tenant \in Tenant /\ k \in Key
    BY <2>1, KeyTypes DEF KeysLead
  <2>3. ~ (objs[j].tenant = objs[s].tenant /\ k \in objs[s].keys \cup objs[d].keys)
    BY <1>1, <1>3, <1>5, <2>2 DEF KeysLead
  <2> QED BY <1>2, <2>1, <2>2, <2>3
<1> QED BY <1>4, <1>5

LEMMA NextKeepsKeys == IInv /\ IInv' /\ KeysLead /\ Careful /\ OneType /\ [Next]_vars => KeysLead'
<1> SUFFICES ASSUME IInv, IInv', KeysLead, Careful, OneType, [Next]_vars PROVE KeysLead'
  OBVIOUS
<1>1. ASSUME NEW c \in Caller, Upsert(c) PROVE KeysLead'
  <2>1. PICK t \in Tenant, ty \in Type, s \in Source : \E keys \in KeyLists[ty] :
          UpsertMatched(c, t, ty, keys, s) \/ UpsertCreates(c, t, ty, keys, s)
    BY <1>1 DEF Upsert
  <2>2. PICK keys \in KeyLists[ty] : UpsertMatched(c, t, ty, keys, s) \/ UpsertCreates(c, t, ty, keys, s)
    BY <2>1
  <2>3. CASE UpsertMatched(c, t, ty, keys, s)
    BY <2>3, MatchedWrites, WriteKeepsKeys
  <2>4. CASE UpsertCreates(c, t, ty, keys, s)
    BY <2>4, CreatesKeepsKeys
  <2> QED BY <2>2, <2>3, <2>4
<1>2. ASSUME NEW c \in Caller, Update(c) PROVE KeysLead'
  BY <1>2, UpdateWrites, WriteKeepsKeys
<1>3. ASSUME NEW c \in Caller, NEW state \in State, SetState(c, state) PROVE KeysLead'
  BY <1>3, SetStateWrites, WriteKeepsKeys
<1>4. ASSUME NEW c \in Caller, NEW i \in Ids, NEW j \in Ids, Merge(c, i, j) PROVE KeysLead'
  BY <1>4, MergeKeepsKeys
<1>5. UNCHANGED <<objs, index>> => KeysLead'
  BY DEF KeysLead, Live, Ids
<1>6. \/ \E c \in Caller, i \in Ids : Get(c, i)
      \/ \E i, j \in 1 .. MaxObjects : Relate(i, j)
      \/ UNCHANGED vars
      => UNCHANGED <<objs, index>>
  BY DEF Get, Relate, vars
<1> QED BY <1>1, <1>2, <1>3, <1>4, <1>5, <1>6 DEF Next

-----------------------------------------------------------------------------
(***************************************************************************)
(* The inductive invariant, for callers that merge two live objects and    *)
(* update live ones: of any number of them and of objects.                 *)
(***************************************************************************)
THEOREM ObjectsInductive == Careful => (Spec => []IInv)
<1> SUFFICES ASSUME Careful PROVE Spec => []IInv
  OBVIOUS
<1>1. IInv /\ [Next]_vars => IInv'
  BY NextKeepsIInv
<1> QED BY <1>1, InitIInv, PTL DEF Spec

(***************************************************************************)
(* FR-10, NFR-3: the history of an object has one snapshot per version and *)
(* the last one is the object, whatever copies the callers write from.     *)
(***************************************************************************)
THEOREM HistoryIsFaithfulTheorem == Careful => (Spec => []HistoryIsFaithful)
<1>1. IInv => HistoryIsFaithful
  BY DEF IInv
<1> QED BY <1>1, ObjectsInductive, PTL

(***************************************************************************)
(* FR-5, FR-8: the source of every accepted observation is found where the *)
(* id now leads, after any updates from copies and any chain of merges.    *)
(***************************************************************************)
THEOREM ProvenanceIsKeptTheorem == Careful => (Spec => []ProvenanceIsKept)
<1>1. IInv => ProvenanceIsKept
  BY Properties
<1> QED BY <1>1, ObjectsInductive, PTL

(***************************************************************************)
(* FR-8, FR-12, for objects of any types: redirects end, and relationships *)
(* stay in their tenant through merges and updates.                        *)
(***************************************************************************)
THEOREM RedirectsEndTheorem == Careful => (Spec => [](TypeOK /\ RedirectsEnd /\ RelationsStayInTenant))
<1>1. IInv => TypeOK /\ RedirectsEnd /\ RelationsStayInTenant
  BY Properties DEF IInv
<1> QED BY <1>1, ObjectsInductive, PTL

(***************************************************************************)
(* FR-4, FR-8, FR-12: where all objects are of one type, a natural key, an *)
(* id and the end of a relationship lead to one live object of the tenant. *)
(* Types that share a key break this: the index holds one id per key.      *)
(***************************************************************************)
THEOREM IdentityHoldsTheorem == Careful /\ OneType => (Spec => []IdentityHolds)
<1> SUFFICES ASSUME Careful, OneType PROVE Spec => []IdentityHolds
  OBVIOUS
<1>1. Init => KeysLead
  BY DEF Init, KeysLead, Ids
<1>2. IInv /\ IInv' /\ KeysLead /\ [Next]_vars => KeysLead'
  BY NextKeepsKeys
<1>3. IInv /\ KeysLead => IdentityHolds
  <2> SUFFICES ASSUME IInv, KeysLead PROVE IdentityHolds
    OBVIOUS
  <2>1. OneLivePerKey
    <3> SUFFICES ASSUME NEW i \in Ids, NEW j \in Ids, i # j, Live(i), Live(j),
                        objs[i].tenant = objs[j].tenant,
                        NEW k \in objs[i].keys \cap objs[j].keys
                 PROVE  FALSE
      BY DEF OneLivePerKey
    <3>1. index[<<objs[i].tenant, k>>] = i /\ index[<<objs[j].tenant, k>>] = j
      BY DEF KeysLead
    <3> QED BY <3>1
  <2> QED BY <2>1, Properties DEF IInv, IdentityHolds
<1> QED BY <1>1, <1>2, <1>3, ObjectsInductive, PTL DEF Spec
=============================================================================
