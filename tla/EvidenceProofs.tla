----------------------------- MODULE EvidenceProofs -----------------------------
(***************************************************************************)
(* The hash-chained ledger in Postgres, for any number of writers, tenants *)
(* and records: chains are linked without a gap, the tail that a writer    *)
(* has read stays the tail until it commits, and the transactions          *)
(* implement the ledger in memory.  Where the database gives every value   *)
(* back as it was spelt, what was added verifies and a damage is located.  *)
(***************************************************************************)
EXTENDS Evidence, FiniteSetTheorems, SequenceTheorems, TLAPS

Of(rs, t) == {r \in rs : r.tenant = t}

\* The places 1 .. n are taken, each by one row.
Dense(mine, n) ==
  /\ {r.seq : r \in mine} = 1 .. n
  /\ \A r, q \in mine : r.seq = q.seq => r = q

\* Every row carries the hash of the one before it.
Linked(mine) ==
  /\ \A r \in mine : r.seq = 1 => r.prev_hash = <<>>
  /\ \A r, q \in mine : r.seq = q.seq + 1 => r.prev_hash = q.record_hash

TailIn(mine) ==
  IF InOrder(mine) = <<>> THEN [seq |-> 0, record_hash |-> <<>>] ELSE Last(InOrder(mine))

-----------------------------------------------------------------------------
(* Rows in the order of their places                                       *)

LEMMA DenseCounts ==
  ASSUME NEW mine, NEW n \in Nat, Dense(mine, n)
  PROVE  IsFiniteSet(mine) /\ Cardinality(mine) = n
<1> DEFINE at == [k \in 1 .. n |-> CHOOSE r \in mine : r.seq = k]
<1>1. \A k \in 1 .. n : at[k] \in mine /\ at[k].seq = k
  BY DEF Dense
<1>2. \A r \in mine : r.seq \in 1 .. n /\ at[r.seq] = r
  <2>1. \A r \in mine : r.seq \in 1 .. n
    BY DEF Dense
  <2> HIDE DEF at
  <2>2. ASSUME NEW r \in mine PROVE at[r.seq] = r
    <3>1. at[r.seq] \in mine /\ at[r.seq].seq = r.seq
      BY <1>1, <2>1
    <3>2. \A q \in mine : q.seq = r.seq => q = r
      BY DEF Dense
    <3> QED BY <3>1, <3>2
  <2> QED BY <2>1, <2>2
<1>3. at \in Bijection(1 .. n, mine)
  <2>1. at \in [1 .. n -> mine]
    BY <1>1
  <2> HIDE DEF at
  <2>2. at \in Injection(1 .. n, mine)
    BY <1>1, <2>1 DEF Injection, IsInjective
  <2>3. at \in Surjection(1 .. n, mine)
    BY <1>2, <2>1 DEF Surjection
  <2> QED BY <2>2, <2>3 DEF Bijection
<1>4. ExistsBijection(1 .. n, mine)
  BY <1>3 DEF ExistsBijection
<1> QED BY <1>4, FS_NatBijection, FS_CountingElements

LEMMA InOrderIs ==
  ASSUME NEW mine, NEW n \in Nat, Dense(mine, n)
  PROVE  /\ Cardinality(mine) = n
         /\ InOrder(mine) \in [1 .. n -> mine]
         /\ \A k \in 1 .. n : InOrder(mine)[k].seq = k
         /\ \A r \in mine : r.seq \in 1 .. n /\ InOrder(mine)[r.seq] = r
<1>1. Cardinality(mine) = n
  BY DenseCounts
<1>2. ASSUME NEW r \in mine
      PROVE  r.seq \in 1 .. n /\ Cardinality({q \in mine : q.seq < r.seq}) = r.seq - 1
  <2>1. r.seq \in 1 .. n
    BY DEF Dense
  <2>2. Dense({q \in mine : q.seq < r.seq}, r.seq - 1)
    <3> DEFINE before == {q \in mine : q.seq < r.seq}
    <3>1. ASSUME NEW q \in before PROVE q.seq \in 1 .. (r.seq - 1)
      <4>1. q \in mine /\ q.seq < r.seq
        OBVIOUS
      <4>2. q.seq \in 1 .. n
        BY <4>1 DEF Dense
      <4> QED BY <2>1, <4>1, <4>2
    <3>2. ASSUME NEW k \in 1 .. (r.seq - 1) PROVE \E q \in before : q.seq = k
      <4>1. k \in 1 .. n /\ k < r.seq
        BY <2>1
      <4>2. PICK q \in mine : q.seq = k
        BY <4>1 DEF Dense
      <4> QED BY <4>1, <4>2
    <3>3. {q.seq : q \in before} = 1 .. (r.seq - 1)
      BY <3>1, <3>2
    <3> QED BY <3>3 DEF Dense
  <2>3. r.seq - 1 \in Nat
    BY <2>1
  <2> QED BY <2>1, <2>2, <2>3, DenseCounts
<1>3. ASSUME NEW k \in 1 .. n
      PROVE  InOrder(mine)[k] \in mine /\ InOrder(mine)[k].seq = k
  <2>1. PICK r \in mine : r.seq = k
    BY DEF Dense
  <2>2. \E q \in mine : Cardinality({p \in mine : p.seq < q.seq}) = k - 1
    BY <1>2, <2>1
  <2>3. InOrder(mine)[k] = CHOOSE q \in mine : Cardinality({p \in mine : p.seq < q.seq}) = k - 1
    BY <1>1 DEF InOrder
  <2> DEFINE x == InOrder(mine)[k]
  <2>4. x \in mine /\ Cardinality({p \in mine : p.seq < x.seq}) = k - 1
    BY <2>2, <2>3
  <2>5. x.seq \in 1 .. n /\ Cardinality({p \in mine : p.seq < x.seq}) = x.seq - 1
    BY <1>2, <2>4
  <2> QED BY <2>4, <2>5
<1>4. InOrder(mine) \in [1 .. n -> mine]
  BY <1>1, <1>3 DEF InOrder
<1>5. ASSUME NEW r \in mine PROVE r.seq \in 1 .. n /\ InOrder(mine)[r.seq] = r
  <2>1. r.seq \in 1 .. n
    BY <1>2
  <2> QED BY <1>3, <2>1 DEF Dense
<1> QED BY <1>1, <1>3, <1>4, <1>5

LEMMA TailIs ==
  ASSUME NEW mine, NEW n \in Nat, Dense(mine, n)
  PROVE  /\ TailIn(mine).seq = n
         /\ n = 0 => TailIn(mine).record_hash = <<>>
         /\ n > 0 => TailIn(mine) \in mine
<1>1. InOrder(mine) \in [1 .. n -> mine] /\ \A k \in 1 .. n : InOrder(mine)[k].seq = k
  BY InOrderIs
<1>2. CASE n = 0
  <2>1. InOrder(mine) = <<>>
    BY <1>1, <1>2
  <2> QED BY <1>2, <2>1 DEF TailIn
<1>3. CASE n > 0
  <2>1. InOrder(mine) \in Seq(mine) /\ Len(InOrder(mine)) = n /\ InOrder(mine) # <<>>
    BY <1>1, <1>3
  <2>2. TailIn(mine) = InOrder(mine)[n]
    BY <2>1 DEF TailIn, Last
  <2> QED BY <1>1, <1>3, <2>2
<1> QED BY <1>2, <1>3

\* A row that follows the tail is the new tail.
LEMMA FollowsTail ==
  ASSUME NEW mine, NEW n \in Nat, Dense(mine, n), Linked(mine), NEW row,
         row.seq = TailIn(mine).seq + 1, row.prev_hash = TailIn(mine).record_hash
  PROVE  /\ row \notin mine
         /\ Dense(mine \cup {row}, n + 1) /\ Linked(mine \cup {row})
         /\ InOrder(mine \cup {row}) = Append(InOrder(mine), row)
<1>1. row.seq = n + 1
  BY TailIs
<1>2. \A r \in mine : r.seq \in 1 .. n
  BY DEF Dense
<1>3. row \notin mine
  BY <1>1, <1>2
<1>4. Dense(mine \cup {row}, n + 1)
  <2>1. {r.seq : r \in mine \cup {row}} = {r.seq : r \in mine} \cup {n + 1}
    BY <1>1
  <2>2. (1 .. n) \cup {n + 1} = 1 .. (n + 1)
    OBVIOUS
  <2>3. \A r, q \in mine \cup {row} : r.seq = q.seq => r = q
    BY <1>1, <1>2 DEF Dense
  <2> QED BY <2>1, <2>2, <2>3 DEF Dense
<1>5. Linked(mine \cup {row})
  <2>1. row.seq = 1 => row.prev_hash = <<>>
    BY <1>1, TailIs
  <2>2. ASSUME NEW q \in mine, row.seq = q.seq + 1 PROVE row.prev_hash = q.record_hash
    <3>1. q.seq = n /\ n > 0
      BY <1>1, <1>2, <2>2
    <3>2. TailIn(mine) \in mine /\ TailIn(mine).seq = n
      BY <3>1, TailIs
    <3>3. q = TailIn(mine)
      BY <3>1, <3>2 DEF Dense
    <3> QED BY <3>3
  <2>3. \A r \in mine : r.seq # row.seq + 1
    BY <1>1, <1>2
  <2>4. row.seq # row.seq + 1
    BY <1>1
  <2> QED BY <2>1, <2>2, <2>3, <2>4 DEF Linked
<1>6. InOrder(mine \cup {row}) = Append(InOrder(mine), row)
  <2> DEFINE old == InOrder(mine)
             new == InOrder(mine \cup {row})
  <2>1. old \in [1 .. n -> mine] /\ \A k \in 1 .. n : old[k].seq = k
    BY InOrderIs
  <2>2. /\ new \in [1 .. (n + 1) -> mine \cup {row}]
        /\ \A r \in mine \cup {row} : new[r.seq] = r
    <3>1. n + 1 \in Nat
      OBVIOUS
    <3> QED BY <1>4, <3>1, InOrderIs
  <2> HIDE DEF old, new
  <2>3. \A k \in 1 .. n : new[k] = old[k]
    BY <2>1, <2>2
  <2>4. new[n + 1] = row
    BY <1>1, <2>2
  <2>5. /\ old \in Seq(mine \cup {row}) /\ Len(old) = n
        /\ new \in Seq(mine \cup {row}) /\ Len(new) = n + 1
    <3>1. old \in [1 .. n -> mine \cup {row}] /\ n \in Nat
      BY <2>1
    <3>2. new \in [1 .. (n + 1) -> mine \cup {row}] /\ n + 1 \in Nat
      BY <2>2
    <3>3. old \in Seq(mine \cup {row}) /\ Len(old) = n
      BY ONLY <3>1
    <3>4. new \in Seq(mine \cup {row}) /\ Len(new) = n + 1
      BY ONLY <3>2
    <3> QED BY <3>3, <3>4
  <2>6. /\ Append(old, row) \in Seq(mine \cup {row}) /\ Len(Append(old, row)) = n + 1
        /\ \A k \in 1 .. (n + 1) : Append(old, row)[k] = IF k = n + 1 THEN row ELSE old[k]
    BY <2>5
  <2>7. \A k \in 1 .. (n + 1) : new[k] = Append(old, row)[k]
    BY <2>3, <2>4, <2>6
  <2> QED BY <2>5, <2>6, <2>7, SeqEqual DEF old, new
<1> QED BY <1>3, <1>4, <1>5, <1>6

-----------------------------------------------------------------------------
(* The inductive invariant                                                 *)

Fields == {"id", "tenant", "content", "form", "seq", "prev_hash", "content_hash", "record_hash"}

\* A record with these fields, the first of them known
IsDraft(r) ==
  /\ r = [f \in Fields |-> r[f]]
  /\ r.tenant \in Tenant /\ r.content \in Content /\ r.form \in Form

IsRecord(r) ==
  /\ IsDraft(r)
  /\ r.id \in Id /\ r.seq \in Nat \ {0}
  /\ r.prev_hash \in Hash /\ r.record_hash \in Hash

\* The record was hashed when it was spelt f.
HashedAs(r, f) ==
  /\ r.content_hash = [content |-> r.content, form |-> f]
  /\ r.record_hash = Append(r.prev_hash,
       [id |-> r.id, tenant |-> r.tenant, content |-> r.content, form |-> f,
        seq |-> r.seq, content_hash |-> r.content_hash])

FoundIn(rs, id) == \E r \in rs : r.id = id
RowIn(rs, id)   == CHOOSE r \in rs : r.id = id

ManifestIn(rs, ids) ==
  [h \in {RowIn(rs, id).record_hash : id \in ToSet(ids)} |->
     Cardinality({k \in DOMAIN ids : RowIn(rs, ids[k]).record_hash = h})]

RowsOK(rs) ==
  /\ \A r \in rs : IsRecord(r) /\ r.form = "canonical" /\ \E f \in Form : HashedAs(r, f)
  /\ \A r, q \in rs : r.id = q.id => r = q
  /\ \A t \in Tenant : Linked(Of(rs, t)) /\ \E n \in Nat : Dense(Of(rs, t), n)

\* The record follows the tail of its tenant.
Follows(row, rs) ==
  /\ row.seq = TailIn(Of(rs, row.tenant)).seq + 1
  /\ row.prev_hash = TailIn(Of(rs, row.tenant)).record_hash

Writing == {"insert", "commit"}

(***************************************************************************)
(* What holds of call k of task c when rs are the rows, lk the locks and   *)
(* next the next id: from the reading of the tail to the commit, the task  *)
(* holds the lock of its tenant.                                           *)
(***************************************************************************)
CallOK(c, k, rs, lk, next) ==
  /\ DOMAIN k = {"pc", "row", "ids", "i"}
  /\ k.pc \in {"lock", "tail"} \cup Writing => IsDraft(k.row)
  /\ k.pc \in {"tail"} \cup Writing => lk[LockOf[k.row.tenant]] = c
  /\ k.pc \in Writing =>
       /\ IsRecord(k.row) /\ HashedAs(k.row, k.row.form) /\ Follows(k.row, rs)
       /\ k.row.id < next /\ ~ FoundIn(rs, k.row.id)
  /\ k.pc = "read" => \E id \in Id : k.ids = <<id>> /\ FoundIn(rs, id)
  /\ k.pc = "package" =>
       /\ k.ids \in PackageLists /\ k.i \in Nat \ {0} /\ k.i <= Len(k.ids) + 1
       /\ \A j \in 1 .. Len(k.ids) : j < k.i => FoundIn(rs, k.ids[j])
       /\ \A j, l \in 1 .. Len(k.ids) : j < k.i /\ l < k.i =>
            RowIn(rs, k.ids[j]).tenant = RowIn(rs, k.ids[l]).tenant

CallsOK == \A c \in Task : CallOK(c, call[c], rows, locks, nextId)

\* Two records that are not committed have different ids.
WritersApart ==
  \A c, d \in Task : c # d /\ call[c].pc \in Writing /\ call[d].pc \in Writing =>
                       call[c].row.id # call[d].row.id

NoCustody == [a \in Access |-> 0]

CustodyOK(cs, rs) ==
  /\ cs \in [Id -> [Access -> Nat]]
  /\ \A id \in Id : ~ FoundIn(rs, id) => cs[id] = NoCustody

PackageRow == [ids : PackageLists, manifest : UNION {[hs -> Nat] : hs \in SUBSET Hash}]

PackagesOK(ps, rs) ==
  /\ ps \in Seq(PackageRow)
  /\ \A k \in 1 .. Len(ps) : /\ \A id \in ToSet(ps[k].ids) : FoundIn(rs, id)
                             /\ ps[k].manifest = ManifestIn(rs, ps[k].ids)

\* Those who have still to take an id were begun, and so were those who have one.
Waiting == {c \in Task : call[c].pc \in {"lock", "tail"}}

CountsOK ==
  /\ nextId \in Nat \ {0} /\ begun \in Nat /\ begun <= MaxCalls /\ faults \in Nat
  /\ IsFiniteSet(Waiting)
  /\ nextId + Cardinality(Waiting) <= begun + 1

IInv ==
  /\ RowsOK(rows) /\ \A r \in rows : r.id < nextId
  /\ CustodyOK(custody, rows) /\ PackagesOK(packages, rows)
  /\ locks \in [Lock -> Task \cup {None}]
  /\ DOMAIN call = Task /\ call = [c \in Task |-> call[c]]
  /\ CallsOK /\ WritersApart /\ CountsOK

-----------------------------------------------------------------------------
(* The operators of the model                                              *)

LEMMA RowOps ==
  /\ \A id : Found(id) <=> FoundIn(rows, id)
  /\ \A id : RowOf(id) = RowIn(rows, id)
  /\ \A ids : Manifest(ids) = ManifestIn(rows, ids)
  /\ \A t : Chain(t) = InOrder(Of(rows, t))
  /\ \A t : TailOf(t) = TailIn(Of(rows, t))
<1>1. \A id : RowOf(id) = RowIn(rows, id)
  BY DEF RowOf, RowIn
<1>2. ASSUME NEW ids PROVE Manifest(ids) = ManifestIn(rows, ids)
  BY DEF Manifest, ManifestIn, RowOf, RowIn
<1>3. \A t : Chain(t) = InOrder(Of(rows, t))
  BY DEF Chain, Of
<1>4. \A t : TailOf(t) = TailIn(Of(rows, t))
  BY <1>3 DEF TailOf, TailIn
<1> QED BY <1>1, <1>2, <1>3, <1>4 DEF Found, FoundIn

LEMMA RowInIs ==
  ASSUME NEW rs, NEW id, FoundIn(rs, id)
  PROVE  RowIn(rs, id) \in rs /\ RowIn(rs, id).id = id
BY DEF FoundIn, RowIn

\* What is found stays what it is when rows are added.
LEMMA RowInStays ==
  ASSUME NEW rs, NEW id, FoundIn(rs, id), NEW more, rs \subseteq more,
         \A r, q \in more : r.id = q.id => r = q
  PROVE  FoundIn(more, id) /\ RowIn(more, id) = RowIn(rs, id)
<1>1. RowIn(rs, id) \in rs /\ RowIn(rs, id).id = id
  BY RowInIs
<1>2. FoundIn(more, id)
  BY <1>1 DEF FoundIn
<1>3. RowIn(more, id) \in more /\ RowIn(more, id).id = id
  BY <1>2, RowInIs
<1> QED BY <1>1, <1>2, <1>3

LEMMA ManifestStays ==
  ASSUME NEW rs, NEW more, rs \subseteq more, \A r, q \in more : r.id = q.id => r = q,
         NEW ids, \A id \in ToSet(ids) : FoundIn(rs, id)
  PROVE  ManifestIn(more, ids) = ManifestIn(rs, ids)
<1>1. \A id \in ToSet(ids) : RowIn(more, id) = RowIn(rs, id)
  BY RowInStays
<1>2. \A k \in DOMAIN ids : RowIn(more, ids[k]) = RowIn(rs, ids[k])
  BY <1>1 DEF ToSet
<1>3. {RowIn(more, id).record_hash : id \in ToSet(ids)} = {RowIn(rs, id).record_hash : id \in ToSet(ids)}
  BY <1>1
<1>4. ASSUME NEW h
      PROVE  {k \in DOMAIN ids : RowIn(more, ids[k]).record_hash = h}
               = {k \in DOMAIN ids : RowIn(rs, ids[k]).record_hash = h}
  BY <1>2
<1> QED BY <1>3, <1>4 DEF ManifestIn

LEMMA CountInSequence ==
  ASSUME NEW S, NEW ids \in Seq(S), NEW some \in SUBSET (DOMAIN ids)
  PROVE  IsFiniteSet(some) /\ Cardinality(some) \in Nat
<1>1. DOMAIN ids = 1 .. Len(ids) /\ Len(ids) \in Nat
  OBVIOUS
<1>2. IsFiniteSet(1 .. Len(ids))
  BY <1>1, FS_Interval
<1> QED BY <1>1, <1>2, FS_Subset, FS_CardinalityType

LEMMA ManifestTypes ==
  ASSUME NEW rs, RowsOK(rs), NEW ids \in PackageLists, \A id \in ToSet(ids) : FoundIn(rs, id)
  PROVE  ManifestIn(rs, ids) \in UNION {[hs -> Nat] : hs \in SUBSET Hash}
<1> DEFINE H == {RowIn(rs, id).record_hash : id \in ToSet(ids)}
           N(h) == Cardinality({k \in DOMAIN ids : RowIn(rs, ids[k]).record_hash = h})
<1>1. ids \in Seq(1 .. MaxCalls)
  BY EvidenceAssumption
<1>2. \A h : N(h) \in Nat
  BY <1>1, CountInSequence
<1>3. \A id \in ToSet(ids) : RowIn(rs, id).record_hash \in Hash
  BY RowInIs DEF RowsOK, IsRecord
<1>4. H \in SUBSET Hash
  BY <1>3
<1>5. ManifestIn(rs, ids) = [h \in H |-> N(h)]
  BY DEF ManifestIn
<1> HIDE DEF H, N
<1>6. ManifestIn(rs, ids) \in [H -> Nat]
  BY <1>2, <1>5
<1> QED BY <1>4, <1>6, Zenon

\* A sequence of known ids leaves custody rows about records that exist.
LEMMA LoggedKeepsCustody ==
  ASSUME CustodyOK(custody, rows), NEW ids \in Seq(Id), NEW action \in Access, NEW rs,
         rows \subseteq rs, \A k \in DOMAIN ids : FoundIn(rs, ids[k])
  PROVE  CustodyOK(Logged(ids, action), rs)
<1>1. ASSUME NEW id \in Id
      PROVE  /\ Logged(ids, action)[id] = [custody[id] EXCEPT ![action] = @ + Mentions(ids, id)]
             /\ Mentions(ids, id) \in Nat
             /\ ~ FoundIn(rs, id) => Mentions(ids, id) = 0
  <2>1. Mentions(ids, id) \in Nat
    BY CountInSequence DEF Mentions
  <2>2. ASSUME ~ FoundIn(rs, id) PROVE Mentions(ids, id) = 0
    <3>1. {k \in DOMAIN ids : ids[k] = id} = {}
      BY <2>2
    <3> QED BY <3>1, FS_EmptySet DEF Mentions
  <2> QED BY <2>1, <2>2 DEF Logged
<1>2. ASSUME NEW id \in Id
      PROVE  Logged(ids, action)[id] \in [Access -> Nat]
  <2>1. custody[id] \in [Access -> Nat]
    BY DEF CustodyOK
  <2>2. custody[id][action] + Mentions(ids, id) \in Nat
    <3>1. custody[id][action] \in Nat
      BY <2>1
    <3>2. Mentions(ids, id) \in Nat
      BY <1>1
    <3> QED BY <3>1, <3>2
  <2> QED BY <1>1, <2>1, <2>2
<1>3. ASSUME NEW id \in Id, ~ FoundIn(rs, id)
      PROVE  Logged(ids, action)[id] = NoCustody
  <2>1. ~ FoundIn(rows, id)
    BY <1>3 DEF FoundIn
  <2>2. custody[id] = NoCustody
    BY <2>1 DEF CustodyOK
  <2>3. Mentions(ids, id) = 0
    BY <1>1, <1>3
  <2>4. NoCustody[action] + 0 = NoCustody[action]
    BY DEF NoCustody
  <2> QED BY <1>1, <2>2, <2>3, <2>4 DEF NoCustody
<1>4. Logged(ids, action) \in [Id -> [Access -> Nat]]
  BY <1>2 DEF Logged
<1> QED BY <1>3, <1>4 DEF CustodyOK

\* A draft that follows the tail becomes a record that is hashed as it is spelt.
LEMMA ChainedIs ==
  ASSUME NEW row, IsDraft(row), NEW id \in Id, RowsOK(rows)
  PROVE  LET r == Chained(row, id) IN
         /\ IsRecord(r) /\ HashedAs(r, r.form) /\ Follows(r, rows)
         /\ r.id = id /\ r.tenant = row.tenant
<1> DEFINE tail == TailOf(row.tenant)
           base == [row EXCEPT !.id = id, !.seq = tail.seq + 1, !.prev_hash = tail.record_hash,
                               !.content_hash = ContentHash(row)]
           r    == [base EXCEPT !.record_hash = RecordHash(base)]
<1>1. tail = TailIn(Of(rows, row.tenant))
  BY RowOps
<1>2. tail.seq \in Nat /\ tail.record_hash \in Hash
  <2>1. PICK n \in Nat : Dense(Of(rows, row.tenant), n)
    BY DEF RowsOK, IsDraft
  <2>2. tail.seq = n
    BY <1>1, <2>1, TailIs
  <2>3. n = 0 => tail.record_hash = <<>>
    BY <1>1, <2>1, TailIs
  <2>4. n > 0 => tail \in rows
    BY <1>1, <2>1, TailIs DEF Of
  <2>5. <<>> \in Hash
    BY DEF Hash
  <2> QED BY <2>2, <2>3, <2>4, <2>5 DEF RowsOK, IsRecord
<1> HIDE DEF tail
<1>3. /\ base = [f \in Fields |-> base[f]]
      /\ base.id = id /\ base.tenant = row.tenant /\ base.content = row.content
      /\ base.form = row.form /\ base.seq = tail.seq + 1
      /\ base.prev_hash = tail.record_hash /\ base.content_hash = ContentHash(row)
  <2>1. DOMAIN row = Fields
    BY DEF IsDraft
  <2>2. DOMAIN base = Fields
    BY <2>1
  <2>3. base = [f \in DOMAIN base |-> base[f]]
    OBVIOUS
  <2> QED BY <2>1, <2>2, <2>3 DEF Fields
<1> HIDE DEF base
<1>4. /\ r = [f \in Fields |-> r[f]]
      /\ r.id = base.id /\ r.tenant = base.tenant /\ r.content = base.content /\ r.form = base.form
      /\ r.seq = base.seq /\ r.prev_hash = base.prev_hash
      /\ r.content_hash = base.content_hash /\ r.record_hash = RecordHash(base)
  <2>1. DOMAIN base = Fields
    BY <1>3
  <2>2. DOMAIN r = Fields
    BY <2>1
  <2>3. r = [f \in DOMAIN r |-> r[f]]
    OBVIOUS
  <2> QED BY <2>1, <2>2, <2>3 DEF Fields
<1> HIDE DEF r
<1>5. Chained(row, id) = r
  BY DEF Chained, r, base, tail
<1>6. IsDraft(r)
  BY <1>3, <1>4 DEF IsDraft
<1>7. HashedAs(r, r.form)
  <2>1. r.content_hash = [content |-> r.content, form |-> r.form]
    BY <1>3, <1>4 DEF ContentHash
  <2>2. RecordHash(base) = Append(r.prev_hash, Body(r))
    BY <1>4 DEF RecordHash, Body
  <2> QED BY <1>4, <2>1, <2>2 DEF HashedAs, Body
<1>8. r.seq \in Nat \ {0} /\ r.prev_hash \in Hash /\ r.id = id /\ r.tenant = row.tenant
  BY <1>2, <1>3, <1>4
<1>9. r.record_hash \in Hash
  <2> DEFINE body == [id |-> r.id, tenant |-> r.tenant, content |-> r.content, form |-> r.form,
                      seq |-> r.seq, content_hash |-> r.content_hash]
  <2>1. r.content_hash \in [content : Content, form : Form]
    BY <1>6, <1>7 DEF HashedAs, IsDraft
  <2>2. body \in [id : Id, tenant : Tenant, content : Content, form : Form, seq : Nat,
                  content_hash : [content : Content, form : Form]]
    BY <1>6, <1>8, <2>1 DEF IsDraft
  <2>3. r.record_hash = Append(r.prev_hash, body)
    BY <1>7 DEF HashedAs
  <2> HIDE DEF body
  <2> QED BY <1>8, <2>2, <2>3 DEF Hash
<1>10. Follows(r, rows)
  BY <1>1, <1>3, <1>4 DEF Follows
<1> QED BY <1>5, <1>6, <1>7, <1>8, <1>9, <1>10 DEF IsRecord

\* What the database keeps of a record
LEMMA StoredIs ==
  ASSUME NEW row, IsRecord(row)
  PROVE  LET r == Stored(row) IN
         /\ IsRecord(r) /\ r.form = "canonical"
         /\ r.id = row.id /\ r.tenant = row.tenant /\ r.content = row.content /\ r.seq = row.seq
         /\ r.prev_hash = row.prev_hash /\ r.content_hash = row.content_hash
         /\ r.record_hash = row.record_hash
<1> DEFINE r == [row EXCEPT !.form = "canonical"]
<1>1. DOMAIN row = Fields
  BY DEF IsRecord, IsDraft
<1>2. DOMAIN r = Fields /\ r = [f \in DOMAIN r |-> r[f]]
  BY <1>1
<1>3. /\ r.form = "canonical" /\ r.id = row.id /\ r.tenant = row.tenant /\ r.content = row.content
      /\ r.seq = row.seq /\ r.prev_hash = row.prev_hash /\ r.content_hash = row.content_hash
      /\ r.record_hash = row.record_hash
  BY <1>1 DEF Fields
<1>4. Stored(row) = r
  BY DEF Stored
<1> HIDE DEF r
<1> QED BY <1>2, <1>3, <1>4, EvidenceAssumption DEF IsRecord, IsDraft

-----------------------------------------------------------------------------
(* The invariant holds initially                                           *)

LEMMA InitIInv == Init => IInv
<1> SUFFICES ASSUME Init PROVE IInv
  OBVIOUS
<1>1. RowsOK(rows) /\ \A r \in rows : r.id < nextId
  <2>1. rows = {}
    BY DEF Init
  <2>2. ASSUME NEW t \in Tenant PROVE Linked(Of(rows, t)) /\ \E n \in Nat : Dense(Of(rows, t), n)
    <3>1. Of(rows, t) = {}
      BY <2>1 DEF Of
    <3>2. Dense({}, 0)
      BY DEF Dense
    <3> QED BY <3>1, <3>2 DEF Linked
  <2> QED BY <2>1, <2>2 DEF RowsOK
<1>2. CustodyOK(custody, rows)
  BY DEF Init, CustodyOK, NoCustody
<1>3. PackagesOK(packages, rows)
  <2>1. packages = <<>>
    BY DEF Init
  <2> QED BY <2>1 DEF PackagesOK
<1>4. \A c \in Task : call[c] = NoCall
  BY DEF Init
<1>5. NoCall.pc = "idle" /\ DOMAIN NoCall = {"pc", "row", "ids", "i"}
  BY DEF NoCall
<1>6. CallsOK /\ WritersApart
  BY <1>4, <1>5 DEF CallsOK, CallOK, WritersApart, Writing
<1>7. CountsOK
  <2>1. Waiting = {}
    BY <1>4, <1>5 DEF Waiting
  <2> QED BY <2>1, FS_EmptySet, EvidenceAssumption DEF CountsOK, Init
<1> QED BY <1>1, <1>2, <1>3, <1>6, <1>7 DEF IInv, Init

-----------------------------------------------------------------------------
(* Every action keeps the invariant                                        *)

\* A call of another task is as it was when the rows are and the locks it holds.
LEMMA OtherCallKept ==
  ASSUME NEW d \in Task, NEW k, CallOK(d, k, rows, locks, nextId),
         nextId \in Nat, nextId' \in Nat, nextId <= nextId', RowsOK(rows),
         \A l \in Lock : locks[l] = d => locks'[l] = d
  PROVE  CallOK(d, k, rows, locks', nextId')
<1>1. ASSUME k.pc \in {"tail"} \cup Writing PROVE locks'[LockOf[k.row.tenant]] = d
  <2>1. k.row.tenant \in Tenant
    BY <1>1 DEF CallOK, IsDraft
  <2>2. LockOf[k.row.tenant] \in Lock
    BY <2>1, EvidenceAssumption
  <2> QED BY <1>1, <2>2 DEF CallOK
<1>2. ASSUME k.pc \in Writing PROVE k.row.id < nextId'
  <2>1. k.row.id < nextId /\ k.row.id \in Nat
    BY <1>2, EvidenceAssumption DEF CallOK, IsRecord, Id
  <2> QED BY <2>1
<1> QED BY <1>1, <1>2 DEF CallOK

\* One task moves, the rows stay.
LEMMA LocalKeeps ==
  ASSUME IInv, NEW c \in Task, NEW k, call' = [call EXCEPT ![c] = k], rows' = rows,
         CallOK(c, k, rows, locks', nextId'),
         k.pc \in Writing => \A d \in Task : d # c /\ call[d].pc \in Writing =>
                                               call[d].row.id # k.row.id,
         locks' \in [Lock -> Task \cup {None}],
         \A d \in Task, l \in Lock : d # c /\ locks[l] = d => locks'[l] = d,
         nextId' \in Nat, nextId <= nextId',
         CustodyOK(custody', rows), PackagesOK(packages', rows), CountsOK'
  PROVE  IInv'
<1>1. /\ \A d \in Task : d # c => call'[d] = call[d]
      /\ call'[c] = k /\ DOMAIN call' = Task /\ call' = [d \in Task |-> call'[d]]
  BY DEF IInv
<1>2. CallsOK'
  <2>1. ASSUME NEW d \in Task PROVE CallOK(d, call'[d], rows, locks', nextId')
    <3>1. CASE d = c
      BY <1>1, <3>1
    <3>2. CASE d # c
      <4>1. CallOK(d, call[d], rows, locks, nextId)
        BY DEF IInv, CallsOK
      <4>2. nextId \in Nat /\ RowsOK(rows)
        BY DEF IInv, CountsOK
      <4>3. \A l \in Lock : locks[l] = d => locks'[l] = d
        BY <3>2
      <4>4. CallOK(d, call[d], rows, locks', nextId')
        BY <4>1, <4>2, <4>3, OtherCallKept
      <4> QED BY <1>1, <3>2, <4>4
    <3> QED BY <3>1, <3>2
  <2> QED BY <2>1 DEF CallsOK
<1>3. WritersApart'
  BY <1>1 DEF WritersApart, IInv
<1>4. ASSUME NEW r \in rows PROVE r.id < nextId'
  <2>1. r.id < nextId /\ r.id \in Nat
    BY EvidenceAssumption DEF IInv, RowsOK, IsRecord, Id
  <2>2. nextId \in Nat
    BY DEF IInv, CountsOK
  <2> QED BY <2>1, <2>2
<1> QED BY <1>1, <1>2, <1>3, <1>4 DEF IInv

LEMMA CallShape ==
  ASSUME IInv, NEW c \in Task
  PROVE  CallOK(c, call[c], rows, locks, nextId) /\ DOMAIN call[c] = {"pc", "row", "ids", "i"}
BY DEF IInv, CallsOK, CallOK

\* What others hold is not released.
LEMMA ReleasedIs ==
  ASSUME IInv, NEW c \in Task
  PROVE  /\ Released(c) \in [Lock -> Task \cup {None}]
         /\ \A d \in Task, l \in Lock : d # c /\ locks[l] = d => Released(c)[l] = d
BY DEF IInv, Released

\* Counting those who wait for an id, when one task moves
LEMMA WaitingMoves ==
  ASSUME IInv, NEW c \in Task, NEW k, call' = [call EXCEPT ![c] = k]
  PROVE  /\ k.pc \in {"lock", "tail"} => Waiting' = Waiting \cup {c}
         /\ k.pc \notin {"lock", "tail"} => Waiting' = Waiting \ {c}
<1>1. \A d \in Task : call'[d] = IF d = c THEN k ELSE call[d]
  BY DEF IInv
<1> QED BY <1>1 DEF Waiting

LEMMA CountsKept ==
  ASSUME IInv, NEW c \in Task, NEW k, call' = [call EXCEPT ![c] = k],
         k.pc \in {"lock", "tail"} => c \in Waiting,
         nextId' = nextId, begun' \in {begun, begun + 1}, begun' <= MaxCalls, faults' \in Nat
  PROVE  CountsOK'
<1>1. IsFiniteSet(Waiting) /\ Cardinality(Waiting) \in Nat
  BY FS_CardinalityType DEF IInv, CountsOK
<1>2. IsFiniteSet(Waiting') /\ Cardinality(Waiting') \in Nat /\ Cardinality(Waiting') <= Cardinality(Waiting)
  <2>1. Waiting' \in SUBSET Waiting
    BY WaitingMoves
  <2> QED BY <1>1, <2>1, FS_Subset, FS_CardinalityType
<1>3. nextId \in Nat \ {0} /\ begun \in Nat /\ nextId + Cardinality(Waiting) <= begun + 1
  BY DEF IInv, CountsOK
<1> QED BY <1>1, <1>2, <1>3 DEF CountsOK

LEMMA EndedKeeps ==
  ASSUME IInv, NEW c \in Task, call' = Ended(c), rows' = rows,
         locks' = locks \/ locks' = Released(c),
         CustodyOK(custody', rows), PackagesOK(packages', rows),
         nextId' = nextId, begun' = begun, faults' \in Nat
  PROVE  IInv'
<1>1. NoCall.pc = "idle" /\ DOMAIN NoCall = {"pc", "row", "ids", "i"}
  BY DEF NoCall
<1>2. call' = [call EXCEPT ![c] = NoCall]
  BY DEF Ended
<1>3. CallOK(c, NoCall, rows, locks', nextId')
  BY <1>1 DEF CallOK, Writing
<1>4. /\ locks' \in [Lock -> Task \cup {None}]
      /\ \A d \in Task, l \in Lock : d # c /\ locks[l] = d => locks'[l] = d
  BY ReleasedIs DEF IInv
<1>5. nextId \in Nat /\ begun \in Nat /\ begun <= MaxCalls
  BY DEF IInv, CountsOK
<1>6. CountsOK'
  BY <1>1, <1>2, <1>5, CountsKept
<1>7. NoCall.pc \in Writing => \A d \in Task : d # c /\ call[d].pc \in Writing =>
                                  call[d].row.id # NoCall.row.id
  BY <1>1 DEF Writing
<1>8. nextId' \in Nat /\ nextId <= nextId'
  BY <1>5
<1> QED BY <1>2, <1>3, <1>4, <1>6, <1>7, <1>8, LocalKeeps, Zenon

LEMMA AddBeginKeeps ==
  ASSUME IInv, NEW c \in Task, NEW t \in Tenant, NEW content \in Content, NEW form \in Form,
         AddBegin(c, t, content, form)
  PROVE  IInv'
<1> DEFINE row == [NoRow EXCEPT !.tenant = t, !.content = content, !.form = form]
           k   == [NoCall EXCEPT !.pc = "lock", !.row = row]
<1>1. /\ call[c].pc = "idle" /\ begun < MaxCalls /\ begun' = begun + 1
      /\ call' = [call EXCEPT ![c] = k] /\ UNCHANGED <<table, locks, nextId, faults>>
  BY DEF AddBegin, Begin
<1>2. IsDraft(row)
  <2>1. DOMAIN NoRow = Fields
    BY DEF NoRow, Fields
  <2>2. DOMAIN row = Fields /\ row = [f \in DOMAIN row |-> row[f]]
    BY <2>1
  <2>3. row.tenant = t /\ row.content = content /\ row.form = form
    BY <2>1 DEF Fields
  <2> HIDE DEF row
  <2> QED BY <2>2, <2>3 DEF IsDraft
<1> HIDE DEF row
<1>3. DOMAIN k = {"pc", "row", "ids", "i"} /\ k.pc = "lock" /\ k.row = row
  BY DEF NoCall
<1> HIDE DEF k
<1>4. CallOK(c, k, rows, locks', nextId')
  BY <1>2, <1>3 DEF CallOK, Writing
<1>5. CountsOK'
  <2>1. nextId \in Nat \ {0} /\ begun \in Nat /\ nextId + Cardinality(Waiting) <= begun + 1
        /\ IsFiniteSet(Waiting) /\ faults \in Nat
    BY DEF IInv, CountsOK
  <2>2. Waiting' = Waiting \cup {c} /\ c \notin Waiting
    BY <1>1, <1>3, WaitingMoves DEF Waiting
  <2>3. IsFiniteSet(Waiting') /\ Cardinality(Waiting') = Cardinality(Waiting) + 1
    BY <2>1, <2>2, FS_AddElement
  <2>4. Cardinality(Waiting) \in Nat
    BY <2>1, FS_CardinalityType
  <2> QED BY <1>1, <2>1, <2>3, <2>4, EvidenceAssumption DEF CountsOK
<1>6. CustodyOK(custody', rows) /\ PackagesOK(packages', rows) /\ rows' = rows
  BY <1>1 DEF IInv, table
<1>7. /\ locks' \in [Lock -> Task \cup {None}] /\ nextId' \in Nat /\ nextId <= nextId'
      /\ \A d \in Task, l \in Lock : d # c /\ locks[l] = d => locks'[l] = d
  BY <1>1 DEF IInv, CountsOK
<1>8. k.pc \in Writing => \A d \in Task : d # c /\ call[d].pc \in Writing =>
                             call[d].row.id # k.row.id
  BY <1>3 DEF Writing
<1> QED BY <1>1, <1>4, <1>5, <1>6, <1>7, <1>8, LocalKeeps, Zenon

LEMMA AddLockKeeps ==
  ASSUME IInv, NEW c \in Task, AddLock(c)
  PROVE  IInv'
<1> DEFINE k == [call[c] EXCEPT !.pc = "tail"]
           l == LockOf[call[c].row.tenant]
<1>1. /\ call[c].pc = "lock" /\ locks[l] = None /\ locks' = [locks EXCEPT ![l] = c]
      /\ call' = [call EXCEPT ![c] = k] /\ UNCHANGED <<table, nextId, begun, faults>>
  BY DEF AddLock
<1>2. DOMAIN k = {"pc", "row", "ids", "i"} /\ k.pc = "tail" /\ k.row = call[c].row
  BY CallShape
<1> HIDE DEF k
<1>3. IsDraft(call[c].row) /\ l \in Lock
  <2>1. IsDraft(call[c].row)
    BY <1>1, CallShape DEF CallOK
  <2> QED BY <2>1, EvidenceAssumption DEF IsDraft
<1>4. /\ locks' \in [Lock -> Task \cup {None}] /\ locks'[l] = c
      /\ \A d \in Task, m \in Lock : d # c /\ locks[m] = d => locks'[m] = d
  <2>1. locks \in [Lock -> Task \cup {None}]
    BY DEF IInv
  <2> HIDE DEF l
  <2> QED BY <1>1, <1>3, <2>1, EvidenceAssumption
<1>5. CallOK(c, k, rows, locks', nextId')
  BY <1>2, <1>3, <1>4 DEF CallOK, Writing
<1>6. nextId \in Nat /\ nextId' = nextId /\ begun' = begun /\ begun \in Nat /\ begun <= MaxCalls
      /\ faults' \in Nat
  BY <1>1 DEF IInv, CountsOK
<1>7. CountsOK'
  <2>1. c \in Waiting
    BY <1>1 DEF Waiting
  <2> QED BY <1>1, <1>6, <2>1, CountsKept
<1>8. CustodyOK(custody', rows) /\ PackagesOK(packages', rows) /\ rows' = rows
  BY <1>1 DEF IInv, table
<1>9. k.pc \in Writing => \A d \in Task : d # c /\ call[d].pc \in Writing =>
                             call[d].row.id # k.row.id
  BY <1>2 DEF Writing
<1>10. nextId' \in Nat /\ nextId <= nextId'
  BY <1>6
<1> HIDE DEF l
<1> QED BY <1>1, <1>4, <1>5, <1>7, <1>8, <1>9, <1>10, LocalKeeps, Zenon

LEMMA AddTailKeeps ==
  ASSUME IInv, NEW c \in Task, AddTail(c)
  PROVE  IInv'
<1> DEFINE row == Chained(call[c].row, nextId)
           k   == [call[c] EXCEPT !.pc = "insert", !.row = row]
<1>1. /\ call[c].pc = "tail" /\ nextId' = nextId + 1
      /\ UNCHANGED <<table, locks, begun, faults>>
      /\ call' = [call EXCEPT ![c] = k]
  BY DEF AddTail
<1>2. c \in Waiting
  BY <1>1 DEF Waiting
<1>3. /\ nextId \in Nat \ {0} /\ begun \in Nat /\ begun <= MaxCalls /\ faults \in Nat
      /\ IsFiniteSet(Waiting) /\ nextId + Cardinality(Waiting) <= begun + 1
  BY DEF IInv, CountsOK
<1>4. Cardinality(Waiting) \in Nat /\ Cardinality(Waiting) > 0
  BY <1>2, <1>3, FS_CardinalityType, FS_EmptySet
<1>5. nextId \in Id
  BY <1>3, <1>4, EvidenceAssumption DEF Id
<1>6. IsDraft(call[c].row) /\ locks[LockOf[call[c].row.tenant]] = c
  BY <1>1, CallShape DEF CallOK
<1>7. /\ IsRecord(row) /\ HashedAs(row, row.form) /\ Follows(row, rows)
      /\ row.id = nextId /\ row.tenant = call[c].row.tenant
  BY <1>5, <1>6, ChainedIs DEF IInv
<1> HIDE DEF row
<1>8. DOMAIN k = {"pc", "row", "ids", "i"} /\ k.pc = "insert" /\ k.row = row
  BY CallShape
<1> HIDE DEF k
<1>9. ~ FoundIn(rows, nextId)
  <2>1. \A r \in rows : r.id \in Nat /\ r.id < nextId
    BY EvidenceAssumption DEF IInv, RowsOK, IsRecord, Id
  <2> QED BY <1>3, <2>1 DEF FoundIn
<1>10. CallOK(c, k, rows, locks', nextId')
  <2>1. nextId < nextId + 1
    BY <1>3
  <2> QED BY <1>1, <1>6, <1>7, <1>8, <1>9, <2>1 DEF CallOK, IsRecord
<1>11. k.pc \in Writing => \A d \in Task : d # c /\ call[d].pc \in Writing =>
                             call[d].row.id # k.row.id
  <2>1. ASSUME NEW d \in Task, call[d].pc \in Writing PROVE call[d].row.id # nextId
    <3>1. call[d].row.id < nextId /\ call[d].row.id \in Nat
      BY <2>1, CallShape, EvidenceAssumption DEF CallOK, IsRecord, Id
    <3> QED BY <1>3, <3>1
  <2> QED BY <1>7, <1>8, <2>1
<1>12. CountsOK'
  <2>1. Waiting' = Waiting \ {c}
    BY <1>1, <1>8, WaitingMoves
  <2>2. IsFiniteSet(Waiting') /\ Cardinality(Waiting') = Cardinality(Waiting) - 1
    BY <1>2, <1>3, <2>1, FS_RemoveElement
  <2> QED BY <1>1, <1>3, <1>4, <2>2 DEF CountsOK
<1>13. CustodyOK(custody', rows) /\ PackagesOK(packages', rows) /\ rows' = rows
  BY <1>1 DEF IInv, table
<1>14. /\ locks' \in [Lock -> Task \cup {None}] /\ nextId' \in Nat /\ nextId <= nextId'
       /\ \A d \in Task, l \in Lock : d # c /\ locks[l] = d => locks'[l] = d
  BY <1>1, <1>3 DEF IInv
<1> QED BY <1>1, <1>10, <1>11, <1>12, <1>13, <1>14, LocalKeeps, Zenon

\* A task moves on, and nothing else than its call does.
LEMMA CallMoves ==
  ASSUME IInv, NEW c \in Task, NEW k, call' = [call EXCEPT ![c] = k],
         UNCHANGED <<table, locks, nextId, faults>>, begun' \in {begun, begun + 1}, begun' <= MaxCalls,
         CallOK(c, k, rows, locks, nextId),
         k.pc \in {"lock", "tail"} => c \in Waiting,
         k.pc \in Writing => \A d \in Task : d # c /\ call[d].pc \in Writing =>
                                               call[d].row.id # k.row.id
  PROVE  IInv'
<1>1. nextId' = nextId /\ nextId' \in Nat /\ nextId <= nextId' /\ faults' \in Nat
  BY DEF IInv, CountsOK
<1>2. CountsOK'
  BY <1>1, CountsKept
<1>3. CustodyOK(custody', rows) /\ PackagesOK(packages', rows) /\ rows' = rows
  BY DEF IInv, table
<1>4. /\ locks' \in [Lock -> Task \cup {None}] /\ CallOK(c, k, rows, locks', nextId')
      /\ \A d \in Task, l \in Lock : d # c /\ locks[l] = d => locks'[l] = d
  BY DEF IInv
<1> QED BY <1>1, <1>2, <1>3, <1>4, LocalKeeps, Zenon

LEMMA AddInsertKeeps ==
  ASSUME IInv, NEW c \in Task, AddInsert(c)
  PROVE  IInv'
<1> DEFINE k == [call[c] EXCEPT !.pc = "commit"]
<1>1. /\ call[c].pc = "insert" /\ call' = [call EXCEPT ![c] = k]
      /\ UNCHANGED <<table, locks, nextId, faults>> /\ begun' = begun
  BY DEF AddInsert
<1>2. DOMAIN k = {"pc", "row", "ids", "i"} /\ k.pc = "commit" /\ k.row = call[c].row
  BY CallShape
<1> HIDE DEF k
<1>3. CallOK(c, k, rows, locks, nextId)
  BY <1>1, <1>2, CallShape DEF CallOK, Writing
<1>4. k.pc \in Writing => \A d \in Task : d # c /\ call[d].pc \in Writing =>
                            call[d].row.id # k.row.id
  BY <1>1, <1>2 DEF IInv, WritersApart, Writing
<1>5. begun' \in {begun, begun + 1} /\ begun' <= MaxCalls
  BY <1>1 DEF IInv, CountsOK
<1>6. k.pc \in {"lock", "tail"} => c \in Waiting
  BY <1>2
<1> QED BY <1>1, <1>3, <1>4, <1>5, <1>6, CallMoves, Zenon

LEMMA BeginKeeps ==
  ASSUME IInv, NEW c \in Task, NEW k, Begin(c, k), UNCHANGED <<table, locks, nextId, faults>>,
         CallOK(c, k, rows, locks, nextId), k.pc \in {"read", "package"}
  PROVE  IInv'
<1>1. call' = [call EXCEPT ![c] = k] /\ begun' \in {begun, begun + 1}
  BY DEF Begin
<1>2. begun' <= MaxCalls
  BY EvidenceAssumption DEF Begin, IInv, CountsOK
<1>3. k.pc \in {"lock", "tail"} => c \in Waiting
  OBVIOUS
<1>4. k.pc \in Writing => \A d \in Task : d # c /\ call[d].pc \in Writing =>
                            call[d].row.id # k.row.id
  BY DEF Writing
<1> QED BY <1>1, <1>2, <1>3, <1>4, CallMoves, Zenon

LEMMA GetSelectKeeps ==
  ASSUME IInv, NEW c \in Task, NEW id \in Id, GetSelect(c, id)
  PROVE  IInv'
<1> DEFINE k == [NoCall EXCEPT !.pc = "read", !.ids = <<id>>]
<1>1. Found(id) /\ Begin(c, k) /\ UNCHANGED <<table, locks, nextId, faults>>
  BY DEF GetSelect
<1>2. DOMAIN k = {"pc", "row", "ids", "i"} /\ k.pc = "read" /\ k.ids = <<id>>
  BY DEF NoCall
<1> HIDE DEF k
<1>3. CallOK(c, k, rows, locks, nextId)
  BY <1>1, <1>2, RowOps DEF CallOK, Writing
<1> QED BY <1>1, <1>2, <1>3, BeginKeeps

LEMMA PackageBeginKeeps ==
  ASSUME IInv, NEW c \in Task, NEW ids \in PackageLists, PackageBegin(c, ids)
  PROVE  IInv'
<1> DEFINE k == [NoCall EXCEPT !.pc = "package", !.ids = ids, !.i = 1]
<1>1. Begin(c, k) /\ UNCHANGED <<table, locks, nextId, faults>>
  BY DEF PackageBegin
<1>2. DOMAIN k = {"pc", "row", "ids", "i"} /\ k.pc = "package" /\ k.ids = ids /\ k.i = 1
  BY DEF NoCall
<1> HIDE DEF k
<1>3. CallOK(c, k, rows, locks, nextId)
  <2>1. Len(ids) \in Nat
    BY EvidenceAssumption
  <2>2. 1 <= Len(ids) + 1 /\ \A j \in 1 .. Len(ids) : ~ (j < 1)
    BY <2>1
  <2> QED BY <1>2, <2>2 DEF CallOK, Writing
<1> QED BY <1>1, <1>2, <1>3, BeginKeeps

LEMMA PackageSelectKeeps ==
  ASSUME IInv, NEW c \in Task, PackageSelect(c)
  PROVE  IInv'
<1> DEFINE k == [call[c] EXCEPT !.i = @ + 1]
           ids == call[c].ids
           i == call[c].i
<1>1. /\ call[c].pc = "package" /\ i <= Len(ids) /\ Fits(c) /\ call' = [call EXCEPT ![c] = k]
      /\ UNCHANGED <<table, locks, nextId, faults>> /\ begun' = begun
  BY DEF PackageSelect
<1>2. DOMAIN k = {"pc", "row", "ids", "i"} /\ k.pc = "package" /\ k.ids = ids /\ k.i = i + 1
  BY <1>1, CallShape
<1> HIDE DEF k
<1>3. /\ ids \in PackageLists /\ i \in Nat \ {0}
      /\ \A j \in 1 .. Len(ids) : j < i => FoundIn(rows, ids[j])
      /\ \A j, l \in 1 .. Len(ids) : j < i /\ l < i =>
           RowIn(rows, ids[j]).tenant = RowIn(rows, ids[l]).tenant
  BY <1>1, CallShape DEF CallOK
<1>4. /\ FoundIn(rows, ids[i])
      /\ \A j \in 1 .. i - 1 : RowIn(rows, ids[j]).tenant = RowIn(rows, ids[i]).tenant
  BY <1>1, RowOps DEF Fits, Member
<1> HIDE DEF ids, i
<1>5. Len(ids) \in Nat
  BY <1>3, EvidenceAssumption
<1>6. i + 1 \in Nat \ {0} /\ i + 1 <= Len(ids) + 1
  BY <1>1, <1>3, <1>5
<1>7. ASSUME NEW j \in 1 .. Len(ids), j < i + 1 PROVE j < i \/ j = i
  BY <1>3, <1>7
<1>8. \A j \in 1 .. Len(ids) : j < i + 1 => FoundIn(rows, ids[j])
  BY <1>3, <1>4, <1>7
<1>9. ASSUME NEW j \in 1 .. Len(ids), NEW l \in 1 .. Len(ids), j < i + 1, l < i + 1
      PROVE  RowIn(rows, ids[j]).tenant = RowIn(rows, ids[l]).tenant
  <2>1. \A m \in 1 .. Len(ids) : m < i => m \in 1 .. i - 1
    BY <1>3
  <2>2. j < i \/ j = i
    BY <1>7, <1>9
  <2>3. l < i \/ l = i
    BY <1>7, <1>9
  <2> QED BY <1>3, <1>4, <2>1, <2>2, <2>3
<1>10. CallOK(c, k, rows, locks, nextId)
  BY <1>2, <1>3, <1>6, <1>8, <1>9 DEF CallOK, Writing
<1>11. begun' \in {begun, begun + 1} /\ begun' <= MaxCalls
  BY <1>1 DEF IInv, CountsOK
<1>12. k.pc \in {"lock", "tail"} => c \in Waiting
  BY <1>2
<1>13. k.pc \in Writing => \A d \in Task : d # c /\ call[d].pc \in Writing =>
                             call[d].row.id # k.row.id
  BY <1>2 DEF Writing
<1> QED BY <1>1, <1>10, <1>11, <1>12, <1>13, CallMoves, Zenon

LEMMA QuietEndKeeps ==
  ASSUME IInv, NEW c \in Task, AddPublished(c) \/ PackageRefused(c) \/ Rollback(c)
  PROVE  IInv'
<1>1. /\ call' = Ended(c) /\ rows' = rows /\ UNCHANGED table
      /\ locks' = locks \/ locks' = Released(c)
      /\ nextId' = nextId /\ begun' = begun /\ faults' \in {faults, faults + 1}
  BY DEF AddPublished, PackageRefused, Rollback, table
<1>2. faults' \in Nat
  BY <1>1 DEF IInv, CountsOK
<1>3. CustodyOK(custody', rows) /\ PackagesOK(packages', rows)
  BY <1>1 DEF IInv, table
<1> QED BY <1>1, <1>2, <1>3, EndedKeeps, Zenon

LEMMA GetCustodyKeeps ==
  ASSUME IInv, NEW c \in Task, GetCustody(c)
  PROVE  IInv'
<1>1. PICK id \in Id : call[c].ids = <<id>> /\ FoundIn(rows, id)
  BY CallShape DEF GetCustody, CallOK
<1>2. CustodyOK(Logged(<<id>>, "read"), rows)
  <2>1. <<id>> \in Seq(Id) /\ \A k \in DOMAIN <<id>> : FoundIn(rows, <<id>>[k])
    BY <1>1
  <2>2. "read" \in Access
    BY DEF Access
  <2> QED BY <2>1, <2>2, LoggedKeepsCustody DEF IInv
<1>3. /\ call' = Ended(c) /\ rows' = rows /\ locks' = locks /\ packages' = packages
      /\ nextId' = nextId /\ begun' = begun /\ faults' = faults
      /\ custody' = Logged(<<id>>, "read")
  BY <1>1 DEF GetCustody
<1>4. faults' \in Nat /\ PackagesOK(packages', rows)
  BY <1>3 DEF IInv, CountsOK
<1> QED BY <1>2, <1>3, <1>4, EndedKeeps, Zenon

LEMMA PackageCommitKeeps ==
  ASSUME IInv, NEW c \in Task, PackageCommit(c)
  PROVE  IInv'
<1> DEFINE ids == call[c].ids
           pack == [ids |-> ids, manifest |-> Manifest(ids)]
<1>1. /\ call' = Ended(c) /\ rows' = rows /\ locks' = locks /\ packages' = Append(packages, pack)
      /\ nextId' = nextId /\ begun' = begun /\ faults' = faults
      /\ custody' = Logged(ids, "package") /\ call[c].pc = "package" /\ call[c].i > Len(ids)
  BY DEF PackageCommit
<1>2. ids \in PackageLists /\ call[c].i \in Nat
  BY <1>1, CallShape DEF CallOK
<1>3. ids \in Seq(Id) /\ Len(ids) \in Nat
  BY <1>2, EvidenceAssumption DEF Id
<1>4. \A k \in DOMAIN ids : FoundIn(rows, ids[k])
  <2>1. \A j \in 1 .. Len(ids) : j < call[c].i
    BY <1>1, <1>2, <1>3
  <2>2. \A j \in 1 .. Len(ids) : j < call[c].i => FoundIn(rows, ids[j])
    BY <1>1, CallShape DEF CallOK
  <2> QED BY <1>3, <2>1, <2>2
<1> HIDE DEF ids
<1>5. CustodyOK(custody', rows)
  <2>1. "package" \in Access
    BY DEF Access
  <2> QED BY <1>1, <1>3, <1>4, <2>1, LoggedKeepsCustody DEF IInv
<1>6. PackagesOK(packages', rows)
  <2>1. Manifest(ids) = ManifestIn(rows, ids)
    BY RowOps
  <2>2. \A id \in ToSet(ids) : FoundIn(rows, id)
    BY <1>4 DEF ToSet
  <2>3. Manifest(ids) \in UNION {[hs -> Nat] : hs \in SUBSET Hash}
    BY <1>2, <2>1, <2>2, ManifestTypes DEF IInv
  <2>4. pack \in PackageRow /\ pack.ids = ids /\ pack.manifest = ManifestIn(rows, ids)
    BY <1>2, <2>1, <2>3 DEF PackageRow
  <2> HIDE DEF pack
  <2>5. packages \in Seq(PackageRow)
    BY DEF IInv, PackagesOK
  <2>6. /\ packages' \in Seq(PackageRow) /\ Len(packages') = Len(packages) + 1
        /\ \A k \in 1 .. Len(packages) : packages'[k] = packages[k]
        /\ packages'[Len(packages) + 1] = pack
    BY <1>1, <2>4, <2>5, AppendProperties
  <2>7. ASSUME NEW k \in 1 .. Len(packages')
        PROVE  /\ \A id \in ToSet(packages'[k].ids) : FoundIn(rows, id)
               /\ packages'[k].manifest = ManifestIn(rows, packages'[k].ids)
    <3>1. k \in 1 .. Len(packages) \/ k = Len(packages) + 1
      BY <2>5, <2>6
    <3>2. CASE k \in 1 .. Len(packages)
      BY <2>6, <3>2 DEF IInv, PackagesOK
    <3>3. CASE k = Len(packages) + 1
      BY <2>2, <2>4, <2>6, <3>3
    <3> QED BY <3>1, <3>2, <3>3
  <2> QED BY <2>6, <2>7 DEF PackagesOK
<1>7. faults' \in Nat
  BY <1>1 DEF IInv, CountsOK
<1> QED BY <1>1, <1>5, <1>6, <1>7, EndedKeeps, Zenon

\* A record that is committed: the chains of other tenants, and what their
\* writers have read, stay.
LEMMA CommittedRows ==
  ASSUME IInv, NEW c \in Task, AddCommit(c)
  PROVE  LET row == Stored(call[c].row) IN
         /\ IsRecord(row) /\ row.id = call[c].row.id /\ row.id < nextId /\ row.form = "canonical"
         /\ row.tenant = call[c].row.tenant /\ row.content = call[c].row.content
         /\ \E f \in Form : HashedAs(row, f)
         /\ ~ FoundIn(rows, row.id)
         /\ rows' = rows \cup {row} /\ RowsOK(rows \cup {row})
         /\ \A t \in Tenant \ {row.tenant} : Of(rows \cup {row}, t) = Of(rows, t)
         /\ InOrder(Of(rows \cup {row}, row.tenant)) = Append(InOrder(Of(rows, row.tenant)), row)
<1> DEFINE old == call[c].row
           row == Stored(old)
<1>1. /\ IsRecord(old) /\ HashedAs(old, old.form) /\ Follows(old, rows)
      /\ old.id < nextId /\ ~ FoundIn(rows, old.id)
  BY CallShape DEF AddCommit, CallOK, Writing
<1>2. rows' = rows \cup {row}
  BY DEF AddCommit
<1> HIDE DEF old
<1>3. /\ IsRecord(row) /\ row.form = "canonical" /\ row.id = old.id /\ row.tenant = old.tenant
      /\ row.content = old.content /\ row.seq = old.seq /\ row.prev_hash = old.prev_hash
      /\ row.content_hash = old.content_hash /\ row.record_hash = old.record_hash
  BY <1>1, StoredIs
<1> HIDE DEF row
<1>4. HashedAs(row, old.form) /\ old.form \in Form
  BY <1>1, <1>3 DEF HashedAs, IsRecord, IsDraft
<1>5. RowsOK(rows) /\ row.tenant \in Tenant
  BY <1>3 DEF IInv, IsRecord, IsDraft
<1>6. PICK n \in Nat : Dense(Of(rows, row.tenant), n)
  BY <1>5 DEF RowsOK
<1>7. Linked(Of(rows, row.tenant))
  BY <1>5 DEF RowsOK
<1>8. /\ row.seq = TailIn(Of(rows, row.tenant)).seq + 1
      /\ row.prev_hash = TailIn(Of(rows, row.tenant)).record_hash
  BY <1>1, <1>3 DEF Follows
<1>9. Of(rows \cup {row}, row.tenant) = Of(rows, row.tenant) \cup {row}
  BY DEF Of
<1>10. /\ Dense(Of(rows, row.tenant) \cup {row}, n + 1) /\ Linked(Of(rows, row.tenant) \cup {row})
       /\ InOrder(Of(rows, row.tenant) \cup {row}) = Append(InOrder(Of(rows, row.tenant)), row)
  BY <1>6, <1>7, <1>8, FollowsTail
<1>11. \A t \in Tenant \ {row.tenant} : Of(rows \cup {row}, t) = Of(rows, t)
  BY DEF Of
<1>12. RowsOK(rows \cup {row})
  <2>1. \A r \in rows \cup {row} : IsRecord(r) /\ r.form = "canonical" /\ \E f \in Form : HashedAs(r, f)
    BY <1>3, <1>4, <1>5 DEF RowsOK
  <2>2. \A r, q \in rows \cup {row} : r.id = q.id => r = q
    BY <1>1, <1>3, <1>5 DEF RowsOK, FoundIn
  <2>3. ASSUME NEW t \in Tenant
        PROVE  Linked(Of(rows \cup {row}, t)) /\ \E m \in Nat : Dense(Of(rows \cup {row}, t), m)
    <3>1. CASE t = row.tenant
      <4>1. n + 1 \in Nat
        OBVIOUS
      <4> QED BY <1>9, <1>10, <3>1, <4>1
    <3>2. CASE t # row.tenant
      <4>1. Of(rows \cup {row}, t) = Of(rows, t)
        BY <1>11, <3>2
      <4> QED BY <1>5, <4>1 DEF RowsOK
    <3> QED BY <3>1, <3>2
  <2> QED BY <2>1, <2>2, <2>3 DEF RowsOK
<1> QED BY <1>1, <1>2, <1>3, <1>4, <1>9, <1>10, <1>11, <1>12 DEF row, old

\* What the call of another task relies on is untouched by a commit.
LEMMA CommitKeepsOthers ==
  ASSUME IInv, NEW c \in Task, AddCommit(c), NEW d \in Task, d # c
  PROVE  CallOK(d, call[d], rows', locks', nextId')
<1> DEFINE row == Stored(call[c].row)
           k == call[d]
           more == rows \cup {row}
<1>1. /\ row.id = call[c].row.id /\ row.tenant = call[c].row.tenant
      /\ rows' = more /\ RowsOK(more)
      /\ \A t \in Tenant \ {row.tenant} : Of(more, t) = Of(rows, t)
  BY CommittedRows
<1>2. /\ call[c].pc \in Writing /\ nextId' = nextId /\ locks' = Released(c)
  BY DEF AddCommit, Writing
<1>3. CallOK(d, k, rows, locks, nextId)
  BY CallShape
<1>4. rows \subseteq more /\ \A r, q \in more : r.id = q.id => r = q
  BY <1>1 DEF RowsOK
<1>5. ASSUME k.pc \in {"tail"} \cup Writing PROVE locks'[LockOf[k.row.tenant]] = d
  <2>1. k.row.tenant \in Tenant /\ locks[LockOf[k.row.tenant]] = d
    BY <1>3, <1>5 DEF CallOK, IsDraft
  <2>2. LockOf[k.row.tenant] \in Lock
    BY <2>1, EvidenceAssumption
  <2> QED BY <1>2, <2>1, <2>2, ReleasedIs
<1>6. ASSUME k.pc \in Writing
      PROVE  Follows(k.row, more) /\ ~ FoundIn(more, k.row.id)
  <2>1. k.row.tenant \in Tenant /\ locks[LockOf[k.row.tenant]] = d
    BY <1>3, <1>6 DEF CallOK, IsDraft
  <2>2. locks[LockOf[call[c].row.tenant]] = c
    BY <1>2, CallShape DEF CallOK
  <2>3. k.row.tenant \in Tenant \ {row.tenant}
    BY <1>1, <2>1, <2>2
  <2>4. Of(more, k.row.tenant) = Of(rows, k.row.tenant)
    BY <1>1, <2>3
  <2>5. Follows(k.row, rows) /\ ~ FoundIn(rows, k.row.id)
    BY <1>3, <1>6 DEF CallOK
  <2>6. Follows(k.row, more)
    BY <2>4, <2>5 DEF Follows
  <2>7. k.row.id # row.id
    BY <1>1, <1>2, <1>6 DEF IInv, WritersApart
  <2> QED BY <2>5, <2>6, <2>7 DEF FoundIn
<1>7. ASSUME k.pc = "read" PROVE \E id \in Id : k.ids = <<id>> /\ FoundIn(more, id)
  BY <1>3, <1>7 DEF CallOK, FoundIn
<1> HIDE DEF row, more
<1>8. ASSUME k.pc = "package"
      PROVE  /\ \A j \in 1 .. Len(k.ids) : j < k.i => FoundIn(more, k.ids[j])
             /\ \A j, l \in 1 .. Len(k.ids) : j < k.i /\ l < k.i =>
                  RowIn(more, k.ids[j]).tenant = RowIn(more, k.ids[l]).tenant
  <2>1. \A j \in 1 .. Len(k.ids) : j < k.i => FoundIn(rows, k.ids[j])
    BY <1>3, <1>8 DEF CallOK
  <2>2. \A j \in 1 .. Len(k.ids) : j < k.i =>
          FoundIn(more, k.ids[j]) /\ RowIn(more, k.ids[j]) = RowIn(rows, k.ids[j])
    BY <1>4, <2>1, RowInStays
  <2>3. \A j, l \in 1 .. Len(k.ids) : j < k.i /\ l < k.i =>
          RowIn(rows, k.ids[j]).tenant = RowIn(rows, k.ids[l]).tenant
    BY <1>3, <1>8 DEF CallOK
  <2> QED BY <2>2, <2>3
<1> HIDE DEF k
<1> QED BY <1>1, <1>2, <1>3, <1>5, <1>6, <1>7, <1>8 DEF CallOK, k

LEMMA AddCommitKeeps ==
  ASSUME IInv, NEW c \in Task, AddCommit(c)
  PROVE  IInv'
<1> DEFINE row == Stored(call[c].row)
           k == [call[c] EXCEPT !.pc = "publish"]
           more == rows \cup {row}
<1>1. /\ IsRecord(row) /\ row.id = call[c].row.id /\ row.id < nextId
      /\ rows' = more /\ RowsOK(more) /\ ~ FoundIn(rows, row.id)
  BY CommittedRows
<1>2. /\ call' = [call EXCEPT ![c] = k] /\ custody' = Logged(<<row.id>>, "intake")
      /\ locks' = Released(c) /\ UNCHANGED <<packages, nextId, begun, faults>>
  BY <1>1 DEF AddCommit
<1>3. DOMAIN k = {"pc", "row", "ids", "i"} /\ k.pc = "publish"
  BY CallShape
<1> HIDE DEF k
<1>4. /\ \A d \in Task : d # c => call'[d] = call[d]
      /\ call'[c] = k /\ DOMAIN call' = Task /\ call' = [d \in Task |-> call'[d]]
  BY <1>2 DEF IInv
<1>5. CallsOK'
  <2>1. CallOK(c, k, rows', locks', nextId')
    BY <1>3 DEF CallOK, Writing
  <2>2. \A d \in Task : d # c => CallOK(d, call[d], rows', locks', nextId')
    BY CommitKeepsOthers
  <2>3. \A d \in Task : CallOK(d, call'[d], rows', locks', nextId')
    BY <1>4, <2>1, <2>2, Zenon
  <2> QED BY <2>3 DEF CallsOK
<1>6. WritersApart'
  <2>1. k.pc \notin Writing
    BY <1>3 DEF Writing
  <2> QED BY <1>4, <2>1 DEF WritersApart, IInv
<1>7. CountsOK'
  <2>1. nextId' = nextId /\ begun' \in {begun, begun + 1} /\ begun' <= MaxCalls /\ faults' \in Nat
    BY <1>2 DEF IInv, CountsOK
  <2>2. k.pc \in {"lock", "tail"} => c \in Waiting
    BY <1>3
  <2> QED BY <1>2, <2>1, <2>2, CountsKept
<1>8. CustodyOK(custody', more)
  <2>1. row.id \in Id
    BY <1>1 DEF IsRecord
  <2>2. <<row.id>> \in Seq(Id) /\ \A j \in DOMAIN <<row.id>> : FoundIn(more, <<row.id>>[j])
    BY <2>1 DEF FoundIn
  <2>3. "intake" \in Access /\ rows \subseteq more
    BY DEF Access
  <2> QED BY <1>2, <2>2, <2>3, LoggedKeepsCustody DEF IInv
<1>9. PackagesOK(packages', more)
  <2>1. rows \subseteq more /\ \A r, q \in more : r.id = q.id => r = q
    BY <1>1 DEF RowsOK
  <2>2. PackagesOK(packages, rows)
    BY DEF IInv
  <2> HIDE DEF more
  <2>3. ASSUME NEW j \in 1 .. Len(packages)
        PROVE  /\ \A id \in ToSet(packages[j].ids) : FoundIn(more, id)
               /\ packages[j].manifest = ManifestIn(more, packages[j].ids)
    <3>1. \A id \in ToSet(packages[j].ids) : FoundIn(rows, id)
      BY <2>2 DEF PackagesOK
    <3>2. ManifestIn(more, packages[j].ids) = ManifestIn(rows, packages[j].ids)
      BY <2>1, <3>1, ManifestStays
    <3>3. \A id \in ToSet(packages[j].ids) : FoundIn(more, id)
      BY <2>1, <3>1 DEF FoundIn
    <3> QED BY <2>2, <3>2, <3>3 DEF PackagesOK
  <2> QED BY <1>2, <2>2, <2>3 DEF PackagesOK
<1>10. \A r \in more : r.id < nextId'
  BY <1>1, <1>2 DEF IInv
<1>11. locks' \in [Lock -> Task \cup {None}]
  BY <1>2, ReleasedIs
<1> HIDE DEF more
<1> QED BY <1>1, <1>4, <1>5, <1>6, <1>7, <1>8, <1>9, <1>10, <1>11 DEF IInv

LEMMA StutterKeeps ==
  ASSUME IInv, UNCHANGED vars
  PROVE  IInv'
<1>1. /\ rows' = rows /\ custody' = custody /\ packages' = packages /\ locks' = locks
      /\ call' = call /\ nextId' = nextId /\ begun' = begun /\ faults' = faults
  BY DEF vars
<1> QED BY <1>1 DEF IInv, CallsOK, WritersApart, CountsOK, Waiting

LEMMA NextKeepsIInv == IInv /\ [Next]_vars => IInv'
<1> SUFFICES ASSUME IInv, [Next]_vars PROVE IInv'
  OBVIOUS
<1>1. CASE UNCHANGED vars
  BY <1>1, StutterKeeps
<1>2. ASSUME NEW c \in Task, Ask(c) PROVE IInv'
  <2>1. ASSUME NEW t \in Tenant, NEW content \in Content, NEW form \in Form,
               AddBegin(c, t, content, form)
        PROVE  IInv'
    BY <2>1, AddBeginKeeps
  <2>2. ASSUME NEW id \in Id, GetSelect(c, id) PROVE IInv'
    BY <2>2, GetSelectKeeps
  <2>3. ASSUME NEW ids \in PackageLists, PackageBegin(c, ids) PROVE IInv'
    BY <2>3, PackageBeginKeeps
  <2> QED BY <1>2, <2>1, <2>2, <2>3 DEF Ask
<1>3. ASSUME NEW c \in Task, Continue(c) PROVE IInv'
  <2>1. CASE AddTail(c) \/ AddInsert(c) \/ AddCommit(c)
    BY <2>1, AddTailKeeps, AddInsertKeeps, AddCommitKeeps
  <2>2. CASE AddPublished(c) \/ PackageRefused(c)
    BY <2>2, QuietEndKeeps
  <2>3. CASE GetCustody(c) \/ PackageSelect(c) \/ PackageCommit(c)
    BY <2>3, GetCustodyKeeps, PackageSelectKeeps, PackageCommitKeeps
  <2> QED BY <1>3, <2>1, <2>2, <2>3 DEF Continue
<1>4. ASSUME NEW c \in Task, AddLock(c) \/ Rollback(c) PROVE IInv'
  BY <1>4, AddLockKeeps, QuietEndKeeps
<1> QED BY <1>1, <1>2, <1>3, <1>4 DEF Next

(***************************************************************************)
(* Chains without a gap, each record hashed with the one before it; from   *)
(* the reading of the tail to the commit, the lock of the tenant           *)
(* (postgres.py:73) keeps the tail; packages name records that exist.      *)
(***************************************************************************)
THEOREM EvidenceInductive == Spec => []IInv
<1> QED BY InitIInv, NextKeepsIInv, PTL DEF Spec

-----------------------------------------------------------------------------
(* The tail is fresh, and types                                            *)

LEMMA IInvTypes == IInv => TypeOK
<1> SUFFICES ASSUME IInv PROVE TypeOK
  OBVIOUS
<1>1. ASSUME NEW r \in rows
      PROVE  /\ r.id \in Id /\ r.tenant \in Tenant /\ r.content \in Content
             /\ r.seq \in Nat \ {0} /\ r.prev_hash \in Hash /\ r.record_hash \in Hash
             /\ Clash(r, rows) = {r}
  <2>1. IsRecord(r)
    BY DEF IInv, RowsOK
  <2>2. ASSUME NEW q \in Clash(r, rows) PROVE q = r
    <3>1. CASE q.id = r.id
      BY <3>1 DEF IInv, RowsOK, Clash
    <3>2. CASE q.tenant = r.tenant /\ q.seq = r.seq
      <4>1. PICK n \in Nat : Dense(Of(rows, r.tenant), n)
        BY <2>1 DEF IInv, RowsOK, IsRecord, IsDraft
      <4>2. q \in Of(rows, r.tenant) /\ r \in Of(rows, r.tenant)
        BY <3>2 DEF Of, Clash
      <4> QED BY <3>2, <4>1, <4>2 DEF Dense
    <3> QED BY <3>1, <3>2 DEF Clash
  <2>3. r \in Clash(r, rows)
    BY DEF Clash
  <2> QED BY <2>1, <2>2, <2>3 DEF IsRecord, IsDraft
<1>2. ASSUME NEW k \in DOMAIN packages PROVE packages[k].ids \in PackageLists
  <2>1. packages \in Seq(PackageRow)
    BY DEF IInv, PackagesOK
  <2>2. packages[k] \in PackageRow
    BY <2>1
  <2> QED BY <2>2 DEF PackageRow
<1>3. nextId \in 1 .. MaxCalls + 1
  <2>1. Cardinality(Waiting) \in Nat
    BY FS_CardinalityType DEF IInv, CountsOK
  <2> QED BY <2>1, EvidenceAssumption DEF IInv, CountsOK
<1> QED BY <1>1, <1>2, <1>3 DEF TypeOK, IInv, CustodyOK, CountsOK

LEMMA IInvTail == IInv => TailIsFresh
<1> SUFFICES ASSUME IInv, NEW c \in Task, call[c].pc \in {"insert", "commit"}
             PROVE  /\ call[c].row.seq = TailOf(call[c].row.tenant).seq + 1
                    /\ call[c].row.prev_hash = TailOf(call[c].row.tenant).record_hash
  BY DEF TailIsFresh
<1>1. Follows(call[c].row, rows)
  BY CallShape DEF CallOK, Writing
<1> QED BY <1>1, RowOps DEF Follows

(***************************************************************************)
(* NFR-3 for any spelling of numbers and times: the tail that add() read   *)
(* is still the tail at the insert and at the commit.                      *)
(***************************************************************************)
THEOREM TailIsFreshTheorem == Spec => [](TypeOK /\ TailIsFresh)
<1> QED BY EvidenceInductive, IInvTypes, IInvTail, PTL

-----------------------------------------------------------------------------
(* Verification of a chain                                                 *)

SoundChain(chain, n) ==
  /\ chain \in Seq(rows) /\ Len(chain) = n
  /\ \A k \in 1 .. n :
       /\ chain[k] \in rows /\ chain[k].seq = k
       /\ chain[k].prev_hash = IF k = 1 THEN <<>> ELSE chain[k - 1].record_hash

LEMMA ChainIsSound ==
  ASSUME RowsOK(rows), NEW t \in Tenant
  PROVE  \E n \in Nat : SoundChain(Chain(t), n)
<1> DEFINE mine == Of(rows, t)
<1>1. PICK n \in Nat : Dense(mine, n)
  BY DEF RowsOK
<1>2. Linked(mine)
  BY DEF RowsOK
<1>3. Chain(t) = InOrder(mine)
  BY RowOps
<1>4. mine \subseteq rows
  BY DEF Of
<1> HIDE DEF mine
<1> DEFINE chain == InOrder(mine)
<1>5. chain \in [1 .. n -> mine] /\ \A k \in 1 .. n : chain[k].seq = k
  BY <1>1, InOrderIs
<1> HIDE DEF chain
<1>6. chain \in Seq(rows) /\ Len(chain) = n
  BY <1>4, <1>5
<1>7. ASSUME NEW k \in 1 .. n
      PROVE  chain[k].prev_hash = IF k = 1 THEN <<>> ELSE chain[k - 1].record_hash
  <2>1. chain[k] \in mine /\ chain[k].seq = k
    BY <1>5
  <2>2. CASE k = 1
    BY <1>2, <2>1, <2>2 DEF Linked
  <2>3. CASE k # 1
    <3>1. k - 1 \in 1 .. n /\ k = (k - 1) + 1
      BY <2>3
    <3>2. chain[k - 1] \in mine /\ chain[k - 1].seq = k - 1
      BY <1>5, <3>1
    <3> QED BY <1>2, <2>1, <2>3, <3>1, <3>2 DEF Linked
  <2> QED BY <2>2, <2>3
<1>8. \A k \in 1 .. n : chain[k] \in rows
  BY <1>4, <1>5
<1>9. SoundChain(chain, n)
  BY <1>5, <1>6, <1>7, <1>8 DEF SoundChain
<1> QED BY <1>3, <1>9 DEF chain

LEMMA StoredVerifies ==
  ASSUME RowsOK(rows), Form = {"canonical"}, NEW r \in rows
  PROVE  /\ IsRecord(r) /\ r.form = "canonical" /\ HashedAs(r, "canonical") /\ VerifyRow(r)
<1>1. IsRecord(r) /\ r.form = "canonical" /\ HashedAs(r, "canonical")
  BY DEF RowsOK
<1> QED BY <1>1 DEF VerifyRow, ContentHash, RecordHash, Body, HashedAs

\* verify_chain reports the first place at which a check fails.
LEMMA FirstBroken ==
  ASSUME NEW chain, NEW m \in Nat, DOMAIN chain = 1 .. m, NEW from, NEW to,
         NEW k \in Broken(chain, from, to), \A l \in 1 .. m : l < k => l \notin Broken(chain, from, to)
  PROVE  VerifyChain(chain, from, to) = chain[k].seq
<1> DEFINE broken == Broken(chain, from, to)
<1>1. broken \subseteq 1 .. m
  BY DEF Broken
<1> HIDE DEF broken
<1>2. k \in broken /\ \A l \in broken : k <= l
  BY <1>1 DEF broken
<1>3. (CHOOSE j \in broken : \A l \in broken : j <= l) = k
  <2>1. \A j \in broken : (\A l \in broken : j <= l) => j = k
    BY <1>1, <1>2
  <2> QED BY <1>2, <2>1
<1>4. broken # {}
  BY <1>2
<1> QED BY <1>3, <1>4 DEF VerifyChain, broken

\* Nothing is broken before a place where nothing was changed.
LEMMA SoundBefore ==
  ASSUME RowsOK(rows), Form = {"canonical"}, NEW n \in Nat, NEW chain, SoundChain(chain, n),
         NEW k \in 1 .. n, NEW other, \A l \in 1 .. n : l < k => other[l] = chain[l],
         NEW l \in 1 .. n, l < k, NEW from, NEW to
  PROVE  l \notin Broken(other, from, to)
<1>1. other[l] = chain[l]
  OBVIOUS
<1>2. VerifyRow(chain[l])
  BY StoredVerifies DEF SoundChain
<1>3. chain[l].prev_hash = IF l = 1 THEN <<>> ELSE chain[l - 1].record_hash
  BY DEF SoundChain
<1>4. l # 1 => other[l - 1] = chain[l - 1]
  OBVIOUS
<1> QED BY <1>1, <1>2, <1>3, <1>4 DEF Broken

LEMMA SoundVerifies ==
  ASSUME RowsOK(rows), Form = {"canonical"}, NEW n \in Nat, NEW chain, SoundChain(chain, n),
         NEW from, NEW to
  PROVE  VerifyChain(chain, from, to) = 0
<1>1. DOMAIN chain = 1 .. n
  BY DEF SoundChain
<1>2. ASSUME NEW k \in 1 .. n PROVE k \notin Broken(chain, from, to)
  <2>1. VerifyRow(chain[k])
    BY StoredVerifies DEF SoundChain
  <2>2. chain[k].prev_hash = IF k = 1 THEN <<>> ELSE chain[k - 1].record_hash
    BY DEF SoundChain
  <2> QED BY <2>1, <2>2 DEF Broken
<1>3. Broken(chain, from, to) = {}
  BY <1>1, <1>2 DEF Broken
<1> QED BY <1>3 DEF VerifyChain

LEMMA IInvVerify == ASSUME Form = {"canonical"} PROVE IInv => RecordsVerify
<1> SUFFICES ASSUME IInv PROVE RecordsVerify
  OBVIOUS
<1>1. RowsOK(rows)
  BY DEF IInv
<1>2. ASSUME NEW t \in Tenant, NEW from \in 0 .. Len(Chain(t))
      PROVE  VerifyChain(Chain(t), from, Len(Chain(t))) = 0
  <2>1. PICK n \in Nat : SoundChain(Chain(t), n)
    BY <1>1, ChainIsSound
  <2> QED BY <1>1, <2>1, SoundVerifies
<1>3. ASSUME NEW k \in DOMAIN packages PROVE VerifyPackage(packages[k])
  <2>1. k \in 1 .. Len(packages)
    BY DEF IInv, PackagesOK
  <2>2. /\ \A id \in ToSet(packages[k].ids) : FoundIn(rows, id)
        /\ packages[k].manifest = ManifestIn(rows, packages[k].ids)
    BY <2>1 DEF IInv, PackagesOK
  <2>3. ASSUME NEW id \in ToSet(packages[k].ids) PROVE VerifyRow(RowOf(id))
    <3>1. RowIn(rows, id) \in rows
      BY <2>2, RowInIs
    <3> QED BY <1>1, <3>1, StoredVerifies, RowOps
  <2>4. Manifest(packages[k].ids) = packages[k].manifest
    BY <2>2, RowOps
  <2> QED BY <2>3, <2>4 DEF VerifyPackage
<1> QED BY <1>2, <1>3 DEF RecordsVerify

\* The hash that the record at place k of a chain should carry
Before(chain, k) == IF k = 1 THEN <<>> ELSE chain[k - 1].record_hash

LEMMA DamageIsFound ==
  ASSUME RowsOK(rows), Form = {"canonical"}, NEW n \in Nat, NEW chain, SoundChain(chain, n),
         NEW other, NEW m \in Nat, DOMAIN other = 1 .. m, NEW k \in 1 .. n, k <= m,
         \A l \in 1 .. n : l < k => other[l] = chain[l],
         NEW from, NEW to, other[k].seq > from, other[k].seq <= to,
         other[k].prev_hash # Before(other, k) \/ ~ VerifyRow(other[k])
  PROVE  VerifyChain(other, from, to) = other[k].seq
<1>1. k \in Broken(other, from, to)
  BY DEF Broken, Before
<1>2. ASSUME NEW l \in 1 .. m, l < k PROVE l \notin Broken(other, from, to)
  <2>1. l \in 1 .. n
    BY <1>2
  <2> QED BY <1>2, <2>1, SoundBefore
<1> QED BY <1>1, <1>2, FirstBroken

\* A hash is longer than the one before it.
LEMMA HashesDiffer ==
  ASSUME NEW r, IsRecord(r), HashedAs(r, "canonical")
  PROVE  r.record_hash # r.prev_hash /\ r.record_hash # <<>>
<1> DEFINE body == [id |-> r.id, tenant |-> r.tenant, content |-> r.content, form |-> "canonical",
                    seq |-> r.seq, content_hash |-> r.content_hash]
           B == [id : Id, tenant : Tenant, content : Content, form : Form, seq : Nat,
                 content_hash : [content : Content, form : Form]]
<1>1. r.prev_hash \in Seq(B) /\ r.record_hash = Append(r.prev_hash, body)
  BY DEF IsRecord, HashedAs, Hash
<1>2. body \in B
  BY EvidenceAssumption DEF IsRecord, IsDraft, HashedAs
<1> HIDE DEF body, B
<1>3. Len(Append(r.prev_hash, body)) = Len(r.prev_hash) + 1 /\ Len(r.prev_hash) \in Nat
  BY <1>1, <1>2
<1> QED BY <1>1, <1>3

LEMMA AlteredIsFound ==
  ASSUME RowsOK(rows), Form = {"canonical"}, NEW n \in Nat, NEW chain, SoundChain(chain, n),
         NEW k \in 1 .. n, NEW from \in 0 .. k - 1, NEW to \in k .. n,
         NEW bad \in Altered(chain[k]), bad # chain[k]
  PROVE  VerifyChain([chain EXCEPT ![k] = bad], from, to) = k
<1> DEFINE r == chain[k]
           other == [chain EXCEPT ![k] = bad]
<1>1. /\ r \in rows /\ r.seq = k /\ r.prev_hash = Before(chain, k)
      /\ chain \in Seq(rows) /\ DOMAIN chain = 1 .. n
  BY DEF SoundChain, Before
<1>2. IsRecord(r) /\ HashedAs(r, "canonical") /\ r.form = "canonical"
  BY <1>1, StoredVerifies
<1>3. DOMAIN r = Fields /\ r = [f \in Fields |-> r[f]]
  BY <1>2 DEF IsRecord, IsDraft
<1>4. DOMAIN other = 1 .. n /\ other[k] = bad /\ \A l \in 1 .. n : l # k => other[l] = chain[l]
  BY <1>1
<1>5. Before(other, k) = r.prev_hash
  BY <1>1, <1>4 DEF Before
<1> HIDE DEF other, r
<1>6. bad.seq = k /\ (bad.prev_hash # r.prev_hash \/ ~ VerifyRow(bad))
  <2>1. CASE \E c \in Content : bad = [r EXCEPT !.content = c]
    <3>1. PICK c \in Content : bad = [r EXCEPT !.content = c]
      BY <2>1
    <3>2. bad.seq = r.seq /\ bad.content = c /\ bad.form = r.form /\ bad.content_hash = r.content_hash
      BY <1>3, <3>1 DEF Fields
    <3>3. c # r.content
      <4>1. SUFFICES ASSUME c = r.content PROVE FALSE
        OBVIOUS
      <4>2. bad = r
        BY <1>3, <3>1, <4>1
      <4> QED BY <4>2 DEF r
    <3>4. ContentHash(bad).content = c /\ bad.content_hash.content = r.content
      BY <1>2, <3>2 DEF ContentHash, HashedAs
    <3> QED BY <1>1, <3>2, <3>3, <3>4 DEF VerifyRow
  <2>2. CASE bad = [r EXCEPT !.record_hash = <<>>]
    <3>1. bad.seq = r.seq /\ bad.record_hash = <<>> /\ bad.prev_hash = r.prev_hash
      BY <1>3, <2>2 DEF Fields
    <3>2. RecordHash(bad) # <<>>
      <4>1. r.prev_hash \in Hash
        BY <1>2 DEF IsRecord
      <4> QED BY <3>1, <4>1 DEF RecordHash, Hash
    <3> QED BY <1>1, <3>1, <3>2 DEF VerifyRow
  <2>3. CASE bad = [r EXCEPT !.prev_hash = r.record_hash]
    <3>1. bad.seq = r.seq /\ bad.prev_hash = r.record_hash
      BY <1>3, <2>3 DEF Fields
    <3> QED BY <1>1, <1>2, <3>1, HashesDiffer
  <2> QED BY <2>1, <2>2, <2>3 DEF Altered, r
<1>7. other[k].seq > from /\ other[k].seq <= to
  BY <1>4, <1>6
<1>8. VerifyChain(other, from, to) = other[k].seq
  BY <1>4, <1>5, <1>6, <1>7, DamageIsFound
<1> QED BY <1>4, <1>6, <1>8 DEF other

LEMMA LostIsFound ==
  ASSUME RowsOK(rows), Form = {"canonical"}, NEW n \in Nat, NEW chain, SoundChain(chain, n),
         NEW k \in 1 .. n, NEW from \in 0 .. k - 1, NEW to \in k .. n, k < to
  PROVE  VerifyChain(RemoveAt(chain, k), from, to) = k + 1
<1> DEFINE r == chain[k]
           other == RemoveAt(chain, k)
<1>1. /\ r \in rows /\ r.prev_hash = Before(chain, k)
      /\ chain \in Seq(rows) /\ Len(chain) = n
  BY DEF SoundChain, Before
<1>2. r.record_hash # r.prev_hash
  BY <1>1, StoredVerifies, HashesDiffer
<1>3. /\ k + 1 \in 1 .. n /\ (k + 1) - 1 = k /\ k + 1 # 1
  OBVIOUS
<1>4. chain[k + 1].seq = k + 1 /\ chain[k + 1].prev_hash = r.record_hash
  BY <1>3 DEF SoundChain
<1>5. /\ DOMAIN other = 1 .. (n - 1) /\ other[k] = chain[k + 1]
      /\ \A l \in 1 .. n : l < k => other[l] = chain[l]
  <2> DEFINE a == SubSeq(chain, 1, k - 1)
             b == SubSeq(chain, k + 1, n)
  <2>1. a \in Seq(rows) /\ Len(a) = k - 1 /\ \A l \in 1 .. (k - 1) : a[l] = chain[l]
    BY <1>1
  <2>2. b \in Seq(rows) /\ Len(b) = n - k /\ \A l \in 1 .. (n - k) : b[l] = chain[k + l]
    BY <1>1
  <2>3. other = a \o b
    BY <1>1 DEF RemoveAt
  <2> HIDE DEF a, b, other
  <2>4. /\ a \o b \in Seq(rows) /\ Len(a \o b) = Len(a) + Len(b)
        /\ \A l \in 1 .. Len(a) + Len(b) : (a \o b)[l] = IF l <= Len(a) THEN a[l] ELSE b[l - Len(a)]
    BY <2>1, <2>2, ConcatProperties
  <2>5. Len(other) = n - 1 /\ other \in Seq(rows)
    BY <2>1, <2>2, <2>3, <2>4
  <2>9. \A l \in 1 .. (k - 1) + (n - k) : other[l] = IF l <= k - 1 THEN a[l] ELSE b[l - (k - 1)]
    BY <2>1, <2>2, <2>3, <2>4
  <2>6. other[k] = chain[k + 1]
    <3>1. k - (k - 1) = 1 /\ 1 \in 1 .. (n - k) /\ k \in 1 .. (k - 1) + (n - k) /\ ~ (k <= k - 1)
      OBVIOUS
    <3>2. other[k] = b[1]
      BY <2>9, <3>1
    <3> QED BY <2>2, <3>1, <3>2
  <2>7. ASSUME NEW l \in 1 .. n, l < k PROVE other[l] = chain[l]
    <3>1. l \in 1 .. (k - 1) /\ l \in 1 .. (k - 1) + (n - k) /\ l <= k - 1
      BY <2>7
    <3>2. other[l] = a[l]
      BY <2>9, <3>1
    <3> QED BY <2>1, <3>1, <3>2
  <2>8. DOMAIN other = 1 .. (n - 1)
    BY ONLY <2>5
  <2> QED BY <2>6, <2>7, <2>8
<1> HIDE DEF other, r
<1>6. Before(other, k) = r.prev_hash
  <2>1. CASE k = 1
    BY <1>1, <2>1 DEF Before
  <2>2. CASE k # 1
    <3>1. k - 1 \in 1 .. n /\ k - 1 < k
      BY <2>2
    <3>2. other[k - 1] = chain[k - 1]
      BY <1>5, <3>1
    <3> QED BY <1>1, <2>2, <3>2 DEF Before
  <2> QED BY <2>1, <2>2
<1>7. other[k].prev_hash # Before(other, k)
  BY <1>2, <1>4, <1>5, <1>6
<1>8. other[k].seq = k + 1 /\ other[k].seq > from /\ other[k].seq <= to
  BY <1>4, <1>5
<1>9. PICK m \in Nat : m = n - 1 /\ k <= m
  BY <1>3
<1>10. /\ \A l \in 1 .. n : l < k => other[l] = chain[l]
       /\ other[k].prev_hash # Before(other, k) \/ ~ VerifyRow(other[k])
       /\ DOMAIN other = 1 .. m
  BY <1>5, <1>7, <1>9
<1>11. VerifyChain(other, from, to) = other[k].seq
  BY <1>8, <1>9, <1>10, DamageIsFound
<1> QED BY <1>8, <1>11 DEF other

\* What a record becomes that is rewritten together with its hashes
LEMMA RewrittenIs ==
  ASSUME NEW r, IsRecord(r), HashedAs(r, "canonical"), r.form = "canonical",
         NEW bad \in Rewritten(r), bad # r
  PROVE  /\ VerifyRow(bad) /\ bad.seq = r.seq /\ bad.prev_hash = r.prev_hash
         /\ bad.record_hash # r.record_hash
<1> DEFINE changed(c) == [r EXCEPT !.content = c, !.content_hash.content = c]
<1>1. PICK c \in Content : bad = [changed(c) EXCEPT !.record_hash = RecordHash(changed(c))]
  BY DEF Rewritten
<1>2. DOMAIN r = Fields /\ r = [f \in Fields |-> r[f]]
  BY DEF IsRecord, IsDraft
<1>3. r.content_hash = [content |-> r.content, form |-> "canonical"]
  BY DEF HashedAs
<1> DEFINE one == [r EXCEPT !.content = c]
           two == [one EXCEPT !.content_hash = [r.content_hash EXCEPT !.content = c]]
           three == [two EXCEPT !.record_hash = RecordHash(two)]
<1>4. /\ DOMAIN one = Fields /\ one.content = c /\ one.id = r.id /\ one.tenant = r.tenant
      /\ one.form = r.form /\ one.seq = r.seq /\ one.prev_hash = r.prev_hash
      /\ one.content_hash = r.content_hash /\ one.record_hash = r.record_hash
  BY <1>2 DEF Fields
<1>5. changed(c) = two
  BY <1>4
<1> HIDE DEF changed
<1>6. c = r.content => one = r
  BY <1>2
<1> HIDE DEF one
<1>7. /\ DOMAIN two = Fields /\ two.content = c /\ two.id = r.id /\ two.tenant = r.tenant
      /\ two.form = r.form /\ two.seq = r.seq /\ two.prev_hash = r.prev_hash
      /\ two.content_hash = [content |-> c, form |-> "canonical"] /\ two.record_hash = r.record_hash
  BY <1>3, <1>4 DEF Fields
<1>8. c = r.content => two = r
  <2> SUFFICES ASSUME c = r.content PROVE two = r
    OBVIOUS
  <2>1. one = r
    BY <1>6
  <2>2. [r.content_hash EXCEPT !.content = c] = r.content_hash
    BY <1>3
  <2>3. two = [r EXCEPT !.content_hash = r.content_hash]
    BY <2>1, <2>2
  <2> QED BY <1>2, <2>3
<1> HIDE DEF two
<1>9. /\ three.content = c /\ three.id = r.id /\ three.tenant = r.tenant
      /\ three.form = r.form /\ three.seq = r.seq /\ three.prev_hash = r.prev_hash
      /\ three.content_hash = [content |-> c, form |-> "canonical"]
      /\ three.record_hash = RecordHash(two)
  BY <1>7 DEF Fields
<1>10. RecordHash(r) = r.record_hash
  BY DEF RecordHash, Body, HashedAs
<1>11. c = r.content => three = r
  <2> SUFFICES ASSUME c = r.content PROVE three = r
    OBVIOUS
  <2>1. two = r
    BY <1>8
  <2>2. three = [r EXCEPT !.record_hash = r.record_hash]
    BY <1>10, <2>1
  <2> QED BY <1>2, <2>2
<1>12. bad = three
  BY <1>1, <1>5
<1> HIDE DEF three
<1>13. c # r.content
  BY <1>11, <1>12
<1>14. VerifyRow(bad)
  BY <1>7, <1>9, <1>12 DEF VerifyRow, ContentHash, RecordHash, Body
<1>15. bad.record_hash # r.record_hash
  <2> DEFINE new == Body(two)
             old == Body(r)
  <2>1. new.content = c /\ old.content = r.content
    BY <1>7 DEF Body
  <2> HIDE DEF new, old
  <2>2. new # old
    BY <1>13, <2>1
  <2>3. bad.record_hash = Append(r.prev_hash, new)
    BY <1>7, <1>9, <1>12 DEF RecordHash, new
  <2>4. r.record_hash = Append(r.prev_hash, old)
    BY <1>10 DEF RecordHash, old
  <2>5. PICK S : r.prev_hash \in Seq(S)
    BY DEF IsRecord, Hash
  <2>6. r.prev_hash \in Seq(S \cup {new, old})
    BY <2>5, SeqMonotonic
  <2>7. /\ Append(r.prev_hash, new)[Len(r.prev_hash) + 1] = new
        /\ Append(r.prev_hash, old)[Len(r.prev_hash) + 1] = old
    BY <2>6, AppendProperties
  <2> QED BY <2>2, <2>3, <2>4, <2>7
<1> QED BY <1>9, <1>12, <1>14, <1>15

LEMMA RewrittenIsFound ==
  ASSUME RowsOK(rows), Form = {"canonical"}, NEW n \in Nat, NEW chain, SoundChain(chain, n),
         NEW k \in 1 .. n, NEW from \in 0 .. k - 1, NEW to \in k .. n, k < to,
         NEW bad \in Rewritten(chain[k]), bad # chain[k]
  PROVE  VerifyChain([chain EXCEPT ![k] = bad], from, to) = k + 1
<1> DEFINE r == chain[k]
           other == [chain EXCEPT ![k] = bad]
<1>1. /\ r \in rows /\ r.seq = k /\ r.prev_hash = Before(chain, k)
      /\ chain \in Seq(rows) /\ DOMAIN chain = 1 .. n
  BY DEF SoundChain, Before
<1>2. IsRecord(r) /\ HashedAs(r, "canonical") /\ r.form = "canonical"
  BY <1>1, StoredVerifies
<1>3. DOMAIN other = 1 .. n /\ other[k] = bad /\ \A l \in 1 .. n : l # k => other[l] = chain[l]
  BY <1>1
<1>4. /\ k + 1 \in 1 .. n /\ (k + 1) - 1 = k /\ k + 1 # 1 /\ k + 1 # k /\ k + 1 > from /\ k + 1 <= to
  OBVIOUS
<1>5. /\ other[k + 1] = chain[k + 1] /\ chain[k + 1].seq = k + 1
      /\ chain[k + 1].prev_hash = r.record_hash
  BY <1>3, <1>4 DEF SoundChain
<1>6. /\ VerifyRow(bad) /\ bad.seq = r.seq /\ bad.prev_hash = r.prev_hash
      /\ bad.record_hash # r.record_hash
  BY <1>2, RewrittenIs
<1>7. Before(other, k) = Before(chain, k)
  BY <1>3 DEF Before
<1> HIDE DEF other, r
<1>8. k + 1 \in Broken(other, from, to)
  <2>1. Before(other, k + 1) = bad.record_hash
    BY <1>3, <1>4 DEF Before
  <2> QED BY <1>3, <1>4, <1>5, <1>6, <2>1 DEF Broken, Before
<1>9. k \notin Broken(other, from, to)
  BY <1>1, <1>3, <1>6, <1>7 DEF Broken, Before
<1>10. ASSUME NEW l \in 1 .. n, l < k + 1 PROVE l \notin Broken(other, from, to)
  <2>1. l = k \/ l < k
    BY <1>10
  <2>2. CASE l < k
    BY <1>3, <2>2, SoundBefore
  <2> QED BY <1>9, <2>1, <2>2
<1>11. VerifyChain(other, from, to) = other[k + 1].seq
  BY <1>3, <1>8, <1>10, FirstBroken
<1> QED BY <1>5, <1>11 DEF other

\* What CorruptionIsLocated says of place k of a chain
LocatedAt(chain, k, from, to) ==
  /\ \A bad \in Altered(chain[k]) \ {chain[k]} :
       VerifyChain([chain EXCEPT ![k] = bad], from, to) = k
  /\ k < to =>
       /\ VerifyChain(RemoveAt(chain, k), from, to) = k + 1
       /\ \A bad \in Rewritten(chain[k]) \ {chain[k]} :
            VerifyChain([chain EXCEPT ![k] = bad], from, to) = k + 1

LEMMA DamageIsLocated ==
  ASSUME RowsOK(rows), Form = {"canonical"}, NEW n \in Nat, NEW chain, SoundChain(chain, n),
         NEW k \in 1 .. n, NEW from \in 0 .. k - 1, NEW to \in k .. n
  PROVE  LocatedAt(chain, k, from, to)
<1>1. ASSUME NEW bad \in Altered(chain[k]), bad # chain[k]
      PROVE  VerifyChain([chain EXCEPT ![k] = bad], from, to) = k
  BY <1>1, AlteredIsFound
<1>2. k < to => VerifyChain(RemoveAt(chain, k), from, to) = k + 1
  BY LostIsFound
<1>3. ASSUME k < to, NEW bad \in Rewritten(chain[k]), bad # chain[k]
      PROVE  VerifyChain([chain EXCEPT ![k] = bad], from, to) = k + 1
  BY <1>3, RewrittenIsFound
<1> QED BY <1>1, <1>2, <1>3 DEF LocatedAt

LEMMA IInvLocated == ASSUME Form = {"canonical"} PROVE IInv => CorruptionIsLocated
<1>1. ASSUME IInv, NEW t \in Tenant, NEW k \in DOMAIN Chain(t), NEW from \in 0 .. k - 1,
             NEW to \in k .. Len(Chain(t))
      PROVE  LocatedAt(Chain(t), k, from, to)
  <2>1. RowsOK(rows)
    BY <1>1 DEF IInv
  <2>2. PICK n \in Nat : SoundChain(Chain(t), n)
    BY <2>1, ChainIsSound
  <2>3. k \in 1 .. n /\ from \in 0 .. k - 1 /\ to \in k .. n
    BY <2>2 DEF SoundChain
  <2> QED BY <2>1, <2>2, <2>3, DamageIsLocated
<1> QED BY <1>1, Zenon DEF CorruptionIsLocated, LocatedAt

(***************************************************************************)
(* FR-5, FR-6, FR-8, D3, for any writers, tenants and records, where the   *)
(* database gives every value back as it was spelt: chains are linked      *)
(* without a gap, what was added verifies over any range and in every      *)
(* package, and a single damage is reported at its place.                  *)
(***************************************************************************)
THEOREM ChainsAreSoundTheorem ==
  ASSUME Form = {"canonical"}
  PROVE  Spec => []ChainsAreSound
<1>1. IInv => ChainsAreSound
  BY IInvTypes, IInvTail, IInvVerify, IInvLocated DEF ChainsAreSound
<1> QED BY <1>1, EvidenceInductive, PTL

-----------------------------------------------------------------------------
(* The transactions implement the ledger                                   *)

ChainsOf(rs)   == [t \in Tenant |-> Observed(InOrder(Of(rs, t)))]
PackagesOf(ps) == [k \in DOMAIN ps |-> ps[k].ids]

\* The variables of the ledger
LEMMA LedgerVars ==
  /\ [t \in Tenant |-> Observed(Chain(t))] = ChainsOf(rows)
  /\ [t \in Tenant |-> Observed(Chain(t))]' = ChainsOf(rows')
  /\ [k \in DOMAIN packages |-> packages[k].ids] = PackagesOf(packages)
  /\ [k \in DOMAIN packages |-> packages[k].ids]' = PackagesOf(packages')
BY DEF ChainsOf, PackagesOf, Chain, Of

LEMMA LoggedInLedger ==
  /\ \A ids, action : Ledger!Logged(ids, action) = Logged(ids, action)
  /\ Ledger!Id = Id
<1>1. Ledger!Id = Id
  BY DEF Ledger!Id, Id
<1>2. ASSUME NEW ids, NEW action PROVE Ledger!Logged(ids, action) = Logged(ids, action)
  <2>1. \A id : Ledger!Mentions(ids, id) = Mentions(ids, id)
    BY DEF Ledger!Mentions, Mentions, Ledger!Cardinality, Cardinality
  <2> QED BY <1>1, <2>1 DEF Ledger!Logged, Logged
<1> QED BY <1>1, <1>2

LEMMA LedgerStutters ==
  ASSUME UNCHANGED table
  PROVE  UNCHANGED Ledger!vars
<1>1. rows' = rows /\ custody' = custody /\ packages' = packages
  BY DEF table
<1>2. ChainsOf(rows') = ChainsOf(rows) /\ PackagesOf(packages') = PackagesOf(packages)
  BY <1>1
<1> QED BY <1>1, <1>2, LedgerVars DEF Ledger!vars

LEMMA LedgerInit == Init => Ledger!Init
<1> SUFFICES ASSUME Init PROVE Ledger!Init
  OBVIOUS
<1>1. ASSUME NEW t \in Tenant PROVE Observed(InOrder(Of(rows, t))) = <<>>
  <2>1. Dense(Of(rows, t), 0)
    BY DEF Init, Of, Dense
  <2>2. InOrder(Of(rows, t)) = <<>>
    BY <2>1, InOrderIs
  <2> QED BY <2>2 DEF Observed
<1>2. ChainsOf(rows) = [t \in Tenant |-> <<>>]
  BY <1>1 DEF ChainsOf
<1>3. PackagesOf(packages) = <<>>
  BY DEF Init, PackagesOf
<1> QED BY <1>2, <1>3, LedgerVars DEF Ledger!Init, Init, Ledger!Id, Id, Ledger!Access, Access

\* A record that the ledger shows
LEMMA FoundIsRecorded ==
  ASSUME RowsOK(rows), NEW id, FoundIn(rows, id)
  PROVE  RowIn(rows, id).tenant \in Tenant /\ id \in Ledger!Recorded(RowIn(rows, id).tenant)
<1> DEFINE r == RowIn(rows, id)
           t == r.tenant
           chain == InOrder(Of(rows, t))
<1>1. r \in rows /\ r.id = id
  BY RowInIs
<1>2. t \in Tenant /\ r \in Of(rows, t)
  BY <1>1 DEF RowsOK, IsRecord, IsDraft, Of
<1>3. PICK n \in Nat : Dense(Of(rows, t), n)
  BY <1>2 DEF RowsOK
<1>4. r.seq \in DOMAIN chain /\ chain[r.seq] = r
  BY <1>2, <1>3, InOrderIs
<1>5. ChainsOf(rows)[t] = Observed(chain)
  BY <1>2 DEF ChainsOf
<1> HIDE DEF chain, r
<1>6. r.seq \in DOMAIN Observed(chain) /\ Observed(chain)[r.seq].id = id
  BY <1>1, <1>4 DEF Observed
<1>7. id \in {ChainsOf(rows)[t][k].id : k \in DOMAIN ChainsOf(rows)[t]}
  BY <1>5, <1>6
<1>8. Ledger!Recorded(t) = {ChainsOf(rows)[t][k].id : k \in DOMAIN ChainsOf(rows)[t]}
  BY LedgerVars DEF Ledger!Recorded
<1> QED BY <1>2, <1>7, <1>8 DEF r

LEMMA AddImplementsAdd ==
  ASSUME IInv, NEW c \in Task, AddCommit(c)
  PROVE  Ledger!Next
<1> DEFINE row == Stored(call[c].row)
           t   == row.tenant
           old == InOrder(Of(rows, t))
           entry == [id |-> row.id, content |-> row.content]
<1>1. /\ IsRecord(row) /\ row.id = call[c].row.id /\ ~ FoundIn(rows, row.id)
      /\ rows' = rows \cup {row}
      /\ \A u \in Tenant \ {row.tenant} : Of(rows \cup {row}, u) = Of(rows, u)
      /\ InOrder(Of(rows \cup {row}, t)) = Append(old, row)
  BY CommittedRows
<1>2. t \in Tenant /\ row.id \in Id /\ row.content \in Content
  BY <1>1 DEF IsRecord, IsDraft
<1>3. custody[row.id] = NoCustody
  BY <1>1, <1>2 DEF IInv, CustodyOK
<1>4. custody' = Logged(<<row.id>>, "intake") /\ packages' = packages
  BY <1>1 DEF AddCommit
<1> HIDE DEF row
<1>5. Observed(Append(old, row)) = Append(Observed(old), entry)
  <2>1. PICK n \in Nat : Dense(Of(rows, t), n)
    BY <1>2 DEF IInv, RowsOK
  <2>2. old \in [1 .. n -> Of(rows, t)]
    BY <2>1, InOrderIs
  <2> HIDE DEF old
  <2> DEFINE S == Of(rows, t) \cup {row}
             seen == [k \in 1 .. n |-> [id |-> old[k].id, content |-> old[k].content]]
             E == {seen[k] : k \in 1 .. n} \cup {entry}
  <2>3. old \in Seq(S) /\ Len(old) = n
    BY <2>2
  <2>4. /\ Append(old, row) \in Seq(S) /\ Len(Append(old, row)) = n + 1
        /\ \A k \in 1 .. n : Append(old, row)[k] = old[k]
        /\ Append(old, row)[n + 1] = row
    BY <2>3, AppendProperties
  <2>5. Observed(old) = seen /\ seen \in Seq(E) /\ Len(seen) = n
    BY <2>3 DEF Observed
  <2> HIDE DEF S
  <2> DEFINE more == Observed(Append(old, row))
  <2>6. /\ DOMAIN more = 1 .. (n + 1) /\ more[n + 1] = entry
        /\ \A k \in 1 .. n : more[k] = seen[k]
    BY <2>4 DEF Observed
  <2>7. more = [k \in DOMAIN more |-> more[k]]
    BY DEF Observed
  <2> HIDE DEF more, seen, entry
  <2>8. \A k \in 1 .. (n + 1) : more[k] \in E
    <3>1. \A k \in 1 .. (n + 1) : k \in 1 .. n \/ k = n + 1
      OBVIOUS
    <3> QED BY <2>6, <3>1
  <2>9. more \in Seq(E) /\ Len(more) = n + 1
    <3>1. more \in [1 .. (n + 1) -> E]
      BY <2>6, <2>7, <2>8
    <3> QED BY <3>1
  <2> HIDE DEF E
  <2>10. entry \in E
    BY DEF E
  <2>11. /\ Append(seen, entry) \in Seq(E) /\ Len(Append(seen, entry)) = n + 1
         /\ \A k \in 1 .. n : Append(seen, entry)[k] = seen[k]
         /\ Append(seen, entry)[n + 1] = entry
    BY <2>5, <2>10, AppendProperties
  <2>12. \A k \in 1 .. (n + 1) : more[k] = Append(seen, entry)[k]
    <3>1. \A k \in 1 .. (n + 1) : k \in 1 .. n \/ k = n + 1
      OBVIOUS
    <3> QED BY <2>6, <2>11, <3>1
  <2>13. more = Append(seen, entry)
    BY <2>9, <2>11, <2>12, SeqEqual
  <2> QED BY <2>5, <2>13 DEF more
<1>6. ChainsOf(rows') = [ChainsOf(rows) EXCEPT ![t] = Append(ChainsOf(rows)[t], entry)]
  <2>1. ChainsOf(rows)[t] = Observed(old)
    BY <1>2 DEF ChainsOf
  <2>2. ASSUME NEW u \in Tenant
        PROVE  ChainsOf(rows')[u] = IF u = t THEN Append(ChainsOf(rows)[t], entry) ELSE ChainsOf(rows)[u]
    BY <1>1, <1>5, <2>1 DEF ChainsOf
  <2>3. DOMAIN ChainsOf(rows) = Tenant /\ ChainsOf(rows') = [u \in Tenant |-> ChainsOf(rows')[u]]
    BY DEF ChainsOf
  <2> QED BY <2>2, <2>3
<1>7. Ledger!Add(t, row.id, row.content)
  <2>1. custody[row.id] = [a \in Ledger!Access |-> 0]
    BY <1>3 DEF NoCustody, Ledger!Access, Access
  <2>2. custody' = Ledger!Logged(<<row.id>>, "intake")
    BY <1>4, LoggedInLedger
  <2>3. PackagesOf(packages') = PackagesOf(packages)
    BY <1>4
  <2> QED BY <1>6, <2>1, <2>2, <2>3, LedgerVars DEF Ledger!Add
<1>8. row.id \in Ledger!Id
  BY <1>2, LoggedInLedger
<1> QED BY <1>2, <1>7, <1>8 DEF Ledger!Next

LEMMA GetImplementsGet ==
  ASSUME IInv, NEW c \in Task, GetCustody(c)
  PROVE  Ledger!Next
<1>1. PICK id \in Id : call[c].ids = <<id>> /\ FoundIn(rows, id)
  BY CallShape DEF GetCustody, CallOK
<1>2. \E t \in Tenant : id \in Ledger!Recorded(t)
  BY <1>1, FoundIsRecorded DEF IInv
<1>3. custody' = Ledger!Logged(<<id>>, "read")
  BY <1>1, LoggedInLedger DEF GetCustody
<1>4. ChainsOf(rows') = ChainsOf(rows) /\ PackagesOf(packages') = PackagesOf(packages)
  BY DEF GetCustody
<1>5. Ledger!Get(id)
  BY <1>2, <1>3, <1>4, LedgerVars DEF Ledger!Get
<1>6. id \in Ledger!Id
  BY LoggedInLedger
<1> QED BY <1>5, <1>6 DEF Ledger!Next

LEMMA PackageImplementsPackage ==
  ASSUME IInv, NEW c \in Task, PackageCommit(c)
  PROVE  Ledger!Next
<1>0. PICK ids : ids = call[c].ids
  OBVIOUS
<1> DEFINE pack == [ids |-> ids, manifest |-> Manifest(ids)]
<1>1. /\ rows' = rows /\ packages' = Append(packages, pack) /\ custody' = Logged(ids, "package")
      /\ call[c].pc = "package" /\ call[c].i > Len(ids)
  BY <1>0 DEF PackageCommit
<1>2. ids \in PackageLists /\ call[c].i \in Nat
  BY <1>0, <1>1, CallShape DEF CallOK
<1>3. ids \in Seq(Id) /\ Len(ids) \in Nat
  BY <1>2, EvidenceAssumption DEF Id
<1>4. /\ \A j \in 1 .. Len(ids) : FoundIn(rows, ids[j])
      /\ \A j, l \in 1 .. Len(ids) : RowIn(rows, ids[j]).tenant = RowIn(rows, ids[l]).tenant
  <2>1. \A j \in 1 .. Len(ids) : j < call[c].i
    BY <1>1, <1>2, <1>3
  <2> QED BY <1>0, <1>1, <2>1, CallShape DEF CallOK
<1>5. \E t \in Tenant : ToSet(ids) \subseteq Ledger!Recorded(t)
  <2>1. CASE Len(ids) = 0
    <3>1. ToSet(ids) = {}
      BY <1>3, <2>1 DEF ToSet
    <3> QED BY <3>1, EvidenceAssumption
  <2>2. CASE Len(ids) # 0
    <3> DEFINE t == RowIn(rows, ids[1]).tenant
    <3>1. 1 \in 1 .. Len(ids)
      BY <1>3, <2>2
    <3>2. t \in Tenant
      BY <1>4, <3>1, FoundIsRecorded DEF IInv
    <3>3. ASSUME NEW j \in 1 .. Len(ids) PROVE ids[j] \in Ledger!Recorded(t)
      <4>1. ids[j] \in Ledger!Recorded(RowIn(rows, ids[j]).tenant)
        BY <1>4, FoundIsRecorded DEF IInv
      <4>2. RowIn(rows, ids[j]).tenant = t
        BY <1>4, <3>1
      <4> QED BY <4>1, <4>2
    <3> HIDE DEF t
    <3>4. ToSet(ids) \subseteq Ledger!Recorded(t)
      BY <1>3, <3>3 DEF ToSet
    <3> QED BY <3>2, <3>4
  <2> QED BY <2>1, <2>2
<1>6. PackagesOf(packages') = Append(PackagesOf(packages), ids)
  <2>1. packages \in Seq(PackageRow)
    BY DEF IInv, PackagesOK
  <2>2. /\ Len(packages') = Len(packages) + 1 /\ DOMAIN packages' = 1 .. (Len(packages) + 1)
        /\ \A k \in 1 .. Len(packages) : packages'[k] = packages[k]
        /\ packages'[Len(packages) + 1] = pack
    <3>1. packages \in Seq(PackageRow \cup {pack})
      BY <2>1, SeqMonotonic
    <3>2. packages' \in Seq(PackageRow \cup {pack})
      BY <1>1, <3>1, AppendProperties
    <3> QED BY <1>1, <3>1, <3>2, AppendProperties
  <2>3. pack.ids = ids
    OBVIOUS
  <2> HIDE DEF pack
  <2> DEFINE before == PackagesOf(packages)
             after  == PackagesOf(packages')
             n == Len(packages)
  <2>4. n \in Nat /\ DOMAIN packages = 1 .. n
    BY <2>1
  <2>5. \A k \in 1 .. n : packages[k].ids \in PackageLists
    <3>1. \A k \in 1 .. n : packages[k] \in PackageRow
      BY <2>1
    <3> QED BY <3>1 DEF PackageRow
  <2>6. before \in Seq(PackageLists) /\ Len(before) = n /\ \A k \in 1 .. n : before[k] = packages[k].ids
    BY <2>4, <2>5 DEF PackagesOf
  <2>7. /\ after = [k \in 1 .. (n + 1) |-> packages'[k].ids]
        /\ \A k \in 1 .. (n + 1) : packages'[k].ids \in PackageLists
    <3>1. \A k \in 1 .. (n + 1) : k \in 1 .. n \/ k = n + 1
      BY <2>4
    <3> QED BY <1>2, <2>2, <2>3, <2>5, <3>1 DEF PackagesOf
  <2> HIDE DEF before, n
  <2>8. after \in Seq(PackageLists) /\ Len(after) = n + 1
    BY <2>4, <2>7
  <2>9. /\ Append(before, ids) \in Seq(PackageLists) /\ Len(Append(before, ids)) = n + 1
        /\ \A k \in 1 .. n : Append(before, ids)[k] = before[k]
        /\ Append(before, ids)[n + 1] = ids
    BY <1>2, <2>6, AppendProperties
  <2>10. ASSUME NEW k \in 1 .. (n + 1) PROVE after[k] = Append(before, ids)[k]
    <3>1. k \in 1 .. n \/ k = n + 1
      BY <2>4
    <3>2. after[k] = packages'[k].ids
      BY <2>7
    <3> QED BY <2>2, <2>3, <2>6, <2>9, <3>1, <3>2 DEF n
  <2> HIDE DEF after
  <2>11. after = Append(before, ids)
    BY <2>8, <2>9, <2>10, SeqEqual
  <2> QED BY <2>11 DEF after, before
<1>7. custody' = Ledger!Logged(ids, "package")
  BY <1>1, LoggedInLedger
<1>8. ChainsOf(rows') = ChainsOf(rows)
  BY <1>1
<1>9. Ledger!Package(ids)
  BY <1>5, <1>6, <1>7, <1>8, LedgerVars DEF Ledger!Package, Ledger!ToSet, ToSet
<1>10. ids \in Ledger!NewPackages
  <2>1. PackagesOf(packages) \in Seq(PackageLists)
    <3>1. packages \in Seq(PackageRow)
      BY DEF IInv, PackagesOK
    <3>2. \A k \in DOMAIN packages : packages[k].ids \in PackageLists
      <4>1. \A k \in DOMAIN packages : packages[k] \in PackageRow
        BY <3>1
      <4> QED BY <4>1 DEF PackageRow
    <3> QED BY <3>1, <3>2 DEF PackagesOf
  <2>2. \E k \in DOMAIN PackagesOf(packages') : PackagesOf(packages')[k] = ids
    BY <1>2, <1>6, <2>1, AppendProperties
  <2> QED BY <2>2, LedgerVars DEF Ledger!NewPackages
<1> QED BY <1>9, <1>10 DEF Ledger!Next

LEMMA LedgerStep == IInv /\ [Next]_vars => [Ledger!Next]_(Ledger!vars)
<1> SUFFICES ASSUME IInv, [Next]_vars PROVE Ledger!Next \/ UNCHANGED Ledger!vars
  OBVIOUS
<1>1. CASE UNCHANGED vars
  BY <1>1, LedgerStutters DEF vars, table
<1>2. ASSUME NEW c \in Task, Ask(c) \/ AddLock(c) \/ Rollback(c)
      PROVE  UNCHANGED table
  BY <1>2 DEF Ask, AddLock, Rollback, AddBegin, GetSelect, PackageBegin
<1>3. ASSUME NEW c \in Task, Continue(c)
      PROVE  Ledger!Next \/ UNCHANGED Ledger!vars
  <2>1. CASE AddTail(c) \/ AddInsert(c) \/ AddPublished(c) \/ PackageSelect(c) \/ PackageRefused(c)
    <3>1. UNCHANGED table
      BY <2>1 DEF AddTail, AddInsert, AddPublished, PackageSelect, PackageRefused
    <3> QED BY <3>1, LedgerStutters
  <2>2. CASE AddCommit(c)
    BY <2>2, AddImplementsAdd
  <2>3. CASE GetCustody(c)
    BY <2>3, GetImplementsGet
  <2>4. CASE PackageCommit(c)
    BY <2>4, PackageImplementsPackage
  <2> QED BY <1>3, <2>1, <2>2, <2>3, <2>4 DEF Continue
<1> QED BY <1>1, <1>2, <1>3, LedgerStutters DEF Next

(***************************************************************************)
(* NFR-4, D1, D6 for any writers, and any spelling of values: a record     *)
(* appears at the end of its chain at once with its intake, nothing is     *)
(* ever changed or removed, and every access that succeeds is in custody.  *)
(***************************************************************************)
THEOREM TransactionsImplementLedger == Spec => ImplementsLedger
<1>1. Init => Ledger!Init
  BY LedgerInit
<1>2. IInv /\ [Next]_vars => [Ledger!Next]_(Ledger!vars)
  BY LedgerStep
<1> QED BY <1>1, <1>2, EvidenceInductive, PTL DEF Spec, ImplementsLedger, Ledger!Spec
=============================================================================
