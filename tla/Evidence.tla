------------------------------- MODULE Evidence -------------------------------
(***************************************************************************)
(* PostgresEvidenceStore (evidence/postgres.py): the hash-chained ledger   *)
(* of each tenant, written by tasks of one or several processes.  add()    *)
(* is a READ COMMITTED transaction under an advisory lock; get() and       *)
(* package() read and log without it.  An action is one statement; what a  *)
(* transaction wrote is seen by others when it commits.                    *)
(*                                                                         *)
(* SHA-256 has no collisions here: the hash of a record is the sequence of *)
(* all that went into it, its own fields and the hash before it.           *)
(***************************************************************************)
EXTENDS Naturals, Sequences, FiniteSets, SequencesExt

CONSTANTS
  Task,         \* coroutines that use the store
  Tenant,       \* the partitions, the local one (tenant_id None) among them
  Lock,         \* keys of advisory locks
  LockOf,       \* hashtext of the tenant: two tenants may share a key
  None,         \* holder of a free lock
  Content,      \* what a record observes
  Form,         \* how its numbers and timestamps are spelt
  PackageLists, \* the lists of ids that are packaged
  MaxCalls,     \* bound: calls begun, each of which takes one id at most
  MaxFaults     \* bound: connections lost

ASSUME EvidenceAssumption ==
  /\ Tenant # {}
  /\ LockOf \in [Tenant -> Lock]
  /\ None \notin Task
  /\ "canonical" \in Form
  /\ PackageLists \subseteq Seq(1 .. MaxCalls)
  /\ MaxCalls \in Nat /\ MaxFaults \in Nat

VARIABLES
  rows,      \* table aq_evidence, as committed
  custody,   \* table aq_evidence_custody: the rows about each record, by action
  packages,  \* table aq_evidence_package, as committed
  locks,     \* the holder of each advisory lock
  call,      \* what each task is doing
  nextId,    \* the next new_id
  begun,     \* calls begun
  faults     \* connections lost

table == <<rows, custody, packages>>
vars  == <<rows, custody, packages, locks, call, nextId, begun, faults>>

Id     == 1 .. MaxCalls
Access == {"intake", "read", "package"}

-----------------------------------------------------------------------------
(* Records and hashes *)

ContentHash(r) == [content |-> r.content, form |-> r.form]

\* The fields of a record that its hash covers, but for prev_hash
Body(r) == [id |-> r.id, tenant |-> r.tenant, content |-> r.content, form |-> r.form,
            seq |-> r.seq, content_hash |-> r.content_hash]

\* compute_record_hash
RecordHash(r) == Append(r.prev_hash, Body(r))

(* What the database gives back: jsonb and timestamptz keep values, not     *)
(* spellings.  1e16 is read back as an integer, +02:00 as UTC.              *)
Stored(r) == [r EXCEPT !.form = "canonical"]

NoRow == [id |-> 0, tenant |-> CHOOSE t \in Tenant : TRUE,
          content |-> CHOOSE c \in Content : TRUE, form |-> "canonical", seq |-> 0,
          prev_hash |-> <<>>, content_hash |-> <<>>, record_hash |-> <<>>]

NoCall == [pc |-> "idle", row |-> NoRow, ids |-> <<>>, i |-> 0]

\* Rows in the order of seq
InOrder(some) ==
  [k \in 1 .. Cardinality(some) |->
     CHOOSE r \in some : Cardinality({q \in some : q.seq < r.seq}) = k - 1]

\* The chain of a tenant
Chain(t) == InOrder({r \in rows : r.tenant = t})

\* seq and record_hash of the newest record of the tenant
TailOf(t) ==
  IF Chain(t) = <<>> THEN [seq |-> 0, record_hash |-> <<>>] ELSE Last(Chain(t))

\* Among these rows, those with its primary key or its place in the chain
Clash(row, among) ==
  {r \in among : r.id = row.id \/ (r.tenant = row.tenant /\ r.seq = row.seq)}

Uncommitted == {call[c].row : c \in {d \in Task : call[d].pc = "commit"}}

Found(id)    == \E r \in rows : r.id = id
RowOf(id)    == CHOOSE r \in rows : r.id = id

\* How often a sequence mentions the id
Mentions(ids, id) == Cardinality({k \in DOMAIN ids : ids[k] = id})

Logged(ids, action) ==
  [id \in Id |-> [custody[id] EXCEPT ![action] = @ + Mentions(ids, id)]]

Init ==
  /\ rows = {}
  /\ custody = [id \in Id |-> [a \in Access |-> 0]]
  /\ packages = <<>>
  /\ locks = [l \in Lock |-> None]
  /\ call = [c \in Task |-> NoCall]
  /\ nextId = 1
  /\ begun = 0
  /\ faults = 0

Begin(c, next) ==
  /\ call[c].pc = "idle"
  /\ begun < MaxCalls
  /\ begun' = begun + 1
  /\ call' = [call EXCEPT ![c] = next]

Ended(c) == [call EXCEPT ![c] = NoCall]

\* The lock goes with the transaction.
Released(c) == [l \in Lock |-> IF locks[l] = c THEN None ELSE locks[l]]

-----------------------------------------------------------------------------
(* add *)

AddBegin(c, t, content, form) ==
  /\ Begin(c, [NoCall EXCEPT !.pc = "lock",
                 !.row = [NoRow EXCEPT !.tenant = t, !.content = content, !.form = form]])
  /\ UNCHANGED <<table, locks, nextId, faults>>

\* pg_advisory_xact_lock
AddLock(c) ==
  LET l == LockOf[call[c].row.tenant] IN
  /\ call[c].pc = "lock"
  /\ locks[l] = None
  /\ locks' = [locks EXCEPT ![l] = c]
  /\ call' = [call EXCEPT ![c].pc = "tail"]
  /\ UNCHANGED <<table, nextId, begun, faults>>

\* Mutant of Chained: the record is hashed before its place is known.
Chained_HashedEarly(row, id) ==
  [row EXCEPT !.id = id,
              !.seq = TailOf(row.tenant).seq + 1,
              !.prev_hash = TailOf(row.tenant).record_hash,
              !.content_hash = ContentHash(row),
              !.record_hash = RecordHash(row)]

\* The record with the fields that the store assigns
Chained(row, id) ==
  LET base == [row EXCEPT !.id = id,
                          !.seq = TailOf(row.tenant).seq + 1,
                          !.prev_hash = TailOf(row.tenant).record_hash,
                          !.content_hash = ContentHash(row)]
  IN  [base EXCEPT !.record_hash = RecordHash(base)]

\* The tail is read, and the record that follows it built.
AddTail(c) ==
  /\ call[c].pc = "tail"
  /\ nextId' = nextId + 1
  /\ call' = [call EXCEPT ![c].pc = "insert", ![c].row = Chained(@, nextId)]
  /\ UNCHANGED <<table, locks, begun, faults>>

\* The unique indexes: an insert waits for the transaction that it may clash with.
AddInsert(c) ==
  /\ call[c].pc = "insert"
  /\ Clash(call[c].row, rows \cup Uncommitted) = {}
  /\ call' = [call EXCEPT ![c].pc = "commit"]
  /\ UNCHANGED <<table, locks, nextId, begun, faults>>

AddCommit(c) ==
  /\ call[c].pc = "commit"
  /\ rows' = rows \cup {Stored(call[c].row)}
  /\ custody' = Logged(<<call[c].row.id>>, "intake")
  /\ locks' = Released(c)
  /\ call' = [call EXCEPT ![c].pc = "publish"]
  /\ UNCHANGED <<packages, nextId, begun, faults>>

\* evidence.recorded is published, or the bus raises: the record stays.
AddPublished(c) ==
  /\ call[c].pc = "publish"
  /\ call' = Ended(c)
  /\ UNCHANGED <<table, locks, nextId, begun, faults>>

-----------------------------------------------------------------------------
(* get: the record is returned after its custody row is written *)

GetSelect(c, id) ==
  /\ Found(id)
  /\ Begin(c, [NoCall EXCEPT !.pc = "read", !.ids = <<id>>])
  /\ UNCHANGED <<table, locks, nextId, faults>>

GetCustody(c) ==
  /\ call[c].pc = "read"
  /\ custody' = Logged(call[c].ids, "read")
  /\ call' = Ended(c)
  /\ UNCHANGED <<rows, packages, locks, nextId, begun, faults>>

-----------------------------------------------------------------------------
(* package: one SELECT per member, then the package and its custody rows *)

PackageBegin(c, ids) ==
  /\ Begin(c, [NoCall EXCEPT !.pc = "package", !.ids = ids, !.i = 1])
  /\ UNCHANGED <<table, locks, nextId, faults>>

Member(c) == call[c].ids[call[c].i]

\* Mutant of Fits: members of any tenant.
Fits_AnyTenant(c) == Found(Member(c))

\* The member exists and belongs to the tenant of those before it.
Fits(c) ==
  /\ Found(Member(c))
  /\ \A k \in 1 .. call[c].i - 1 : RowOf(call[c].ids[k]).tenant = RowOf(Member(c)).tenant

PackageSelect(c) ==
  /\ call[c].pc = "package"
  /\ call[c].i <= Len(call[c].ids)
  /\ Fits(c)
  /\ call' = [call EXCEPT ![c].i = @ + 1]
  /\ UNCHANGED <<table, locks, nextId, begun, faults>>

\* EvidenceNotFound or CrossTenantReference
PackageRefused(c) ==
  /\ call[c].pc = "package"
  /\ call[c].i <= Len(call[c].ids)
  /\ ~ Fits(c)
  /\ call' = Ended(c)
  /\ UNCHANGED <<table, locks, nextId, begun, faults>>

\* manifest_hash: the sorted hashes of the members
Manifest(ids) ==
  [h \in {RowOf(id).record_hash : id \in ToSet(ids)} |->
     Cardinality({k \in DOMAIN ids : RowOf(ids[k]).record_hash = h})]

PackageCommit(c) ==
  /\ call[c].pc = "package"
  /\ call[c].i > Len(call[c].ids)
  /\ packages' = Append(packages, [ids |-> call[c].ids, manifest |-> Manifest(call[c].ids)])
  /\ custody' = Logged(call[c].ids, "package")
  /\ call' = Ended(c)
  /\ UNCHANGED <<rows, locks, nextId, begun, faults>>

-----------------------------------------------------------------------------
(* A unique index refuses the insert, or the connection is lost: what the   *)
(* transaction wrote is undone and the call raises.                         *)
Refused(c) == call[c].pc = "insert" /\ Clash(call[c].row, rows) # {}

\* Mutant of Rollback: a lock of the session, not of the transaction.
Rollback_KeepsLock(c) ==
  /\ call[c].pc \notin {"idle", "publish"}
  /\ Refused(c) \/ faults < MaxFaults
  /\ faults' = IF Refused(c) THEN faults ELSE faults + 1
  /\ call' = Ended(c)
  /\ UNCHANGED <<table, locks, nextId, begun>>

Rollback(c) ==
  /\ call[c].pc \notin {"idle", "publish"}
  /\ Refused(c) \/ faults < MaxFaults
  /\ faults' = IF Refused(c) THEN faults ELSE faults + 1
  /\ locks' = Released(c)
  /\ call' = Ended(c)
  /\ UNCHANGED <<table, nextId, begun>>

-----------------------------------------------------------------------------
(* verify, verify_chain, verify_package: they read, and change nothing.     *)
(* A chain is given as what the SELECT of its rows returns.                 *)

VerifyRow(r) ==
  /\ ContentHash(r) = r.content_hash
  /\ RecordHash(r) = r.record_hash

\* The places between from_seq and to_seq where a check fails
Broken(chain, from, to) ==
  {k \in DOMAIN chain :
     /\ chain[k].seq > from /\ chain[k].seq <= to
     /\ \/ chain[k].prev_hash # (IF k = 1 THEN <<>> ELSE chain[k - 1].record_hash)
        \/ ~ VerifyRow(chain[k])}

\* broken_at_seq, 0 when the chain is ok
VerifyChain(chain, from, to) ==
  LET broken == Broken(chain, from, to) IN
  IF broken = {} THEN 0
  ELSE chain[CHOOSE k \in broken : \A l \in broken : k <= l].seq

VerifyPackage(p) ==
  /\ \A id \in ToSet(p.ids) : VerifyRow(RowOf(id))
  /\ Manifest(p.ids) = p.manifest

-----------------------------------------------------------------------------
Ask(c) ==
  \/ \E t \in Tenant, content \in Content, form \in Form : AddBegin(c, t, content, form)
  \/ \E id \in Id : GetSelect(c, id)
  \/ \E ids \in PackageLists : PackageBegin(c, ids)

Continue(c) ==
  \/ AddTail(c) \/ AddInsert(c) \/ AddCommit(c) \/ AddPublished(c)
  \/ GetCustody(c)
  \/ PackageSelect(c) \/ PackageRefused(c) \/ PackageCommit(c)

Next == \E c \in Task : Ask(c) \/ AddLock(c) \/ Continue(c) \/ Rollback(c)

Spec == Init /\ [][Next]_vars

(***************************************************************************)
(* The database answers every statement, and hands an advisory lock to the *)
(* longest waiting session.                                                *)
(***************************************************************************)
FairSpec == Spec /\ \A c \in Task : WF_vars(Continue(c)) /\ SF_vars(AddLock(c))

-----------------------------------------------------------------------------
(* Properties *)

Hash == Seq([id : Id, tenant : Tenant, content : Content, form : Form, seq : Nat,
             content_hash : [content : Content, form : Form]])

(* Type correctness: one row per id and per place in a chain, the primary   *)
(* key and the index uq_evidence_chain of ddl.py.                           *)
TypeOK ==
  /\ \A r \in rows :
       /\ r.id \in Id /\ r.tenant \in Tenant /\ r.content \in Content
       /\ r.seq \in Nat \ {0}
       /\ r.prev_hash \in Hash /\ r.record_hash \in Hash
       /\ Clash(r, rows) = {r}
  /\ custody \in [Id -> [Access -> Nat]]
  /\ \A k \in DOMAIN packages : packages[k].ids \in PackageLists
  /\ locks \in [Lock -> Task \cup {None}]
  /\ nextId \in 1 .. MaxCalls + 1 /\ begun \in Nat /\ faults \in Nat

(* NFR-3: the tail that add() read is still the tail when it inserts and    *)
(* when it commits, however many writers there are: no insert is refused    *)
(* and no place is left out (the advisory lock, postgres.py:73).            *)
TailIsFresh ==
  \A c \in Task : call[c].pc \in {"insert", "commit"} =>
    LET row == call[c].row IN
    /\ row.seq = TailOf(row.tenant).seq + 1
    /\ row.prev_hash = TailOf(row.tenant).record_hash

(* FR-5, FR-6, FR-8: what was added verifies: every record, the chain of    *)
(* every tenant over any range, and every package at any later time.        *)
RecordsVerify ==
  /\ \A t \in Tenant : LET chain == Chain(t) IN
       \A from \in 0 .. Len(chain) : VerifyChain(chain, from, Len(chain)) = 0
  /\ \A k \in DOMAIN packages : VerifyPackage(packages[k])

\* A record whose stored fields were changed one by one
Altered(r) ==
  {[r EXCEPT !.content = c] : c \in Content}
    \cup {[r EXCEPT !.record_hash = <<>>], [r EXCEPT !.prev_hash = r.record_hash]}

\* A record that was replaced together with its hashes
Rewritten(r) ==
  {LET changed == [r EXCEPT !.content = c, !.content_hash.content = c]
   IN  [changed EXCEPT !.record_hash = RecordHash(changed)] : c \in Content}

(* FR-6, D3: were one record of a chain altered, verify_chain would report  *)
(* exactly its seq; were it lost or rewritten with its hashes, the seq of   *)
(* the record after it; whatever range around it is verified.               *)
CorruptionIsLocated ==
  \A t \in Tenant : LET chain == Chain(t) IN
    \A k \in DOMAIN chain : \A from \in 0 .. k - 1 : \A to \in k .. Len(chain) :
      /\ \A bad \in Altered(chain[k]) \ {chain[k]} :
           VerifyChain([chain EXCEPT ![k] = bad], from, to) = k
      /\ k < to =>
           /\ VerifyChain(RemoveAt(chain, k), from, to) = k + 1
           /\ \A bad \in Rewritten(chain[k]) \ {chain[k]} :
                VerifyChain([chain EXCEPT ![k] = bad], from, to) = k + 1

(* Chains are linked without gap while writers race for their ends; what is *)
(* in them verifies, and a single damage to them is found where it is.      *)
ChainsAreSound == TypeOK /\ TailIsFresh /\ RecordsVerify /\ CorruptionIsLocated

\* What the ledger shows of a chain
Observed(chain) == [k \in DOMAIN chain |-> [id |-> chain[k].id, content |-> chain[k].content]]

Ledger == INSTANCE EvidenceLedger WITH
  MaxRecords <- MaxCalls,
  chains   <- [t \in Tenant |-> Observed(Chain(t))],
  packages <- [k \in DOMAIN packages |-> packages[k].ids]

(* NFR-4, D1, D6: the transactions implement the store in memory: a record  *)
(* appears at the end of its chain at once with its intake, nothing is ever *)
(* changed or removed, and every access that succeeds is in the custody log. *)
ImplementsLedger == Ledger!Spec

(* Every call ends, the wait for the tenant's lock included, also when      *)
(* connections of other writers are lost in the middle of theirs.           *)
CallsEnd == \A c \in Task : call[c].pc # "idle" ~> call[c].pc = "idle"
===============================================================================
