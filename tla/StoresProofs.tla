---------------------------- MODULE StoresProofs ----------------------------
(***************************************************************************)
(* The transactions of two Postgres stores, for any number of rows and     *)
(* clients: those of PostgresFindingStore implement the atomic ledger,     *)
(* those of PostgresObjectStore lose nothing and keep natural keys at      *)
(* home.  The argument of both is the row lock: what a transaction is      *)
(* about to commit was computed from the row that is still there, and a    *)
(* row it is about to insert is of a key and an id that nobody else holds. *)
(* The stores share no rows, and their theorems no lemma.                  *)
(***************************************************************************)
EXTENDS Findings, ObjectTransactions, TLAPS

-----------------------------------------------------------------------------
(* Findings                                                                *)

Entry == [from : Status \cup {"none"}, to : Status]
FindingRow   == [key : Key \cup {"none"}, status : Status, score : Nat, current : Nat,
          evidence : SUBSET Evidence, audit : Seq(Entry), version : Nat]
Call  == [pc : {"idle", "select", "insert", "commit"},
          op : {"none", "raise", "insert", "transition", "evidence"},
          key : Key \cup {"none"}, id : Id \cup {0}, score : Nat, evidence : Evidence \cup {"none"},
          to : Status \cup {"none"}, seen : Nat, knows : Nat, row : FindingRow]
Scan  == [pc : {"idle", "reading", "done"}, cursor : {<<>>} \cup (Nat \X Nat), got : Seq(Id),
          due : SUBSET Id]

RowsTyped == rows \in [Id -> FindingRow]

FindingsTypeOK ==
  /\ RowsTyped
  /\ lock \in [Id -> Client \cup {"none"}]
  /\ call \in [Client -> Call]
  /\ scan \in Scan
  /\ ops \in Nat
  /\ detected \in [Id -> Nat] /\ known \in [Id -> Nat]

\* What call k has prepared for the row f it has locked
Prepared(k, f) ==
  \/ k.op = "raise" /\ f.key = k.key /\ k.row = Observed(f, k.score, k.evidence)
  \/ /\ k.op = "transition" /\ k.seen = f.version
     /\ k.to \in TRANSITIONS[f.status] /\ k.row = Transitioned(f, k.to)
  \/ k.op = "evidence" /\ k.row = WithEvidence(f, k.evidence)

(***************************************************************************)
(* What holds of call k of client c when rs are the rows, lk their locks   *)
(* and det the detections.                                                 *)
(***************************************************************************)
CallOK(c, k, rs, lk, det) ==
  /\ k.op = "insert" => k.pc = "commit"
  /\ k.pc = "insert" => k.op = "raise"
  /\ k.op \in {"raise", "insert"} => k.key \in Key /\ k.score \in Score /\ k.evidence \in Evidence
  /\ k.op \in {"transition", "evidence"} => k.id \in Id /\ rs[k.id].version > 0
  /\ k.op = "evidence" => k.evidence \in Evidence
  /\ k.op = "transition" => /\ k.to \in Status /\ k.seen <= rs[k.id].version
                            /\ k.seen = rs[k.id].version => k.knows = det[k.id]
  /\ k.pc = "commit" /\ k.op # "insert" =>
       /\ k.id \in Id /\ rs[k.id].version > 0
       /\ lk[k.id] = c /\ Prepared(k, rs[k.id])
  /\ k.op = "insert" =>
       /\ k.id \in Id /\ rs[k.id].version = 0
       /\ IdsOf(rs, k.key) = {}
       /\ k.row = Created(k.key, k.score, k.evidence)

CallsOK == \A c \in Client : CallOK(c, call[c], rows, lock, detected)

\* Two inserts that are not committed are of different keys and rows.
InsertsApart ==
  \A c, d \in Client : c # d /\ call[c].op = "insert" /\ call[d].op = "insert" =>
                         call[c].key # call[d].key /\ call[c].id # call[d].id

(***************************************************************************)
(* The scan sc over the rows rs: in order, the cursor at the last finding, *)
(* and what is still due behind the cursor.                                *)
(***************************************************************************)
Place(rs, id) == <<rs[id].score, id>>

ScanOK(sc, rs) ==
  /\ sc.got \in Seq(Id) /\ sc.due \subseteq Stored(rs)
  /\ \A i \in DOMAIN sc.got : sc.got[i] \in Stored(rs)
  /\ \A i, j \in DOMAIN sc.got : i < j => Earlier(Place(rs, sc.got[i]), Place(rs, sc.got[j]))
  /\ sc.cursor = IF sc.got = <<>> THEN <<>> ELSE Place(rs, sc.got[Len(sc.got)])
  /\ sc.pc = "idle" => sc.got = <<>>
  /\ sc.pc = "reading" =>
       \A id \in sc.due : \/ \E i \in DOMAIN sc.got : sc.got[i] = id
                          \/ sc.cursor = <<>> \/ Earlier(sc.cursor, Place(rs, id))
  /\ sc.pc = "done" => \A id \in sc.due : \E i \in DOMAIN sc.got : sc.got[i] = id

FindingsInv == FindingsTypeOK /\ CallsOK /\ InsertsApart /\ ScanOK(scan, rows) /\ ResolvedIsInformed

-----------------------------------------------------------------------------
(* The records of the ledger                                               *)

LEMMA CreatedIs ==
  ASSUME NEW k \in Key, NEW s \in Score, NEW e \in Evidence
  PROVE  /\ Created(k, s, e) \in FindingRow
         /\ Created(k, s, e).version = 1 /\ Created(k, s, e).status = "open"
         /\ Created(k, s, e).key = k
         /\ Created(k, s, e).audit = <<[from |-> "none", to |-> "open"]>>
<1>1. s \in Nat
  BY FindingsAssumption
<1>2. [from |-> "none", to |-> "open"] \in Entry
  BY DEF Entry, Status
<1>3. <<[from |-> "none", to |-> "open"]>> \in Seq(Entry)
  BY <1>2
<1> QED BY <1>1, <1>3 DEF Created, FindingRow, Status

LEMMA ObservedIs ==
  ASSUME NEW f \in FindingRow, NEW s \in Nat, NEW e \in Evidence
  PROVE  /\ Observed(f, s, e) \in FindingRow
         /\ Observed(f, s, e).version = f.version + 1
         /\ Observed(f, s, e).key = f.key /\ Observed(f, s, e).score = f.score
         /\ Observed(f, s, e).status = IF f.status = "resolved" THEN "open" ELSE f.status
         /\ Observed(f, s, e).audit = IF f.status = "resolved"
                                      THEN Append(f.audit, [from |-> f.status, to |-> "open"]) ELSE f.audit
<1> DEFINE again == [f EXCEPT !.current = s, !.evidence = @ \cup {e}, !.version = @ + 1]
<1>1. /\ again \in FindingRow /\ again.version = f.version + 1 /\ again.key = f.key /\ again.score = f.score
      /\ again.status = f.status /\ again.audit = f.audit
  <2>1. f.version + 1 \in Nat /\ f.evidence \cup {e} \in SUBSET Evidence
    BY DEF FindingRow
  <2> QED BY <2>1 DEF FindingRow
<1>2. [from |-> "resolved", to |-> "open"] \in Entry
  BY DEF Entry, Status
<1>3. Append(f.audit, [from |-> "resolved", to |-> "open"]) \in Seq(Entry)
  BY <1>2 DEF FindingRow
<1> HIDE DEF again
<1> DEFINE back == [again EXCEPT !.status = "open", !.audit = Append(@, [from |-> "resolved", to |-> "open"])]
<1>4. /\ back \in FindingRow /\ back.version = f.version + 1 /\ back.key = f.key /\ back.score = f.score
      /\ back.status = "open" /\ back.audit = Append(f.audit, [from |-> "resolved", to |-> "open"])
  BY <1>1, <1>3 DEF FindingRow, Status
<1>5. Observed(f, s, e) = IF f.status # "resolved" THEN again ELSE back
  BY DEF Observed, again
<1> HIDE DEF back
<1> QED BY <1>1, <1>4, <1>5

LEMMA TransitionedIs ==
  ASSUME NEW f \in FindingRow, NEW to \in Status
  PROVE  /\ Transitioned(f, to) \in FindingRow
         /\ Transitioned(f, to).version = f.version + 1
         /\ Transitioned(f, to).key = f.key /\ Transitioned(f, to).score = f.score
         /\ Transitioned(f, to).status = to
         /\ Transitioned(f, to).audit = Append(f.audit, [from |-> f.status, to |-> to])
<1>1. f.version + 1 \in Nat
  BY DEF FindingRow
<1>2. [from |-> f.status, to |-> to] \in Entry
  BY DEF Entry, FindingRow
<1>3. Append(f.audit, [from |-> f.status, to |-> to]) \in Seq(Entry)
  BY <1>2 DEF FindingRow
<1> QED BY <1>1, <1>3 DEF Transitioned, FindingRow

LEMMA WithEvidenceIs ==
  ASSUME NEW f \in FindingRow, NEW e \in Evidence
  PROVE  /\ WithEvidence(f, e) \in FindingRow
         /\ WithEvidence(f, e).version = f.version + 1
         /\ WithEvidence(f, e).key = f.key /\ WithEvidence(f, e).score = f.score
         /\ WithEvidence(f, e).status = f.status /\ WithEvidence(f, e).audit = f.audit
<1>1. f.version + 1 \in Nat /\ f.evidence \cup {e} \in SUBSET Evidence
  BY DEF FindingRow
<1> QED BY <1>1 DEF WithEvidence, FindingRow

-----------------------------------------------------------------------------
(* The atomic ledger                                                       *)

Replays(a, status) ==
  /\ a # <<>> /\ a[1].from = "none"
  /\ \A i \in 2 .. Len(a) : a[i].from = a[i - 1].to
  /\ a[Len(a)].to = status

LEMMA ReplaysExtend ==
  ASSUME NEW a \in Seq(Entry), NEW st, NEW to, [from |-> st, to |-> to] \in Entry, Replays(a, st)
  PROVE  Replays(Append(a, [from |-> st, to |-> to]), to)
<1> DEFINE n == Append(a, [from |-> st, to |-> to])
<1>1. Len(a) \in Nat /\ Len(a) > 0 /\ Len(n) = Len(a) + 1
  BY DEF Replays
<1>2. (\A i \in 1 .. Len(a) : n[i] = a[i]) /\ n[Len(a) + 1] = [from |-> st, to |-> to]
  OBVIOUS
<1>3. n # <<>> /\ n[1].from = "none" /\ n[Len(n)].to = to
  BY <1>1, <1>2 DEF Replays
<1>4. ASSUME NEW i \in 2 .. Len(n) PROVE n[i].from = n[i - 1].to
  <2>1. CASE i = Len(a) + 1
    <3>1. i - 1 = Len(a) /\ n[i - 1] = a[Len(a)] /\ n[i].from = st
      BY <1>1, <1>2, <2>1
    <3> QED BY <3>1 DEF Replays
  <2>2. CASE i # Len(a) + 1
    <3>1. i \in 2 .. Len(a) /\ i - 1 \in 1 .. Len(a)
      BY <1>1, <2>2
    <3> QED BY <1>2, <3>1 DEF Replays
  <2> QED BY <2>1, <2>2
<1> HIDE DEF n
<1> QED BY <1>3, <1>4 DEF Replays, n

LEMMA LedgerStep ==
  ASSUME RowsTyped, AuditReplays, [Next]_rows
  PROVE  RowsTyped' /\ AuditReplays'
<1> USE DEF RowsTyped
<1>1. \A id \in Stored(rows) : Replays(rows[id].audit, rows[id].status)
  BY DEF AuditReplays, Replays
<1>2. ASSUME NEW id \in Id, NEW f \in FindingRow, rows' = [rows EXCEPT ![id] = f], Replays(f.audit, f.status)
      PROVE  RowsTyped' /\ AuditReplays'
  <2>1. \A i \in Stored(rows') : Replays(rows'[i].audit, rows'[i].status)
    BY <1>1, <1>2 DEF Stored
  <2> QED BY <1>2, <2>1 DEF AuditReplays, Replays
<1>3. ASSUME NEW k \in Key, NEW s \in Score, NEW e \in Evidence, RaiseFinding(k, s, e)
      PROVE  RowsTyped' /\ AuditReplays'
  <2>1. CASE \E id \in Id \ Stored(rows) : rows' = [rows EXCEPT ![id] = Created(k, s, e)]
    <3>1. PICK id \in Id : rows' = [rows EXCEPT ![id] = Created(k, s, e)]
      BY <2>1
    <3>2. Replays(<<[from |-> "none", to |-> "open"]>>, "open")
      BY DEF Replays
    <3>3. Created(k, s, e) \in FindingRow /\ Replays(Created(k, s, e).audit, Created(k, s, e).status)
      BY <3>2, CreatedIs
    <3> QED BY <1>2, <3>1, <3>3
  <2>2. CASE \E id \in IdsOf(rows, k) : rows' = [rows EXCEPT ![id] = Observed(@, s, e)]
    <3>1. PICK id \in IdsOf(rows, k) : rows' = [rows EXCEPT ![id] = Observed(@, s, e)]
      BY <2>2
    <3>2. id \in Id /\ id \in Stored(rows) /\ rows[id] \in FindingRow /\ s \in Nat
      BY <3>1, FindingsAssumption DEF IdsOf, Stored
    <3>3. rows[id].audit \in Seq(Entry) /\ [from |-> "resolved", to |-> "open"] \in Entry
      BY <3>2 DEF FindingRow, Entry, Status
    <3> DEFINE n == Observed(rows[id], s, e)
    <3>4. /\ n \in FindingRow
          /\ n.status = IF rows[id].status = "resolved" THEN "open" ELSE rows[id].status
          /\ n.audit = IF rows[id].status = "resolved"
                       THEN Append(rows[id].audit, [from |-> rows[id].status, to |-> "open"]) ELSE rows[id].audit
      BY <3>2, ObservedIs
    <3>5. Replays(n.audit, n.status)
      <4>1. Replays(rows[id].audit, rows[id].status)
        BY <1>1, <3>2
      <4>2. CASE rows[id].status = "resolved"
        <5>1. Replays(Append(rows[id].audit, [from |-> "resolved", to |-> "open"]), "open")
          BY <3>3, <4>1, <4>2, ReplaysExtend
        <5> QED BY <3>4, <4>2, <5>1
      <4>3. CASE rows[id].status # "resolved"
        BY <3>4, <4>1, <4>3
      <4> QED BY <4>2, <4>3
    <3>6. rows' = [rows EXCEPT ![id] = n]
      BY <3>1
    <3> HIDE DEF n
    <3> QED BY <1>2, <3>2, <3>4, <3>5, <3>6
  <2> QED BY <1>3, <2>1, <2>2 DEF RaiseFinding
<1>4. ASSUME NEW id \in Id, NEW to \in Status, Transition(id, to)
      PROVE  RowsTyped' /\ AuditReplays'
  <2> DEFINE n == Transitioned(rows[id], to)
  <2>1. id \in Stored(rows) /\ rows[id] \in FindingRow /\ rows' = [rows EXCEPT ![id] = n]
    BY <1>4 DEF Transition
  <2>2. rows[id].audit \in Seq(Entry) /\ [from |-> rows[id].status, to |-> to] \in Entry
    BY <2>1 DEF FindingRow, Entry
  <2>3. Replays(Append(rows[id].audit, [from |-> rows[id].status, to |-> to]), to)
    BY <1>1, <2>1, <2>2, ReplaysExtend
  <2>4. Replays(n.audit, n.status) /\ n \in FindingRow
    BY <2>1, <2>3, TransitionedIs
  <2> QED BY <1>2, <2>1, <2>4
<1>5. ASSUME NEW id \in Id, NEW e \in Evidence, AddEvidence(id, e)
      PROVE  RowsTyped' /\ AuditReplays'
  <2> DEFINE n == WithEvidence(rows[id], e)
  <2>1. id \in Stored(rows) /\ rows[id] \in FindingRow /\ rows' = [rows EXCEPT ![id] = n]
    BY <1>5 DEF AddEvidence
  <2>2. Replays(n.audit, n.status) /\ n \in FindingRow
    BY <1>1, <2>1, WithEvidenceIs
  <2> QED BY <1>2, <2>1, <2>2
<1>6. CASE UNCHANGED rows
  BY <1>6 DEF AuditReplays, Stored
<1> QED BY <1>3, <1>4, <1>5, <1>6 DEF Next

LEMMA AbsentIsRow == Absent \in FindingRow
<1>1. <<>> \in Seq(Entry)
  OBVIOUS
<1> QED BY <1>1 DEF Absent, FindingRow, Status

(* A finding's audit trail tells its whole story: in the atomic ledger,    *)
(* which is also the store in memory (findings/memory.py).                 *)
THEOREM LedgerAuditReplays == Spec => []AuditReplays
<1>1. Init => RowsTyped /\ AuditReplays
  BY AbsentIsRow DEF Init, RowsTyped, AuditReplays, Stored, Absent
<1>2. RowsTyped /\ AuditReplays /\ [Next]_rows => (RowsTyped /\ AuditReplays)'
  BY LedgerStep
<1> QED BY <1>1, <1>2, PTL DEF Spec

-----------------------------------------------------------------------------
(* The transactions: statements that commit nothing                        *)

\* No lock of another client than c goes.
KeepsLocks(c) ==
  /\ lock' \in [Id -> Client \cup {"none"}]
  /\ \A d \in Client \ {c}, id \in Id : lock[id] = d => lock'[id] = d

LEMMA FindingStatementOK ==
  ASSUME FindingsInv, NEW c \in Client, NEW k \in Call, call' = [call EXCEPT ![c] = k],
         UNCHANGED <<rows, scan, detected, known>>, ops' \in Nat, KeepsLocks(c),
         CallOK(c, k, rows, lock', detected),
         k.op = "insert" => \A d \in Client \ {c} :
                              call[d].op = "insert" => call[d].key # k.key /\ call[d].id # k.id
  PROVE  FindingsInv'
<1>1. /\ call \in [Client -> Call] /\ call'[c] = k
      /\ \A d \in Client : d # c => call'[d] = call[d]
  BY DEF FindingsInv, FindingsTypeOK
<1>2. FindingsTypeOK'
  BY <1>1 DEF FindingsInv, FindingsTypeOK, RowsTyped, KeepsLocks
<1>3. ASSUME NEW d \in Client PROVE CallOK(d, call'[d], rows', lock', detected')
  <2>1. CASE d = c
    BY <1>1, <2>1
  <2>2. CASE d # c
    <3>1. CallOK(d, call[d], rows, lock, detected) /\ \A id \in Id : lock[id] = d => lock'[id] = d
      BY <2>2 DEF FindingsInv, CallsOK, KeepsLocks
    <3>2. CallOK(d, call[d], rows, lock', detected)
      BY <3>1 DEF CallOK
    <3> QED BY <1>1, <2>2, <3>2
  <2> QED BY <2>1, <2>2
<1>4. InsertsApart'
  BY <1>1 DEF FindingsInv, InsertsApart
<1>5. ScanOK(scan, rows)' /\ ResolvedIsInformed'
  BY DEF FindingsInv, ResolvedIsInformed, Stored, ScanOK, Place, Earlier
<1> QED BY <1>2, <1>3, <1>4, <1>5 DEF FindingsInv, CallsOK

LEMMA IdleIsFine ==
  /\ Idle \in Call
  /\ \A c, rs, lk, det : CallOK(c, Idle, rs, lk, det)
<1>1. Idle \in Call
  BY AbsentIsRow DEF Idle, Call
<1>2. Idle.op = "none" /\ Idle.pc = "idle"
  BY DEF Idle
<1> QED BY <1>1, <1>2 DEF CallOK

LEMMA EndsKeepsLocks ==
  ASSUME FindingsTypeOK, NEW c \in Client, Ends(c)
  PROVE  KeepsLocks(c)
BY DEF FindingsTypeOK, Ends, KeepsLocks

LEMMA EndsOK ==
  ASSUME FindingsInv, NEW c \in Client, Ends(c), UNCHANGED <<rows, scan, ops, detected, known>>
  PROVE  FindingsInv'
<1>1. KeepsLocks(c) /\ ops' \in Nat /\ call' = [call EXCEPT ![c] = Idle]
  BY EndsKeepsLocks DEF FindingsInv, FindingsTypeOK, Ends
<1>2. Idle.op # "insert"
  BY DEF Idle
<1> QED BY <1>1, <1>2, IdleIsFine, FindingStatementOK

LEMMA RaiseBeginsOK ==
  ASSUME FindingsInv, NEW c \in Client, NEW k \in Key, NEW s \in Score, NEW e \in Evidence, RaiseBegins(c, k, s, e)
  PROVE  FindingsInv'
<1> DEFINE n == [Idle EXCEPT !.pc = "select", !.op = "raise", !.key = k, !.score = s, !.evidence = e]
<1>1. n \in Call /\ n.op = "raise" /\ n.pc = "select" /\ n.key = k /\ n.score = s /\ n.evidence = e
  BY IdleIsFine, FindingsAssumption DEF Call
<1>2. call' = [call EXCEPT ![c] = n] /\ UNCHANGED <<rows, lock, scan, detected, known>> /\ ops' = ops + 1
  BY DEF RaiseBegins, Begins
<1> HIDE DEF n
<1>3. CallOK(c, n, rows, lock', detected)
  BY <1>1 DEF CallOK
<1>4. KeepsLocks(c) /\ ops' \in Nat
  BY <1>2 DEF KeepsLocks, FindingsInv, FindingsTypeOK
<1> QED BY <1>1, <1>2, <1>3, <1>4, FindingStatementOK

LEMMA TransitionBeginsOK ==
  ASSUME FindingsInv, NEW c \in Client, NEW id \in Id, NEW to \in Status, TransitionBegins(c, id, to)
  PROVE  FindingsInv'
<1> DEFINE n == [Idle EXCEPT !.pc = "select", !.op = "transition", !.id = id, !.to = to,
                             !.seen = rows[id].version, !.knows = detected[id]]
<1>1. rows[id].version \in Nat /\ rows[id].version > 0 /\ detected[id] \in Nat
  BY DEF FindingsInv, FindingsTypeOK, RowsTyped, FindingRow, TransitionBegins, Stored
<1>2. /\ n \in Call /\ n.op = "transition" /\ n.pc = "select" /\ n.id = id /\ n.to = to
      /\ n.seen = rows[id].version /\ n.knows = detected[id]
  BY <1>1, IdleIsFine DEF Call
<1>3. call' = [call EXCEPT ![c] = n] /\ UNCHANGED <<rows, lock, scan, detected, known>> /\ ops' = ops + 1
  BY DEF TransitionBegins, Begins
<1> HIDE DEF n
<1>4. CallOK(c, n, rows, lock', detected)
  BY <1>1, <1>2 DEF CallOK
<1>5. KeepsLocks(c) /\ ops' \in Nat
  BY <1>3 DEF KeepsLocks, FindingsInv, FindingsTypeOK
<1> QED BY <1>2, <1>3, <1>4, <1>5, FindingStatementOK

LEMMA AddEvidenceBeginsOK ==
  ASSUME FindingsInv, NEW c \in Client, NEW id \in Id, NEW e \in Evidence, AddEvidenceBegins(c, id, e)
  PROVE  FindingsInv'
<1> DEFINE n == [Idle EXCEPT !.pc = "select", !.op = "evidence", !.id = id, !.evidence = e,
                             !.seen = rows[id].version]
<1>1. rows[id].version \in Nat /\ rows[id].version > 0
  BY DEF FindingsInv, FindingsTypeOK, RowsTyped, FindingRow, AddEvidenceBegins, Stored
<1>2. n \in Call /\ n.op = "evidence" /\ n.pc = "select" /\ n.id = id /\ n.evidence = e
  BY <1>1, IdleIsFine DEF Call
<1>3. call' = [call EXCEPT ![c] = n] /\ UNCHANGED <<rows, lock, scan, detected, known>> /\ ops' = ops + 1
  BY DEF AddEvidenceBegins, Begins
<1> HIDE DEF n
<1>4. CallOK(c, n, rows, lock', detected)
  BY <1>1, <1>2 DEF CallOK
<1>5. KeepsLocks(c) /\ ops' \in Nat
  BY <1>3 DEF KeepsLocks, FindingsInv, FindingsTypeOK
<1> QED BY <1>2, <1>3, <1>4, <1>5, FindingStatementOK

(* A row is taken that nobody held, and its next version prepared.         *)
LEMMA TakesOK ==
  ASSUME FindingsInv, NEW c \in Client, NEW id \in Id, NEW row \in FindingRow,
         rows[id].version > 0, Locked(c, id), Takes(c, id, row),
         call[c].op \in {"raise", "transition", "evidence"},
         call[c].op # "raise" => id = call[c].id,
         Prepared([call[c] EXCEPT !.pc = "commit", !.id = id, !.row = row], rows[id])
  PROVE  FindingsInv'
<1> DEFINE n == [call[c] EXCEPT !.pc = "commit", !.id = id, !.row = row]
<1>1. /\ call \in [Client -> Call] /\ call[c] \in Call /\ lock \in [Id -> Client \cup {"none"}]
      /\ CallOK(c, call[c], rows, lock, detected)
  BY DEF FindingsInv, FindingsTypeOK, CallsOK
<1>2. /\ n \in Call /\ n.pc = "commit" /\ n.id = id /\ n.row = row /\ n.op = call[c].op
      /\ n.key = call[c].key /\ n.score = call[c].score /\ n.evidence = call[c].evidence
      /\ n.to = call[c].to /\ n.seen = call[c].seen /\ n.knows = call[c].knows
  BY <1>1 DEF Call
<1>3. call' = [call EXCEPT ![c] = n] /\ lock' = [lock EXCEPT ![id] = c]
      /\ UNCHANGED <<rows, scan, ops, detected, known>>
  BY <1>1 DEF Takes, Others
<1>4. Prepared(n, rows[id])
  OBVIOUS
<1> HIDE DEF n
<1>5. KeepsLocks(c) /\ lock'[id] = c /\ ops' \in Nat
  BY <1>1, <1>3, FindingsAssumption DEF KeepsLocks, Locked, FindingsInv, FindingsTypeOK
<1>6. CallOK(c, n, rows, lock', detected)
  BY <1>1, <1>2, <1>4, <1>5 DEF CallOK
<1> QED BY <1>2, <1>3, <1>5, <1>6, FindingStatementOK

LEMMA RaiseFindsOK ==
  ASSUME FindingsInv, NEW c \in Client, RaiseFinds(c)
  PROVE  FindingsInv'
<1>1. PICK id \in IdsOf(rows, call[c].key) :
        Locked(c, id) /\ Takes(c, id, Observed(rows[id], call[c].score, call[c].evidence))
  BY DEF RaiseFinds
<1> DEFINE row == Observed(rows[id], call[c].score, call[c].evidence)
<1>2. id \in Id /\ rows[id].version > 0 /\ rows[id].key = call[c].key /\ rows[id] \in FindingRow
  BY <1>1 DEF IdsOf, Stored, FindingsInv, FindingsTypeOK, RowsTyped
<1>3. /\ call[c].op = "raise" /\ call[c] \in Call
      /\ call[c].score \in Nat /\ call[c].evidence \in Evidence
  BY DEF RaiseFinds, FindingsInv, FindingsTypeOK, CallsOK, CallOK, Call
<1>4. row \in FindingRow
  BY <1>2, <1>3, ObservedIs
<1>5. Prepared([call[c] EXCEPT !.pc = "commit", !.id = id, !.row = row], rows[id])
  <2> HIDE DEF row
  <2> DEFINE n == [call[c] EXCEPT !.pc = "commit", !.id = id, !.row = row]
  <2>1. /\ n.op = "raise" /\ n.row = row /\ n.key = call[c].key /\ n.score = call[c].score
        /\ n.evidence = call[c].evidence
    BY <1>3 DEF Call
  <2> HIDE DEF n
  <2>2. Prepared(n, rows[id])
    BY <1>2, <2>1 DEF Prepared, row
  <2> QED BY <2>2 DEF n
<1> HIDE DEF row
<1>6. Takes(c, id, row)
  BY <1>1 DEF row
<1> QED BY <1>1, <1>2, <1>3, <1>4, <1>5, <1>6, TakesOK

LEMMA RaiseMissesOK ==
  ASSUME FindingsInv, NEW c \in Client, RaiseMisses(c)
  PROVE  FindingsInv'
<1> DEFINE n == [call[c] EXCEPT !.pc = "insert"]
<1>1. call \in [Client -> Call] /\ call[c] \in Call /\ CallOK(c, call[c], rows, lock, detected)
      /\ call[c].op = "raise"
  BY DEF FindingsInv, FindingsTypeOK, CallsOK, RaiseMisses
<1>2. n \in Call /\ n.pc = "insert" /\ n.op = "raise" /\ n.key = call[c].key /\ n.score = call[c].score
      /\ n.evidence = call[c].evidence
  BY <1>1 DEF Call
<1>3. call' = [call EXCEPT ![c] = n] /\ UNCHANGED <<rows, lock, scan, ops, detected, known>>
  BY DEF RaiseMisses, Others
<1> HIDE DEF n
<1>4. CallOK(c, n, rows, lock', detected)
  BY <1>1, <1>2 DEF CallOK
<1>5. KeepsLocks(c) /\ ops' \in Nat
  BY <1>3 DEF KeepsLocks, FindingsInv, FindingsTypeOK
<1> QED BY <1>2, <1>3, <1>4, <1>5, FindingStatementOK

LEMMA RaiseInsertsOK ==
  ASSUME FindingsInv, NEW c \in Client, RaiseInserts(c)
  PROVE  FindingsInv'
<1>1. UNCHANGED <<rows, scan, ops, detected, known>> /\ call[c].pc = "insert" /\ ~ Clash(c)
  BY DEF RaiseInserts, Others, At
<1>2. CASE IdsOf(rows, call[c].key) # {}
  BY <1>1, <1>2, EndsOK DEF RaiseInserts
<1>3. CASE IdsOf(rows, call[c].key) = {}
  <2> DEFINE row == Created(call[c].key, call[c].score, call[c].evidence)
  <2>1. PICK id \in Id \ Stored(rows) :
          /\ \A d \in Client : call[d].op = "insert" => call[d].id # id
          /\ call' = [call EXCEPT ![c].pc = "commit", ![c].op = "insert", ![c].id = id, ![c].row = row]
          /\ UNCHANGED lock
    BY <1>3 DEF RaiseInserts
  <2>2. /\ call \in [Client -> Call] /\ call[c] \in Call /\ CallOK(c, call[c], rows, lock, detected)
        /\ call[c].op = "raise" /\ \A d \in Client : CallOK(d, call[d], rows, lock, detected)
    BY <1>1 DEF FindingsInv, FindingsTypeOK, CallsOK, CallOK
  <2>3. /\ row \in FindingRow /\ call[c].key \in Key /\ call[c].score \in Score /\ call[c].evidence \in Evidence
    BY <2>2, CreatedIs DEF CallOK
  <2>4. rows[id].version = 0
    BY <2>1 DEF Stored, FindingsInv, FindingsTypeOK, RowsTyped, FindingRow
  <2> DEFINE n == [call[c] EXCEPT !.pc = "commit", !.op = "insert", !.id = id, !.row = row]
  <2> HIDE DEF row
  <2>5. /\ n \in Call /\ n.pc = "commit" /\ n.op = "insert" /\ n.id = id /\ n.row = row
        /\ n.key = call[c].key /\ n.score = call[c].score /\ n.evidence = call[c].evidence
    BY <2>2, <2>3 DEF Call
  <2>6. call' = [call EXCEPT ![c] = n]
    BY <2>1, <2>2
  <2> HIDE DEF n
  <2>7. CallOK(c, n, rows, lock', detected)
    BY <1>3, <2>3, <2>4, <2>5 DEF CallOK, row
  <2>8. KeepsLocks(c) /\ ops' \in Nat
    BY <1>1, <2>1 DEF KeepsLocks, FindingsInv, FindingsTypeOK
  <2>9. \A d \in Client \ {c} : call[d].op = "insert" => call[d].key # n.key /\ call[d].id # n.id
    BY <1>1, <2>1, <2>2, <2>5 DEF Clash, At, CallOK
  <2> QED BY <1>1, <2>5, <2>6, <2>7, <2>8, <2>9, FindingStatementOK
<1> QED BY <1>2, <1>3

LEMMA ChangeSelectsOK ==
  ASSUME FindingsInv, NEW c \in Client, ChangeSelects(c)
  PROVE  FindingsInv'
<1> DEFINE k == call[c]
<1>1. k \in Call /\ k.op \in {"transition", "evidence"} /\ CallOK(c, k, rows, lock, detected)
  BY DEF ChangeSelects, FindingsInv, FindingsTypeOK, CallsOK
<1>2. k.id \in Id /\ rows[k.id].version > 0 /\ rows[k.id] \in FindingRow
  BY <1>1 DEF CallOK, FindingsInv, FindingsTypeOK, RowsTyped
<1>3. CASE ~ Allowed(c) /\ Ends(c) /\ UNCHANGED rows /\ Others
  BY <1>3, EndsOK DEF Others
<1>4. CASE Allowed(c) /\ Takes(c, k.id, Changed(c))
  <2> DEFINE row == Changed(c)
             n == [k EXCEPT !.pc = "commit", !.id = k.id, !.row = row]
  <2>1. row \in FindingRow
    <3>1. CASE k.op = "transition"
      <4>1. k.to \in Status /\ row = Transitioned(rows[k.id], k.to)
        BY <1>1, <3>1 DEF CallOK, Changed
      <4> QED BY <1>2, <4>1, TransitionedIs
    <3>2. CASE k.op = "evidence"
      <4>1. k.evidence \in Evidence /\ row = WithEvidence(rows[k.id], k.evidence)
        BY <1>1, <3>2 DEF CallOK, Changed
      <4> QED BY <1>2, <4>1, WithEvidenceIs
    <3> QED BY <1>1, <3>1, <3>2
  <2>2. Prepared(n, rows[k.id])
    <3>1. /\ k.op = "transition" => row = Transitioned(rows[k.id], k.to)
          /\ k.op = "evidence" => row = WithEvidence(rows[k.id], k.evidence)
          /\ rows[k.id].version = k.seen
          /\ k.op = "transition" => k.to \in TRANSITIONS[rows[k.id].status]
      BY <1>4 DEF Changed, Allowed, UpToDate
    <3> HIDE DEF row
    <3>2. /\ n.op = k.op /\ n.row = row /\ n.to = k.to /\ n.seen = k.seen /\ n.evidence = k.evidence
      BY <1>1 DEF Call
    <3> HIDE DEF n
    <3> QED BY <1>1, <3>1, <3>2 DEF Prepared
  <2>3. Takes(c, k.id, row) /\ Locked(c, k.id)
    BY <1>4 DEF ChangeSelects
  <2> HIDE DEF row
  <2> QED BY <1>1, <1>2, <2>1, <2>2, <2>3, TakesOK
<1> QED BY <1>3, <1>4 DEF ChangeSelects

LEMMA AbortsOK ==
  ASSUME FindingsInv, NEW c \in Client, Aborts(c)
  PROVE  FindingsInv'
BY EndsOK DEF Aborts, Others

-----------------------------------------------------------------------------
(* The transactions: a commit                                              *)

(* A commit is an operation of the ledger on the row that is there now.    *)
LEMMA CommitIsAtomic ==
  ASSUME FindingsInv, NEW c \in Client, Commit(c)
  PROVE  LET k == call[c]
             f == rows[k.id]
         IN  /\ k.id \in Id /\ k.row \in FindingRow /\ f \in FindingRow
             /\ rows' = [rows EXCEPT ![k.id] = k.row]
             /\ k.row.version = f.version + 1
             /\ f.version > 0 => k.row.key = f.key /\ k.row.score = f.score
             /\ \/ /\ k.op = "insert" /\ k.row.status = "open" /\ f.version = 0
                   /\ k.row.key = k.key /\ RaiseFinding(k.key, k.score, k.evidence)
                   /\ k.key \in Key /\ k.score \in Score /\ k.evidence \in Evidence
                \/ /\ k.op = "raise" /\ k.row.status # "resolved" /\ f.version > 0 /\ lock[k.id] = c
                   /\ RaiseFinding(k.key, k.score, k.evidence)
                   /\ k.key \in Key /\ k.score \in Score /\ k.evidence \in Evidence
                \/ /\ k.op = "transition" /\ k.knows = detected[k.id] /\ f.version > 0 /\ lock[k.id] = c
                   /\ k.to \in Status /\ Transition(k.id, k.to)
                \/ /\ k.op = "evidence" /\ k.row.status = f.status /\ f.version > 0 /\ lock[k.id] = c
                   /\ k.evidence \in Evidence /\ AddEvidence(k.id, k.evidence)
<1> DEFINE k == call[c]
           f == rows[k.id]
<1>1. /\ k \in Call /\ k.pc = "commit" /\ CallOK(c, k, rows, lock, detected)
      /\ rows' = [rows EXCEPT ![k.id] = k.row]
  BY DEF Commit, At, FindingsInv, FindingsTypeOK, CallsOK
<1>2. k.id \in Id /\ k.row \in FindingRow
  BY <1>1 DEF CallOK, Call
<1>3. f \in FindingRow /\ f.version \in Nat
  BY <1>2 DEF FindingsInv, FindingsTypeOK, RowsTyped, FindingRow
<1> HIDE DEF k, f
<1>4. CASE k.op = "insert"
  <2>1. /\ k.key \in Key /\ k.score \in Score /\ k.evidence \in Evidence
        /\ f.version = 0 /\ IdsOf(rows, k.key) = {} /\ k.row = Created(k.key, k.score, k.evidence)
    BY <1>1, <1>4 DEF CallOK, f
  <2>2. k.row.version = 1 /\ k.row.status = "open" /\ k.row.key = k.key
    BY <2>1, CreatedIs
  <2>3. k.id \in Id \ Stored(rows)
    BY <1>2, <2>1 DEF Stored, f
  <2>4. RaiseFinding(k.key, k.score, k.evidence)
    BY <1>1, <2>1, <2>3 DEF RaiseFinding
  <2> QED BY <1>1, <1>2, <1>3, <1>4, <2>1, <2>2, <2>4 DEF k, f
<1>5. ASSUME k.op # "insert"
      PROVE  f.version > 0 /\ lock[k.id] = c /\ Prepared(k, f) /\ k.id \in Stored(rows)
  BY <1>1, <1>2, <1>5 DEF CallOK, Stored, f
<1>6. CASE k.op = "raise"
  <2>1. /\ k.key \in Key /\ k.score \in Score /\ k.evidence \in Evidence
        /\ f.key = k.key /\ k.row = Observed(f, k.score, k.evidence)
    BY <1>1, <1>5, <1>6 DEF CallOK, Prepared
  <2>2. k.score \in Nat
    BY <2>1, FindingsAssumption
  <2>3. /\ k.row.version = f.version + 1 /\ k.row.key = f.key /\ k.row.score = f.score
        /\ k.row.status # "resolved"
    <3> DEFINE n == Observed(f, k.score, k.evidence)
    <3>1. /\ n.version = f.version + 1 /\ n.key = f.key /\ n.score = f.score
          /\ n.status = IF f.status = "resolved" THEN "open" ELSE f.status
      BY <1>3, <2>1, <2>2, ObservedIs
    <3> QED BY <2>1, <3>1
  <2>4. k.id \in IdsOf(rows, k.key)
    BY <1>5, <1>6, <2>1 DEF IdsOf, f
  <2>5. rows' = [rows EXCEPT ![k.id] = Observed(@, k.score, k.evidence)]
    BY <1>1, <2>1 DEF f
  <2>6. RaiseFinding(k.key, k.score, k.evidence)
    BY <2>4, <2>5 DEF RaiseFinding
  <2> QED BY <1>1, <1>2, <1>3, <1>5, <1>6, <2>1, <2>3, <2>6 DEF k, f
<1>7. CASE k.op = "transition"
  <2>1. /\ k.to \in Status /\ k.knows = detected[k.id]
        /\ k.to \in TRANSITIONS[f.status] /\ k.row = Transitioned(f, k.to)
    BY <1>1, <1>5, <1>7 DEF CallOK, Prepared, f
  <2>2. k.row.version = f.version + 1 /\ k.row.key = f.key /\ k.row.score = f.score
    <3> DEFINE n == Transitioned(f, k.to)
    <3>1. n.version = f.version + 1 /\ n.key = f.key /\ n.score = f.score
      BY <1>3, <2>1, TransitionedIs
    <3> QED BY <2>1, <3>1
  <2>3. Transition(k.id, k.to)
    BY <1>1, <1>5, <1>7, <2>1 DEF Transition, f
  <2> QED BY <1>1, <1>2, <1>3, <1>5, <1>7, <2>1, <2>2, <2>3 DEF k, f
<1>8. CASE k.op = "evidence"
  <2>1. k.evidence \in Evidence /\ k.row = WithEvidence(f, k.evidence)
    BY <1>1, <1>5, <1>8 DEF CallOK, Prepared
  <2>2. /\ k.row.version = f.version + 1 /\ k.row.key = f.key /\ k.row.score = f.score
        /\ k.row.status = f.status
    BY <1>3, <2>1, WithEvidenceIs
  <2>3. AddEvidence(k.id, k.evidence)
    BY <1>1, <1>5, <1>8, <2>1 DEF AddEvidence, f
  <2> QED BY <1>1, <1>2, <1>3, <1>5, <1>8, <2>1, <2>2, <2>3 DEF k, f
<1>9. k.op \in {"insert", "raise", "transition", "evidence"}
  <2>1. k.op # "insert" => Prepared(k, f)
    BY <1>5
  <2> QED BY <2>1 DEF Prepared
<1> QED BY <1>4, <1>6, <1>7, <1>8, <1>9

LEMMA ScanKept ==
  ASSUME NEW rs, NEW rs2, NEW sc, ScanOK(sc, rs),
         \A id \in Stored(rs) : id \in Stored(rs2) /\ rs2[id].score = rs[id].score
  PROVE  ScanOK(sc, rs2)
<1>1. \A id \in Stored(rs) : Place(rs2, id) = Place(rs, id)
  BY DEF Place
<1>2. \A i \in DOMAIN sc.got : Place(rs2, sc.got[i]) = Place(rs, sc.got[i])
  BY <1>1 DEF ScanOK
<1>3. \A id \in sc.due : Place(rs2, id) = Place(rs, id)
  BY <1>1 DEF ScanOK
<1>4. sc.got # <<>> => Len(sc.got) \in DOMAIN sc.got
  BY DEF ScanOK
<1>5. sc.cursor = IF sc.got = <<>> THEN <<>> ELSE Place(rs2, sc.got[Len(sc.got)])
  BY <1>2, <1>4 DEF ScanOK
<1>6. sc.due \subseteq Stored(rs2) /\ \A i \in DOMAIN sc.got : sc.got[i] \in Stored(rs2)
  BY DEF ScanOK
<1>7. \A i, j \in DOMAIN sc.got : i < j => Earlier(Place(rs2, sc.got[i]), Place(rs2, sc.got[j]))
  BY <1>2 DEF ScanOK
<1>8. sc.pc = "reading" =>
        \A id \in sc.due : \/ \E i \in DOMAIN sc.got : sc.got[i] = id
                           \/ sc.cursor = <<>> \/ Earlier(sc.cursor, Place(rs2, id))
  BY <1>3 DEF ScanOK
<1> QED BY <1>5, <1>6, <1>7, <1>8 DEF ScanOK

LEMMA CommitOK ==
  ASSUME FindingsInv, NEW c \in Client, Commit(c)
  PROVE  FindingsInv'
<1> DEFINE k == call[c]
<1>1. /\ k.id \in Id /\ k.row \in FindingRow /\ rows' = [rows EXCEPT ![k.id] = k.row]
      /\ k.row.version = rows[k.id].version + 1
      /\ rows[k.id].version > 0 => k.row.key = rows[k.id].key /\ k.row.score = rows[k.id].score
      /\ \/ k.op = "insert" /\ k.row.status = "open" /\ rows[k.id].version = 0 /\ k.row.key = k.key
         \/ k.op = "raise" /\ k.row.status # "resolved" /\ rows[k.id].version > 0 /\ lock[k.id] = c
         \/ k.op = "transition" /\ k.knows = detected[k.id] /\ rows[k.id].version > 0 /\ lock[k.id] = c
         \/ k.op = "evidence" /\ k.row.status = rows[k.id].status /\ rows[k.id].version > 0 /\ lock[k.id] = c
  BY CommitIsAtomic
<1>2. /\ rows \in [Id -> FindingRow] /\ call \in [Client -> Call] /\ lock \in [Id -> Client \cup {"none"}]
      /\ detected \in [Id -> Nat] /\ known \in [Id -> Nat] /\ ops \in Nat /\ k \in Call
      /\ scan \in Scan
  BY DEF FindingsInv, FindingsTypeOK, RowsTyped
<1>3. /\ detected' = IF k.op \in {"raise", "insert"} THEN [detected EXCEPT ![k.id] = @ + 1] ELSE detected
      /\ known' = IF k.op = "transition" THEN [known EXCEPT ![k.id] = k.knows] ELSE known
      /\ scan' = scan /\ ops' = ops /\ Ends(c)
  BY DEF Commit
<1>4. call' = [call EXCEPT ![c] = Idle] /\ KeepsLocks(c)
  BY <1>3, EndsKeepsLocks DEF Ends, FindingsInv
<1>5. /\ \A id \in Id : id # k.id => rows'[id] = rows[id] /\ detected'[id] = detected[id] /\ known'[id] = known[id]
      /\ rows'[k.id] = k.row
  BY <1>1, <1>2, <1>3
<1>6. rows[k.id].version \in Nat
  BY <1>1, <1>2 DEF FindingRow
<1> HIDE DEF k
<1>7. FindingsTypeOK'
  <2>1. detected' \in [Id -> Nat]
    <3>1. detected[k.id] + 1 \in Nat
      BY <1>1, <1>2
    <3> QED BY <1>2, <1>3, <3>1
  <2>2. known' \in [Id -> Nat]
    <3>1. k.knows \in Nat
      BY <1>2 DEF Call, k
    <3> QED BY <1>1, <1>2, <1>3, <3>1
  <2>3. call' \in [Client -> Call]
    BY <1>2, <1>4, IdleIsFine
  <2>4. rows' \in [Id -> FindingRow]
    BY <1>1, <1>2
  <2> QED BY <1>2, <1>3, <1>4, <2>1, <2>2, <2>3, <2>4 DEF FindingsTypeOK, RowsTyped, KeepsLocks
<1>8. CallsOK'
  <2> SUFFICES ASSUME NEW d \in Client PROVE CallOK(d, call'[d], rows', lock', detected')
    BY DEF CallsOK
  <2>1. CASE d = c
    BY <1>2, <1>4, <2>1, IdleIsFine
  <2>2. CASE d # c
    <3> DEFINE q == call[d]
    <3>1. call'[d] = q /\ q \in Call /\ CallOK(d, q, rows, lock, detected)
      BY <1>2, <1>4, <2>2 DEF FindingsInv, CallsOK
    <3>2. q.op = "insert" /\ k.op = "insert" => q.key # k.key /\ q.id # k.id
      BY <2>2 DEF FindingsInv, InsertsApart, k
    <3> HIDE DEF q
    <3>3. q.op \in {"transition", "evidence"} => q.id \in Id /\ rows'[q.id].version > 0
      BY <1>1, <1>5, <1>6, <3>1 DEF CallOK
    <3>4. q.op = "transition" => /\ q.to \in Status /\ q.seen <= rows'[q.id].version
                                 /\ q.seen = rows'[q.id].version => q.knows = detected'[q.id]
      <4> SUFFICES ASSUME q.op = "transition"
                   PROVE  /\ q.to \in Status /\ q.seen <= rows'[q.id].version
                          /\ q.seen = rows'[q.id].version => q.knows = detected'[q.id]
        OBVIOUS
      <4>1. /\ q.id \in Id /\ q.to \in Status /\ q.seen <= rows[q.id].version /\ q.seen \in Nat
            /\ q.seen = rows[q.id].version => q.knows = detected[q.id]
        BY <3>1 DEF CallOK, Call
      <4>2. CASE q.id = k.id
        BY <1>1, <1>5, <1>6, <4>1, <4>2
      <4>3. CASE q.id # k.id
        BY <1>5, <4>1, <4>3
      <4> QED BY <4>2, <4>3
    <3>5. q.pc = "commit" /\ q.op # "insert" =>
            /\ q.id \in Id /\ rows'[q.id].version > 0 /\ lock'[q.id] = d /\ Prepared(q, rows'[q.id])
      <4> SUFFICES ASSUME q.pc = "commit" /\ q.op # "insert"
                   PROVE  q.id \in Id /\ rows'[q.id].version > 0 /\ lock'[q.id] = d /\ Prepared(q, rows'[q.id])
        OBVIOUS
      <4>1. q.id \in Id /\ rows[q.id].version > 0 /\ lock[q.id] = d /\ Prepared(q, rows[q.id])
        BY <3>1 DEF CallOK
      <4>2. q.id # k.id
        BY <1>1, <2>2, <4>1
      <4> QED BY <1>4, <1>5, <2>2, <4>1, <4>2 DEF KeepsLocks
    <3>6. q.op = "insert" => /\ q.id \in Id /\ rows'[q.id].version = 0 /\ IdsOf(rows', q.key) = {}
                             /\ q.row = Created(q.key, q.score, q.evidence)
      <4> SUFFICES ASSUME q.op = "insert"
                   PROVE  /\ q.id \in Id /\ rows'[q.id].version = 0 /\ IdsOf(rows', q.key) = {}
                          /\ q.row = Created(q.key, q.score, q.evidence)
        OBVIOUS
      <4>1. /\ q.id \in Id /\ rows[q.id].version = 0 /\ IdsOf(rows, q.key) = {}
            /\ q.row = Created(q.key, q.score, q.evidence)
        BY <3>1 DEF CallOK
      <4>2. q.id # k.id
        BY <1>1, <3>2, <4>1
      <4>3. \A id \in Id : rows'[id].version > 0 => rows'[id].key # q.key
        <5> SUFFICES ASSUME NEW id \in Id, rows'[id].version > 0, rows'[id].key = q.key PROVE FALSE
          OBVIOUS
        <5>1. id = k.id
          BY <1>5, <4>1 DEF IdsOf, Stored
        <5>2. CASE k.op = "insert"
          BY <1>1, <1>5, <3>2, <5>1, <5>2
        <5>3. CASE k.op # "insert"
          BY <1>1, <1>5, <4>1, <5>1, <5>3 DEF IdsOf, Stored
        <5> QED BY <5>2, <5>3
      <4> QED BY <1>5, <4>1, <4>2, <4>3 DEF IdsOf, Stored
    <3> QED BY <3>1, <3>3, <3>4, <3>5, <3>6 DEF CallOK
  <2> QED BY <2>1, <2>2
<1>9. InsertsApart'
  <2>1. \A d \in Client : call'[d].op = "insert" => call'[d] = call[d]
    BY <1>2, <1>4 DEF Idle
  <2> QED BY <2>1 DEF FindingsInv, InsertsApart
<1>10. ScanOK(scan, rows)'
  <2>1. \A id \in Stored(rows) : id \in Stored(rows') /\ rows'[id].score = rows[id].score
    BY <1>1, <1>5, <1>6 DEF Stored
  <2> QED BY <1>3, <2>1, ScanKept DEF FindingsInv
<1>11. ResolvedIsInformed'
  <2> SUFFICES ASSUME NEW id \in Id, rows'[id].version > 0, rows'[id].status = "resolved"
               PROVE  known'[id] = detected'[id]
    BY DEF ResolvedIsInformed, Stored
  <2>1. CASE id # k.id
    BY <1>5, <2>1 DEF FindingsInv, ResolvedIsInformed, Stored
  <2>2. CASE id = k.id
    <3>1. CASE k.op = "transition"
      BY <1>1, <1>2, <1>3, <2>2, <3>1
    <3>2. CASE k.op = "evidence"
      BY <1>1, <1>2, <1>3, <1>5, <2>2, <3>2 DEF FindingsInv, ResolvedIsInformed, Stored
    <3> QED BY <1>1, <1>5, <2>2, <3>1, <3>2
  <2> QED BY <2>1, <2>2
<1> QED BY <1>7, <1>8, <1>9, <1>10, <1>11 DEF FindingsInv

-----------------------------------------------------------------------------
(* The scan                                                                *)

LEMMA ScanStepOK ==
  ASSUME FindingsInv, UNCHANGED <<rows, lock, call, ops, detected, known>>,
         scan' \in Scan, ScanOK(scan', rows)
  PROVE  FindingsInv'
<1>1. FindingsTypeOK' /\ ScanOK(scan, rows)' /\ InsertsApart' /\ ResolvedIsInformed'
  BY DEF FindingsInv, FindingsTypeOK, RowsTyped, InsertsApart, ResolvedIsInformed, Stored
<1>2. CallsOK'
  BY DEF FindingsInv, CallsOK
<1> QED BY <1>1, <1>2 DEF FindingsInv

LEMMA ScanBeginsOK ==
  ASSUME FindingsInv, ScanBegins
  PROVE  FindingsInv'
<1>1. /\ scan' \in Scan /\ scan'.pc = "reading" /\ scan'.got = <<>> /\ scan'.cursor = <<>>
      /\ scan'.due = Stored(rows)
  <2>1. NoScan \in Scan /\ NoScan.got = <<>> /\ NoScan.cursor = <<>>
    <3>1. <<>> \in Seq(Id)
      OBVIOUS
    <3> QED BY <3>1 DEF NoScan, Scan
  <2>2. scan' = [NoScan EXCEPT !.pc = "reading", !.due = Stored(rows)] /\ Stored(rows) \in SUBSET Id
    BY DEF ScanBegins, Stored
  <2> QED BY <2>1, <2>2 DEF Scan
<1>2. ScanOK(scan', rows)
  BY <1>1 DEF ScanOK
<1> QED BY <1>1, <1>2, ScanStepOK DEF ScanBegins

(* The order of the query is total and strict.                             *)
LEMMA PlacesAreOrdered ==
  ASSUME NEW p \in Nat \X Nat, NEW q \in Nat \X Nat
  PROVE  /\ Earlier(p, q) \/ Earlier(q, p) \/ p = q
         /\ ~ Earlier(p, p)
         /\ \A r \in Nat \X Nat : Earlier(p, q) /\ Earlier(q, r) => Earlier(p, r)
BY DEF Earlier

LEMMA ScanPageOK ==
  ASSUME FindingsInv, ScanPage
  PROVE  FindingsInv'
<1> DEFINE left == {id \in Stored(rows) : After(id)}
           got  == scan.got
<1>1. ScanOK(scan, rows) /\ scan \in Scan /\ scan.pc = "reading" /\ got \in Seq(Id)
  BY DEF FindingsInv, FindingsTypeOK, ScanPage, Scan
<1>2. \A id \in Stored(rows) : Place(rows, id) \in Nat \X Nat /\ id \in Id
  BY FindingsAssumption DEF FindingsInv, FindingsTypeOK, RowsTyped, FindingRow, Stored, Place
<1>3. \A id \in Stored(rows) : After(id) <=> scan.cursor = <<>> \/ Earlier(scan.cursor, Place(rows, id))
  BY DEF After, Position, Place
<1>4. CASE left = {}
  <2>1. scan' = [scan EXCEPT !.pc = "done"]
    BY <1>4 DEF ScanPage
  <2>2. /\ scan' \in Scan /\ scan'.pc = "done" /\ scan'.got = got /\ scan'.cursor = scan.cursor
        /\ scan'.due = scan.due
    BY <1>1, <2>1 DEF Scan
  <2>3. \A id \in scan.due : \E i \in DOMAIN got : got[i] = id
    BY <1>1, <1>3, <1>4 DEF ScanOK
  <2>4. ScanOK(scan', rows)
    BY <1>1, <2>2, <2>3 DEF ScanOK
  <2> QED BY <2>2, <2>4, ScanStepOK DEF ScanPage
<1>5. CASE left # {}
  <2>1. PICK id \in left :
          /\ \A other \in left \ {id} : Earlier(Position(id), Position(other))
          /\ scan' = [scan EXCEPT !.got = Append(@, id), !.cursor = Position(id),
                                  !.pc = IF left = {id} THEN "done" ELSE "reading"]
    BY <1>5 DEF ScanPage
  <2> DEFINE p == Place(rows, id)
             new == Append(got, id)
  <2>2. id \in Stored(rows) /\ id \in Id /\ p \in Nat \X Nat /\ Position(id) = p
    BY <1>2, <2>1 DEF Position, Place
  <2>3. /\ scan' \in Scan /\ scan'.got = new /\ scan'.cursor = p /\ scan'.due = scan.due
        /\ scan'.pc = IF left = {id} THEN "done" ELSE "reading"
    <3> DEFINE pc == IF left = {id} THEN "done" ELSE "reading"
    <3>1. new \in Seq(Id) /\ pc \in {"done", "reading"} /\ p \in {<<>>} \cup (Nat \X Nat)
      BY <1>1, <2>2
    <3>2. scan' = [scan EXCEPT !.got = new, !.cursor = p, !.pc = pc]
      BY <2>1, <2>2
    <3> HIDE DEF new, p, pc
    <3>3. /\ scan' \in Scan /\ scan'.got = new /\ scan'.cursor = p /\ scan'.due = scan.due
          /\ scan'.pc = pc
      BY <1>1, <3>1, <3>2 DEF Scan
    <3> QED BY <3>3 DEF pc
  <2>4. /\ Len(new) = Len(got) + 1 /\ new # <<>> /\ new[Len(got) + 1] = id /\ Len(got) \in Nat
        /\ \A i \in 1 .. Len(got) : new[i] = got[i]
        /\ DOMAIN new = 1 .. Len(got) + 1 /\ DOMAIN got = 1 .. Len(got)
    BY <1>1, <2>2
  <2>5. \A i \in 1 .. Len(got) : Earlier(Place(rows, got[i]), p)
    <3> SUFFICES ASSUME NEW i \in 1 .. Len(got) PROVE Earlier(Place(rows, got[i]), p)
      OBVIOUS
    <3> DEFINE last == got[Len(got)]
    <3>1. /\ Len(got) \in 1 .. Len(got) /\ got # <<>> /\ scan.cursor = Place(rows, last)
          /\ last \in Stored(rows) /\ got[i] \in Stored(rows)
      BY <1>1, <2>4 DEF ScanOK
    <3>2. Earlier(Place(rows, last), p)
      <4>1. Place(rows, last) # <<>>
        BY DEF Place
      <4> QED BY <1>3, <2>1, <2>2, <3>1, <4>1
    <3>3. CASE i = Len(got)
      BY <3>2, <3>3
    <3>4. CASE i # Len(got)
      <4>1. Earlier(Place(rows, got[i]), Place(rows, last))
        BY <1>1, <2>4, <3>1, <3>4 DEF ScanOK
      <4>2. Place(rows, got[i]) \in Nat \X Nat /\ Place(rows, last) \in Nat \X Nat
        BY <1>2, <3>1
      <4> HIDE DEF p, last
      <4> QED BY <2>2, <3>2, <4>1, <4>2, PlacesAreOrdered
    <3> QED BY <3>3, <3>4
  <2>6. \A other \in scan.due : \/ \E i \in DOMAIN new : new[i] = other
                                \/ other \in left \ {id} /\ Earlier(p, Place(rows, other))
    <3> SUFFICES ASSUME NEW other \in scan.due
                 PROVE  \/ \E i \in DOMAIN new : new[i] = other
                        \/ other \in left \ {id} /\ Earlier(p, Place(rows, other))
      OBVIOUS
    <3>1. other \in Stored(rows)
      BY <1>1 DEF ScanOK
    <3>2. CASE \E i \in DOMAIN got : got[i] = other
      BY <2>4, <3>2
    <3>3. CASE other \in left /\ other # id
      BY <2>1, <2>2, <3>3 DEF Position, Place
    <3>4. CASE other = id
      BY <2>4, <3>4
    <3> QED BY <1>1, <1>3, <3>1, <3>2, <3>3, <3>4 DEF ScanOK
  <2> HIDE DEF new, p
  <2>7. /\ \A i \in DOMAIN new : new[i] \in Stored(rows)
        /\ \A i, j \in DOMAIN new : i < j => Earlier(Place(rows, new[i]), Place(rows, new[j]))
    <3>1. \A i \in DOMAIN got : got[i] \in Stored(rows)
      BY <1>1 DEF ScanOK
    <3>2. \A i, j \in DOMAIN got : i < j => Earlier(Place(rows, got[i]), Place(rows, got[j]))
      BY <1>1 DEF ScanOK
    <3>3. \A i \in DOMAIN new : new[i] \in Stored(rows)
      BY <2>2, <2>4, <3>1
    <3>4. ASSUME NEW i \in DOMAIN new, NEW j \in DOMAIN new, i < j
          PROVE  Earlier(Place(rows, new[i]), Place(rows, new[j]))
      <4>1. CASE j = Len(got) + 1
        <5>1. i \in 1 .. Len(got) /\ new[j] = id
          BY <2>4, <3>4, <4>1
        <5> QED BY <2>4, <2>5, <5>1 DEF p
      <4>2. CASE j # Len(got) + 1
        <5>1. i \in 1 .. Len(got) /\ j \in 1 .. Len(got)
          BY <2>4, <3>4, <4>2
        <5> QED BY <2>4, <3>2, <3>4, <5>1
      <4> QED BY <4>1, <4>2
    <3> QED BY <3>3, <3>4
  <2>8. scan.due \subseteq Stored(rows)
    BY <1>1 DEF ScanOK
  <2>9. p = Place(rows, new[Len(new)]) /\ new \in Seq(Id)
    BY <1>1, <2>2, <2>4 DEF p, new
  <2>10. ScanOK(scan', rows)
    BY <2>3, <2>4, <2>6, <2>7, <2>8, <2>9 DEF ScanOK
  <2> QED BY <2>3, <2>10, ScanStepOK DEF ScanPage
<1> QED BY <1>4, <1>5

-----------------------------------------------------------------------------
(* Every state of the store satisfies the inductive invariant.             *)

LEMMA InitIInv == Init0 => FindingsInv
<1> SUFFICES ASSUME Init0 PROVE FindingsInv
  OBVIOUS
<1>1. rows \in [Id -> FindingRow] /\ call \in [Client -> Call]
  BY AbsentIsRow, IdleIsFine DEF Init0, Init
<1>2. scan \in Scan
  <2>1. <<>> \in Seq(Id)
    OBVIOUS
  <2> QED BY <2>1 DEF Init0, NoScan, Scan
<1>3. FindingsTypeOK
  BY <1>1, <1>2 DEF Init0, FindingsTypeOK, RowsTyped
<1>4. CallsOK /\ InsertsApart
  BY IdleIsFine DEF Init0, CallsOK, InsertsApart, Idle
<1>5. ScanOK(scan, rows)
  BY DEF Init0, NoScan, ScanOK
<1>6. ResolvedIsInformed
  BY DEF Init0, ResolvedIsInformed
<1> QED BY <1>3, <1>4, <1>5, <1>6 DEF FindingsInv

LEMMA StepIInv == FindingsInv /\ [Next0]_vars => FindingsInv'
<1> SUFFICES ASSUME FindingsInv, [Next0]_vars PROVE FindingsInv'
  OBVIOUS
<1>1. ASSUME NEW c \in Client, NEW k \in Key, NEW s \in Score, NEW e \in Evidence, RaiseBegins(c, k, s, e)
      PROVE  FindingsInv'
  BY <1>1, RaiseBeginsOK
<1>2. ASSUME NEW c \in Client, RaiseFinds(c) PROVE FindingsInv'
  BY <1>2, RaiseFindsOK
<1>3. ASSUME NEW c \in Client, RaiseMisses(c) PROVE FindingsInv'
  BY <1>3, RaiseMissesOK
<1>4. ASSUME NEW c \in Client, RaiseInserts(c) PROVE FindingsInv'
  BY <1>4, RaiseInsertsOK
<1>5. ASSUME NEW c \in Client, NEW id \in Id, NEW to \in Status, TransitionBegins(c, id, to) PROVE FindingsInv'
  BY <1>5, TransitionBeginsOK
<1>6. ASSUME NEW c \in Client, NEW id \in Id, NEW e \in Evidence, AddEvidenceBegins(c, id, e) PROVE FindingsInv'
  BY <1>6, AddEvidenceBeginsOK
<1>7. ASSUME NEW c \in Client, ChangeSelects(c) PROVE FindingsInv'
  BY <1>7, ChangeSelectsOK
<1>8. ASSUME NEW c \in Client, Commit(c) PROVE FindingsInv'
  BY <1>8, CommitOK
<1>9. ASSUME NEW c \in Client, Aborts(c) PROVE FindingsInv'
  BY <1>9, AbortsOK
<1>10. CASE ScanBegins
  BY <1>10, ScanBeginsOK
<1>11. CASE ScanPage
  BY <1>11, ScanPageOK
<1>12. CASE UNCHANGED vars
  BY <1>12, ScanStepOK DEF vars, FindingsInv, FindingsTypeOK
<1> QED BY <1>1, <1>2, <1>3, <1>4, <1>5, <1>6, <1>7, <1>8, <1>9, <1>10, <1>11, <1>12 DEF Next0

(* The strengthening that the results below rest on: what every            *)
(* transaction holds agrees with the rows it has locked.                   *)
THEOREM FindingsInductive == Spec0 => []FindingsInv
BY InitIInv, StepIInv, PTL DEF Spec0

(* A finding is resolved only by somebody who knew of all its detections,  *)
(* for any number of clients (findings/postgres.py, transition).           *)
THEOREM ResolvedIsInformedTheorem == Spec0 => []ResolvedIsInformed
<1>1. FindingsInv => ResolvedIsInformed
  BY DEF FindingsInv
<1> QED BY <1>1, FindingsInductive, PTL

(* Reading page by page with the cursor of query returns every finding     *)
(* that was there at the start, once and in order, while others write.     *)
THEOREM ScanIsCompleteTheorem == Spec0 => []ScanIsComplete
<1>1. FindingsInv => ScanIsComplete
  <2> SUFFICES ASSUME FindingsInv PROVE ScanIsComplete
    OBVIOUS
  <2>1. ScanOK(scan, rows) /\ scan.got \in Seq(Id)
    BY DEF FindingsInv, ScanOK
  <2>2. \A i \in DOMAIN scan.got : Place(rows, scan.got[i]) \in Nat \X Nat
    BY <2>1, FindingsAssumption DEF ScanOK, FindingsInv, FindingsTypeOK, RowsTyped, FindingRow, Stored, Place
  <2>3. \A i, j \in DOMAIN scan.got : i < j => scan.got[i] # scan.got[j]
    <3> SUFFICES ASSUME NEW i \in DOMAIN scan.got, NEW j \in DOMAIN scan.got, i < j,
                        scan.got[i] = scan.got[j]
                 PROVE  FALSE
      OBVIOUS
    <3>1. Earlier(Place(rows, scan.got[i]), Place(rows, scan.got[i]))
      BY <2>1 DEF ScanOK
    <3> QED BY <2>2, <3>1, PlacesAreOrdered
  <2>4. \A i \in 1 .. Len(scan.got) - 1 : Earlier(Position(scan.got[i]), Position(scan.got[i + 1]))
    <3> SUFFICES ASSUME NEW i \in 1 .. Len(scan.got) - 1
                 PROVE  Earlier(Position(scan.got[i]), Position(scan.got[i + 1]))
      OBVIOUS
    <3>1. i \in DOMAIN scan.got /\ i + 1 \in DOMAIN scan.got /\ i < i + 1
      BY <2>1
    <3> QED BY <2>1, <3>1 DEF ScanOK, Place, Position
  <2>5. scan.pc = "done" => scan.due \subseteq {scan.got[i] : i \in DOMAIN scan.got}
    BY <2>1 DEF ScanOK
  <2> QED BY <2>3, <2>4, <2>5 DEF ScanIsComplete
<1> QED BY <1>1, FindingsInductive, PTL

-----------------------------------------------------------------------------
(* The refinement                                                          *)

LEMMA StepsAreAtomic == FindingsInv /\ [Next0]_vars => [Next]_rows
<1> SUFFICES ASSUME FindingsInv, [Next0]_vars PROVE [Next]_rows
  OBVIOUS
<1>1. ASSUME NEW c \in Client, Commit(c) PROVE Next
  <2>1. PICK k : k = call[c]
    OBVIOUS
  <2>2. /\ k.id \in Id
        /\ \/ /\ RaiseFinding(k.key, k.score, k.evidence)
              /\ k.key \in Key /\ k.score \in Score /\ k.evidence \in Evidence
           \/ k.to \in Status /\ Transition(k.id, k.to)
           \/ k.evidence \in Evidence /\ AddEvidence(k.id, k.evidence)
    BY <1>1, <2>1, CommitIsAtomic
  <2> QED BY <2>2, Zenon DEF Next
<1>2. ASSUME NEW c \in Client, RaiseFinds(c) \/ RaiseMisses(c) \/ RaiseInserts(c) \/ ChangeSelects(c) \/ Aborts(c)
      PROVE  UNCHANGED rows
  BY <1>2 DEF RaiseFinds, RaiseMisses, RaiseInserts, ChangeSelects, Aborts, Takes
<1>3. ASSUME NEW c \in Client, NEW k \in Key, NEW s \in Score, NEW e \in Evidence, RaiseBegins(c, k, s, e)
      PROVE  UNCHANGED rows
  BY <1>3 DEF RaiseBegins, Begins
<1>4. ASSUME NEW c \in Client, NEW id \in Id,
             \/ \E to \in Status : TransitionBegins(c, id, to)
             \/ \E e \in Evidence : AddEvidenceBegins(c, id, e)
      PROVE  UNCHANGED rows
  BY <1>4 DEF TransitionBegins, AddEvidenceBegins, Begins
<1>5. CASE ScanBegins \/ ScanPage
  BY <1>5 DEF ScanBegins, ScanPage
<1>6. CASE UNCHANGED vars
  BY <1>6 DEF vars
<1> QED BY <1>1, <1>2, <1>3, <1>4, <1>5, <1>6 DEF Next0

(* The transactions of PostgresFindingStore, interleaved at any statement, *)
(* aborted at any statement, do what the atomic ledger does: no detection, *)
(* evidence or status change is lost and no key has two findings.          *)
THEOREM TransactionsImplementLedger == Spec0 => ImplementsLedger
<1>1. Init0 => Ledger!Init
  BY DEF Init0, Init, Ledger!Init, Absent, Ledger!Absent
<1>2. FindingsInv /\ [Next0]_vars => [Ledger!Next]_rows
  <2>1. Next => Ledger!Next
    BY DEF Next, RaiseFinding, Transition, AddEvidence, IdsOf, Stored, Created, Observed, Transitioned,
           WithEvidence, TRANSITIONS, Status,
           Ledger!Next, Ledger!RaiseFinding, Ledger!Transition, Ledger!AddEvidence, Ledger!IdsOf,
           Ledger!Stored, Ledger!Created, Ledger!Observed, Ledger!Transitioned,
           Ledger!WithEvidence, Ledger!TRANSITIONS, Ledger!Status
  <2> QED BY <2>1, StepsAreAtomic
<1> QED BY <1>1, <1>2, FindingsInductive, PTL DEF Spec0, ImplementsLedger, Ledger!Spec

(* What the ledger promises the transactions keep: each audit trail chains *)
(* from status to status and ends at the finding's.                        *)
THEOREM AuditReplaysTheorem == Spec0 => []AuditReplays
<1>1. Init0 => Init
  BY DEF Init0
<1>2. Spec0 => Spec
  BY <1>1, FindingsInductive, StepsAreAtomic, PTL DEF Spec0, Spec
<1> QED BY <1>2, LedgerAuditReplays

-----------------------------------------------------------------------------
(***************************************************************************)
(* Objects.  A row about to be written is held FOR UPDATE and is one       *)
(* version ahead of the table; a key row about to be inserted is settled   *)
(* with every other transaction.                                           *)
(***************************************************************************)

States == {"active", "archived", "merged", "deleted"}
ObjectRow    == [scope : Scope, keys : SUBSET NaturalKey, sources : SUBSET Source, state : States,
           into : Number \cup {0}, version : Nat]
NkRow  == [scope : Scope, key : NaturalKey, id : Number]
Writes == UNION {[is -> ObjectRow] : is \in SUBSET Number}
Tx     == [pc : {"idle", "lookup", "lock", "lock2", "index"},
           op : {"none", "upsert", "update", "merge"} \cup States,
           id : Number \cup {0}, other : Number \cup {0}, copy : ObjectRow, source : Source \cup {Unscoped},
           writes : Writes, left : Seq(Number), missing : SUBSET NaturalKey,
           dropped : SUBSET Number, added : SUBSET NkRow]

ObjectsTypeOK ==
  /\ table \in [Number -> ObjectRow]
  /\ keyRows \in SUBSET NkRow
  /\ snapshots \in [Number -> Seq(ObjectRow)]
  /\ edges \in SUBSET [from : Number, to : Number]
  /\ owner \in [Number -> Session \cup {"none"}]
  /\ tx \in [Session -> Tx]
  /\ txs \in Nat
  /\ seen \in SUBSET (Number \X Source)
  /\ overlap \in BOOLEAN

(***************************************************************************)
(* Transaction t of session s is about to write row i over tb[i].          *)
(***************************************************************************)
WriteOK(s, t, i, tb, ow) ==
  LET w == t.writes[i] IN
  /\ ow[i] = s
  /\ w.version = tb[i].version + 1
  /\ tb[i].sources \subseteq w.sources
  /\ tb[i].version > 0 => w.scope = tb[i].scope
  /\ \/ w.into = tb[i].into
     \/ tb[i].version > 0 /\ w.into \in DOMAIN t.writes /\ w.sources \subseteq t.writes[w.into].sources

\* What a transaction t of session s holds, over the rows tb and their owners ow
TxOK(s, t, tb, ow) ==
  /\ t.pc # "index" => DOMAIN t.writes = {} /\ t.dropped = {} /\ t.added = {}
  /\ t.pc = "lookup" => t.op = "upsert"
  /\ t.pc \in {"lookup", "lock"} /\ t.op = "upsert" =>
       /\ t.source \in Source
       /\ t.copy.into = 0
  /\ t.pc \in {"lock", "lock2"} => t.id \in Number /\ tb[t.id].version > 0
  /\ t.pc \in {"lock", "lock2"} /\ t.op = "merge" =>
       t.other \in Number /\ tb[t.other].version > 0 /\ t.id # t.other
  /\ t.pc = "lock2" => t.op = "merge" /\ ow[t.id] = s
  /\ t.pc = "lock" /\ t.op \notin {"upsert", "merge"} =>
       /\ t.op \in {"update"} \cup States
       /\ t.copy.version <= tb[t.id].version
       /\ t.copy.version = tb[t.id].version => t.copy = tb[t.id]
  /\ t.pc = "index" =>
       /\ t.left # <<>> /\ \A n \in DOMAIN t.left : t.left[n] \in DOMAIN t.writes
       /\ t.op = "merge" => /\ {t.id, t.other} \subseteq DOMAIN t.writes
                            /\ t.writes[t.id].scope = t.writes[t.other].scope
       /\ \A i \in DOMAIN t.writes : WriteOK(s, t, i, tb, ow)
       /\ t.op = "upsert" => /\ t.source \in Source
                             /\ t.source \in t.writes[t.left[1]].sources
                             /\ Len(t.left) = 1

TxsOK == \A s \in Session : TxOK(s, tx[s], table, owner)

\* There is nothing where there is no row.
EmptyOK == \A i \in Number : table[i].version = 0 => table[i] = NoRow

RowsInv == ObjectsTypeOK /\ TxsOK /\ EmptyOK /\ RowsLoseNothing

-----------------------------------------------------------------------------
(* Types                                                                   *)

LEMMA WritesElim ==
  ASSUME NEW w \in Writes
  PROVE  /\ DOMAIN w \in SUBSET Number
         /\ \A i \in DOMAIN w : w[i] \in ObjectRow
<1>1. PICK is \in SUBSET Number : w \in [is -> ObjectRow]
  BY DEF Writes
<1> QED BY <1>1

LEMMA WritesIntro ==
  ASSUME NEW is \in SUBSET Number, NEW w \in [is -> ObjectRow]
  PROVE  w \in Writes
BY Zenon DEF Writes

LEMMA EmptyTypes ==
  /\ NoRow \in ObjectRow /\ NoTx \in Tx
  /\ NoTx.pc = "idle" /\ NoTx.op = "none" /\ DOMAIN NoTx.writes = {} /\ NoTx.dropped = {} /\ NoTx.added = {}
<1>1. NoRow \in ObjectRow
  BY ObjectTransactionsAssumption DEF NoRow, ObjectRow, States
<1>2. [i \in {} |-> NoRow] \in Writes
  <2>1. [i \in {} |-> NoRow] \in [{} -> ObjectRow]
    OBVIOUS
  <2> QED BY <2>1, WritesIntro
<1>3. <<>> \in Seq(Number)
  OBVIOUS
<1>4. NoTx \in Tx
  BY <1>1, <1>2, <1>3 DEF NoTx, Tx
<1> QED BY <1>1, <1>4 DEF NoTx

LEMMA NoTxOK == \A s, tb, ow : TxOK(s, NoTx, tb, ow)
BY EmptyTypes DEF TxOK

LEMMA SavingIs ==
  ASSUME NEW t \in Tx, NEW order \in Seq(Number), order # <<>>, NEW writes \in Writes,
         order[1] \in DOMAIN writes
  PROVE  LET n == Saving(t, order, writes)
         IN  /\ n \in Tx /\ n.pc = "index" /\ n.op = t.op /\ n.source = t.source /\ n.writes = writes
             /\ n.left = order /\ n.id = t.id /\ n.other = t.other /\ n.added = t.added
             /\ n.missing = writes[order[1]].keys /\ n.dropped = {order[1]}
<1>1. writes[order[1]].keys \in SUBSET NaturalKey /\ order[1] \in Number
  BY WritesElim DEF ObjectRow
<1>2. {order[1]} \in SUBSET Number
  BY <1>1
<1> QED BY <1>1, <1>2 DEF Saving, Tx

-----------------------------------------------------------------------------
(* Rows: statements that commit nothing                                    *)

(* A transaction is right as long as nobody takes or writes its rows.      *)
LEMMA TxKept ==
  ASSUME NEW r \in Session, NEW t \in Tx, NEW tb \in [Number -> ObjectRow], NEW tb2 \in [Number -> ObjectRow],
         NEW ow, NEW ow2, TxOK(r, t, tb, ow),
         \A i \in Number :
           /\ tb2[i] = tb[i] \/ (tb2[i].version > tb[i].version /\ i \notin DOMAIN t.writes)
           /\ ow[i] = r => ow2[i] = r \/ (tb[i].version = 0 /\ i \notin DOMAIN t.writes)
  PROVE  TxOK(r, t, tb2, ow2)
<1>1. \A i \in Number : tb[i].version \in Nat /\ tb2[i].version \in Nat /\ tb2[i].version >= tb[i].version
  BY DEF ObjectRow
<1>2. DOMAIN t.writes \subseteq Number
  BY WritesElim DEF Tx
<1>3. ASSUME t.pc = "index", NEW i \in DOMAIN t.writes PROVE WriteOK(r, t, i, tb2, ow2)
  <2>1. WriteOK(r, t, i, tb, ow) /\ i \in Number
    BY <1>2, <1>3 DEF TxOK
  <2>2. tb2[i] = tb[i] /\ ow2[i] = r
    BY <2>1 DEF WriteOK
  <2> QED BY <2>1, <2>2 DEF WriteOK
<1>4. t.pc = "lock2" => ow2[t.id] = r
  BY DEF TxOK
<1>5. t.pc \in {"lock", "lock2"} => t.id \in Number /\ tb2[t.id].version > 0
  BY <1>1 DEF TxOK
<1>6. t.pc \in {"lock", "lock2"} /\ t.op = "merge" => t.other \in Number /\ tb2[t.other].version > 0
  BY <1>1 DEF TxOK
<1>7. t.pc = "lock" /\ t.op \notin {"upsert", "merge"} =>
        /\ t.copy.version <= tb2[t.id].version
        /\ t.copy.version = tb2[t.id].version => t.copy = tb2[t.id]
  <2>1. t.copy.version \in Nat
    BY DEF Tx, ObjectRow
  <2> QED BY <1>1, <2>1 DEF TxOK
<1> QED BY <1>3, <1>4, <1>5, <1>6, <1>7 DEF TxOK

\* Nobody but s loses a row it has locked.
KeepsOwners(s) ==
  /\ owner' \in [Number -> Session \cup {"none"}]
  /\ \A r \in Session \ {s}, i \in Number :
       owner[i] = r => owner'[i] = r \/ (table[i].version = 0 /\ i \notin DOMAIN tx[r].writes)

LEMMA TxStatementOK ==
  ASSUME RowsInv, NEW s \in Session, NEW t \in Tx, tx' = [tx EXCEPT ![s] = t],
         UNCHANGED <<table, keyRows, snapshots, edges, seen>>, txs' \in Nat, overlap' \in BOOLEAN,
         KeepsOwners(s), TxOK(s, t, table, owner')
  PROVE  RowsInv'
<1>1. /\ tx \in [Session -> Tx] /\ tx'[s] = t /\ table \in [Number -> ObjectRow]
      /\ \A r \in Session : r # s => tx'[r] = tx[r]
  BY DEF RowsInv, ObjectsTypeOK
<1>2. ObjectsTypeOK'
  BY <1>1 DEF RowsInv, ObjectsTypeOK, KeepsOwners
<1>3. ASSUME NEW r \in Session PROVE TxOK(r, tx'[r], table', owner')
  <2>1. CASE r = s
    BY <1>1, <2>1
  <2>2. CASE r # s
    <3>1. tx'[r] = tx[r] /\ tx[r] \in Tx /\ TxOK(r, tx[r], table, owner)
      BY <1>1, <2>2 DEF RowsInv, TxsOK
    <3>2. \A i \in Number :
            /\ table[i] = table[i] \/ (table[i].version > table[i].version /\ i \notin DOMAIN tx[r].writes)
            /\ owner[i] = r => owner'[i] = r \/ (table[i].version = 0 /\ i \notin DOMAIN tx[r].writes)
      BY <2>2 DEF KeepsOwners
    <3>3. TxOK(r, tx[r], table, owner')
      BY ONLY <1>1, <3>1, <3>2, TxKept, Zenon
    <3> QED BY <3>1, <3>3
  <2> QED BY <2>1, <2>2
<1>4. EmptyOK' /\ RowsLoseNothing'
  BY DEF RowsInv, EmptyOK, RowsLoseNothing, EveryVersionIsRecorded, SourcesAreCarried, Rows
<1> QED BY <1>2, <1>3, <1>4 DEF RowsInv, TxsOK

LEMMA OpensOK ==
  ASSUME RowsInv, NEW s \in Session, NEW t \in Tx, Opens(s, t), TxOK(s, t, table, owner)
  PROVE  RowsInv'
<1>1. /\ tx' = [tx EXCEPT ![s] = t] /\ UNCHANGED <<table, keyRows, snapshots, edges, seen, owner>>
      /\ txs' \in Nat /\ overlap' \in BOOLEAN /\ KeepsOwners(s)
  BY DEF Opens, KeepTables, RowsInv, ObjectsTypeOK, KeepsOwners
<1> QED BY <1>1, TxStatementOK

LEMMA ClosesOK ==
  ASSUME RowsInv, NEW s \in Session, Closes(s), KeepTables
  PROVE  RowsInv'
<1>1. /\ tx' = [tx EXCEPT ![s] = NoTx] /\ UNCHANGED <<table, keyRows, snapshots, edges, seen>>
      /\ txs' \in Nat /\ overlap' \in BOOLEAN
      /\ owner' = [i \in Number |-> IF owner[i] = s THEN "none" ELSE owner[i]]
      /\ owner \in [Number -> Session \cup {"none"}]
  BY DEF Closes, KeepTables, KeepMarks, RowsInv, ObjectsTypeOK
<1>2. KeepsOwners(s)
  BY <1>1 DEF KeepsOwners
<1> QED BY <1>1, <1>2, EmptyTypes, NoTxOK, TxStatementOK

LEMMA UpsertOpensOK ==
  ASSUME RowsInv, NEW s \in Session, NEW scope \in Scope, NEW keys \in SUBSET NaturalKey,
         NEW source \in Source, UpsertOpens(s, scope, keys, source)
  PROVE  RowsInv'
<1> DEFINE copy == [NoRow EXCEPT !.scope = scope, !.keys = keys]
           n == [NoTx EXCEPT !.pc = "lookup", !.op = "upsert", !.source = source, !.copy = copy]
<1>1. copy \in ObjectRow /\ copy.into = 0
  BY EmptyTypes DEF ObjectRow, NoRow
<1> HIDE DEF copy
<1>2. n \in Tx /\ n.pc = "lookup" /\ n.op = "upsert" /\ n.source = source /\ n.copy = copy
      /\ n.writes = NoTx.writes /\ n.dropped = NoTx.dropped /\ n.added = NoTx.added
  BY <1>1, EmptyTypes DEF Tx
<1>3. Opens(s, n)
  BY DEF UpsertOpens, copy
<1> HIDE DEF n
<1>4. TxOK(s, n, table, owner)
  BY <1>1, <1>2, EmptyTypes DEF TxOK
<1> QED BY <1>2, <1>3, <1>4, OpensOK

LEMMA ChangeOpensOK ==
  ASSUME RowsInv, NEW s \in Session, NEW i \in Number, NEW op \in {"update"} \cup DOMAIN VALID_TRANSITIONS,
         ChangeOpens(s, i, op)
  PROVE  RowsInv'
<1> DEFINE n == [NoTx EXCEPT !.pc = "lock", !.op = op, !.id = i, !.copy = table[i]]
<1>1. op \in {"update"} \cup States /\ table[i] \in ObjectRow /\ table[i].version > 0
  BY DEF VALID_TRANSITIONS, States, RowsInv, ObjectsTypeOK, ChangeOpens, Rows
<1>2. n \in Tx /\ n.pc = "lock" /\ n.op = op /\ n.id = i /\ n.copy = table[i]
      /\ n.writes = NoTx.writes /\ n.dropped = NoTx.dropped /\ n.added = NoTx.added
  BY <1>1, EmptyTypes DEF Tx
<1>3. Opens(s, n)
  BY DEF ChangeOpens
<1> HIDE DEF n
<1>4. TxOK(s, n, table, owner)
  BY <1>1, <1>2, EmptyTypes DEF TxOK, States, ObjectRow
<1> QED BY <1>2, <1>3, <1>4, OpensOK

LEMMA MergeOpensOK ==
  ASSUME RowsInv, NEW s \in Session, NEW i \in Number, NEW j \in Number, MergeOpens(s, i, j)
  PROVE  RowsInv'
<1> DEFINE n == [NoTx EXCEPT !.pc = "lock", !.op = "merge", !.id = i, !.other = j]
<1>1. i # j /\ table[i].version > 0 /\ table[j].version > 0
  BY DEF MergeOpens, LiveRow
<1>2. n \in Tx /\ n.pc = "lock" /\ n.op = "merge" /\ n.id = i /\ n.other = j
      /\ n.writes = NoTx.writes /\ n.dropped = NoTx.dropped /\ n.added = NoTx.added
  BY EmptyTypes DEF Tx
<1>3. Opens(s, n)
  BY DEF MergeOpens
<1> HIDE DEF n
<1>4. TxOK(s, n, table, owner)
  BY <1>1, <1>2, EmptyTypes DEF TxOK
<1> QED BY <1>2, <1>3, <1>4, OpensOK

LEMMA UpsertFindsOK ==
  ASSUME RowsInv, NEW s \in Session, UpsertFinds(s)
  PROVE  RowsInv'
<1>1. PICK i \in Rows : tx' = [tx EXCEPT ![s].pc = "lock", ![s].id = i]
  BY DEF UpsertFinds
<1> DEFINE n == [tx[s] EXCEPT !.pc = "lock", !.id = i]
<1>2. tx \in [Session -> Tx] /\ tx[s] \in Tx /\ TxOK(s, tx[s], table, owner) /\ tx[s].pc = "lookup"
      /\ i \in Number /\ table[i].version > 0
  BY <1>1 DEF RowsInv, ObjectsTypeOK, TxsOK, UpsertFinds, Stands, Rows
<1>3. /\ n \in Tx /\ n.pc = "lock" /\ n.id = i /\ n.op = tx[s].op /\ n.source = tx[s].source
      /\ n.copy = tx[s].copy /\ n.writes = tx[s].writes /\ n.dropped = tx[s].dropped /\ n.added = tx[s].added
  BY <1>2 DEF Tx
<1>4. tx' = [tx EXCEPT ![s] = n]
  BY <1>1, <1>2
<1> HIDE DEF n
<1>5. TxOK(s, n, table, owner)
  BY <1>2, <1>3 DEF TxOK
<1>6. UNCHANGED <<table, keyRows, snapshots, edges, seen, owner, txs, overlap>>
  BY DEF UpsertFinds, KeepTables, KeepMarks
<1>7. txs' \in Nat /\ overlap' \in BOOLEAN /\ KeepsOwners(s)
  BY <1>6 DEF RowsInv, ObjectsTypeOK, KeepsOwners
<1> QED BY <1>3, <1>4, <1>5, <1>6, <1>7, TxStatementOK

(* One row is about to be written.                                         *)
LEMMA SavesOK ==
  ASSUME RowsInv, NEW s \in Session, NEW i \in Number, NEW row \in ObjectRow, Saves(s, i, row),
         \/ RowIsFree(i)
         \/ table[i].version = 0 /\ \A r \in Session : i \notin DOMAIN tx[r].writes,
         tx[s].op # "merge",
         tx[s].op = "upsert" => tx[s].source \in Source /\ tx[s].source \in row.sources,
         row.version = table[i].version + 1,
         table[i].sources \subseteq row.sources, row.into = table[i].into,
         table[i].version > 0 => row.scope = table[i].scope
  PROVE  RowsInv'
<1> DEFINE w == [j \in {i} |-> row]
           n == Saving(tx[s], <<i>>, w)
<1>1. tx \in [Session -> Tx] /\ tx[s] \in Tx /\ owner \in [Number -> Session \cup {"none"}]
  BY DEF RowsInv, ObjectsTypeOK
<1>2. w \in Writes /\ DOMAIN w = {i} /\ w[i] = row
  BY WritesIntro
<1>3. <<i>> \in Seq(Number) /\ <<i>> # <<>> /\ <<i>>[1] = i /\ Len(<<i>>) = 1 /\ DOMAIN <<i>> = {1}
  OBVIOUS
<1> HIDE DEF w
<1>4. /\ n \in Tx /\ n.pc = "index" /\ n.op = tx[s].op /\ n.source = tx[s].source
      /\ n.writes = w /\ n.left = <<i>>
  <2> DEFINE o == <<i>>
  <2>1. o \in Seq(Number) /\ o # <<>> /\ o[1] \in DOMAIN w
    BY <1>2, <1>3
  <2> HIDE DEF o
  <2>2. LET m == Saving(tx[s], o, w)
        IN  m \in Tx /\ m.pc = "index" /\ m.op = tx[s].op /\ m.source = tx[s].source
            /\ m.writes = w /\ m.left = o
    BY <1>1, <1>2, <2>1, SavingIs
  <2> QED BY <2>2 DEF o
<1>5. owner' = [owner EXCEPT ![i] = s] /\ tx' = [tx EXCEPT ![s] = n]
      /\ UNCHANGED <<table, keyRows, snapshots, edges, seen, txs, overlap>>
  BY <1>1 DEF Saves, KeepTables, KeepMarks, w
<1> HIDE DEF n
<1>6. owner'[i] = s /\ KeepsOwners(s)
  BY <1>1, <1>5, ObjectTransactionsAssumption DEF RowIsFree, KeepsOwners
<1>7. WriteOK(s, n, i, table, owner')
  BY <1>2, <1>4, <1>6 DEF WriteOK
<1>8. TxOK(s, n, table, owner')
  BY <1>2, <1>3, <1>4, <1>7 DEF TxOK
<1>9. txs' \in Nat /\ overlap' \in BOOLEAN
  BY <1>5 DEF RowsInv, ObjectsTypeOK
<1> QED BY <1>4, <1>5, <1>6, <1>8, <1>9, TxStatementOK

LEMMA UpsertLocksIs ==
  ASSUME RowsInv, NEW s \in Session, UpsertLocks(s)
  PROVE  LET i == tx[s].id
             row == [table[i] EXCEPT !.sources = @ \cup {tx[s].source}, !.version = @ + 1]
         IN  /\ i \in Number /\ row \in ObjectRow /\ Saves(s, i, row) /\ RowIsFree(i) /\ tx[s].source \in Source
             /\ table[i].version > 0 /\ row.version = table[i].version + 1
             /\ row.into = table[i].into /\ row.scope = table[i].scope /\ row.keys = table[i].keys
             /\ row.state = table[i].state /\ row.sources = table[i].sources \cup {tx[s].source}
<1> DEFINE i == tx[s].id
           row == [table[i] EXCEPT !.sources = @ \cup {tx[s].source}, !.version = @ + 1]
<1>1. /\ TxOK(s, tx[s], table, owner) /\ tx[s].pc = "lock" /\ tx[s].op = "upsert"
      /\ RowIsFree(i) /\ Saves(s, i, row)
  BY DEF RowsInv, TxsOK, UpsertLocks, Stands
<1>2. tx[s].source \in Source /\ i \in Number /\ table[i].version > 0
  BY <1>1 DEF TxOK
<1>3. table[i] \in ObjectRow
  BY <1>2 DEF RowsInv, ObjectsTypeOK
<1> HIDE DEF i
<1>4. table[i].version + 1 \in Nat /\ table[i].sources \cup {tx[s].source} \in SUBSET Source
  BY <1>2, <1>3 DEF ObjectRow
<1>5. /\ row \in ObjectRow /\ row.version = table[i].version + 1 /\ row.into = table[i].into
      /\ row.scope = table[i].scope /\ row.keys = table[i].keys /\ row.state = table[i].state
      /\ row.sources = table[i].sources \cup {tx[s].source}
  BY <1>3, <1>4 DEF ObjectRow
<1> HIDE DEF row
<1> QED BY <1>1, <1>2, <1>5 DEF i, row

LEMMA UpsertLocksOK ==
  ASSUME RowsInv, NEW s \in Session, UpsertLocks(s)
  PROVE  RowsInv'
<1> DEFINE i == tx[s].id
           row == [table[i] EXCEPT !.sources = @ \cup {tx[s].source}, !.version = @ + 1]
<1>1. /\ i \in Number /\ RowIsFree(i) /\ Saves(s, i, row) /\ tx[s].source \in Source
      /\ row \in ObjectRow /\ table[i].version > 0 /\ row.version = table[i].version + 1
      /\ row.into = table[i].into /\ row.scope = table[i].scope
      /\ row.sources = table[i].sources \cup {tx[s].source}
  BY UpsertLocksIs
<1>2. tx[s].op = "upsert"
  BY DEF UpsertLocks
<1> HIDE DEF i, row
<1>3. tx[s].source \in row.sources /\ table[i].sources \subseteq row.sources
  BY <1>1
<1> QED BY <1>1, <1>2, <1>3, SavesOK

LEMMA UpsertInsertsIs ==
  ASSUME RowsInv, NEW s \in Session, UpsertInserts(s)
  PROVE  \E i \in Number, row \in ObjectRow :
           /\ Saves(s, i, row) /\ (\A r \in Session : i \notin DOMAIN tx[r].writes)
           /\ table[i] = NoRow
           /\ row.sources = {tx[s].source} /\ row.version = 1 /\ row.into = 0
           /\ row.scope = tx[s].copy.scope /\ row.keys = tx[s].copy.keys
<1> DEFINE row == [tx[s].copy EXCEPT !.sources = {tx[s].source}, !.version = 1]
<1>1. PICK i \in Number \ Rows : (\A r \in Session : i \notin DOMAIN tx[r].writes) /\ Saves(s, i, row)
  BY DEF UpsertInserts
<1>2. /\ tx[s] \in Tx /\ TxOK(s, tx[s], table, owner) /\ tx[s].pc = "lookup" /\ table[i] \in ObjectRow
  BY DEF RowsInv, ObjectsTypeOK, TxsOK, UpsertInserts, Stands
<1>3. tx[s].source \in Source /\ tx[s].copy \in ObjectRow /\ tx[s].copy.into = 0 /\ tx[s].op = "upsert"
  BY <1>2 DEF TxOK, Tx
<1>4. table[i] = NoRow
  <2>1. table[i].version = 0
    BY <1>1, <1>2 DEF Rows, ObjectRow
  <2> QED BY <2>1 DEF RowsInv, EmptyOK
<1>5. /\ row \in ObjectRow /\ row.sources = {tx[s].source} /\ row.version = 1 /\ row.into = 0
      /\ row.scope = tx[s].copy.scope /\ row.keys = tx[s].copy.keys
  <2>1. {tx[s].source} \in SUBSET Source
    BY <1>3
  <2> QED BY <1>3, <2>1 DEF ObjectRow
<1> HIDE DEF row
<1> QED BY <1>1, <1>4, <1>5

LEMMA UpsertInsertsOK ==
  ASSUME RowsInv, NEW s \in Session, UpsertInserts(s)
  PROVE  RowsInv'
<1>1. PICK i \in Number, row \in ObjectRow :
        /\ Saves(s, i, row) /\ (\A r \in Session : i \notin DOMAIN tx[r].writes)
        /\ table[i] = NoRow
        /\ row.sources = {tx[s].source} /\ row.version = 1 /\ row.into = 0
  BY UpsertInsertsIs
<1>2. tx[s].op = "upsert" /\ tx[s].source \in Source
  BY DEF RowsInv, TxsOK, TxOK, UpsertInserts, Stands
<1>3. /\ table[i].version = 0 /\ table[i].sources = {} /\ table[i].into = 0
      /\ row.version = table[i].version + 1
  BY <1>1 DEF NoRow
<1>4. tx[s].source \in row.sources /\ table[i].sources \subseteq row.sources
  BY <1>1, <1>3
<1> QED BY <1>1, <1>2, <1>3, <1>4, SavesOK

LEMMA ChangedRowIs ==
  ASSUME RowsInv, NEW s \in Session, tx[s].pc = "lock", tx[s].op \notin {"upsert", "merge"}, Permitted(s)
  PROVE  LET old == table[tx[s].id]
             row == ChangedRow(s)
         IN  /\ tx[s].id \in Number /\ row \in ObjectRow /\ old \in ObjectRow /\ old.version > 0
             /\ row.version = old.version + 1 /\ row.scope = old.scope /\ row.keys = old.keys
             /\ row.sources = old.sources /\ row.into = old.into
             /\ row.state = old.state \/ row.state \in VALID_TRANSITIONS[old.state]
<1> DEFINE old == table[tx[s].id]
           row == ChangedRow(s)
<1>1. tx[s] \in Tx /\ TxOK(s, tx[s], table, owner)
  BY DEF RowsInv, ObjectsTypeOK, TxsOK
<1>2. /\ tx[s].id \in Number /\ old.version > 0 /\ tx[s].op \in {"update"} \cup States
      /\ tx[s].copy = old
  BY <1>1 DEF TxOK, Permitted, VersionHolds
<1>3. old \in ObjectRow
  BY <1>2 DEF RowsInv, ObjectsTypeOK
<1> HIDE DEF old
<1>4. old.version + 1 \in Nat
  BY <1>3 DEF ObjectRow
<1>5. CASE tx[s].op = "update"
  <2>1. row = [old EXCEPT !.version = @ + 1]
    BY <1>2, <1>5 DEF ChangedRow
  <2> QED BY <1>2, <1>3, <1>4, <2>1 DEF ObjectRow, old
<1>6. CASE tx[s].op # "update"
  <2>1. row = [old EXCEPT !.state = tx[s].op, !.version = @ + 1] /\ tx[s].op \in States
        /\ tx[s].op \in VALID_TRANSITIONS[old.state]
    BY <1>2, <1>6 DEF ChangedRow, Permitted, old
  <2>2. /\ row \in ObjectRow /\ row.version = old.version + 1 /\ row.scope = old.scope /\ row.keys = old.keys
        /\ row.sources = old.sources /\ row.into = old.into /\ row.state = tx[s].op
    BY <1>3, <1>4, <2>1 DEF ObjectRow
  <2> QED BY <1>2, <1>3, <2>1, <2>2 DEF old
<1> QED BY <1>5, <1>6

LEMMA ChangeLocksOK ==
  ASSUME RowsInv, NEW s \in Session, ChangeLocks(s)
  PROVE  RowsInv'
<1>1. CASE ~ Permitted(s) /\ Closes(s) /\ KeepTables
  BY <1>1, ClosesOK
<1>2. CASE Permitted(s) /\ Saves(s, tx[s].id, ChangedRow(s))
  <2>1. tx[s].pc = "lock" /\ tx[s].op \notin {"upsert", "merge"} /\ RowIsFree(tx[s].id)
    BY DEF ChangeLocks, Stands
  <2>2. /\ tx[s].id \in Number /\ ChangedRow(s) \in ObjectRow
        /\ ChangedRow(s).version = table[tx[s].id].version + 1
        /\ ChangedRow(s).scope = table[tx[s].id].scope
        /\ ChangedRow(s).sources = table[tx[s].id].sources
        /\ ChangedRow(s).into = table[tx[s].id].into
    BY <1>2, <2>1, ChangedRowIs
  <2> QED BY <1>2, <2>1, <2>2, SavesOK
<1> QED BY <1>1, <1>2 DEF ChangeLocks

LEMMA MergeLocksSurvivorOK ==
  ASSUME RowsInv, NEW s \in Session, MergeLocksSurvivor(s)
  PROVE  RowsInv'
<1> DEFINE n == [tx[s] EXCEPT !.pc = "lock2"]
<1>1. /\ tx \in [Session -> Tx] /\ tx[s] \in Tx /\ TxOK(s, tx[s], table, owner)
      /\ tx[s].pc = "lock" /\ tx[s].op = "merge" /\ RowIsFree(tx[s].id)
      /\ owner \in [Number -> Session \cup {"none"}]
  BY DEF RowsInv, ObjectsTypeOK, TxsOK, MergeLocksSurvivor, Stands
<1>2. tx[s].id \in Number
  BY <1>1 DEF TxOK
<1>3. /\ n \in Tx /\ n.pc = "lock2" /\ n.op = "merge" /\ n.id = tx[s].id /\ n.other = tx[s].other
      /\ n.writes = tx[s].writes /\ n.dropped = tx[s].dropped /\ n.added = tx[s].added
  BY <1>1 DEF Tx
<1>4. /\ tx' = [tx EXCEPT ![s] = n] /\ owner' = [owner EXCEPT ![tx[s].id] = s]
      /\ UNCHANGED <<table, keyRows, snapshots, edges, seen, txs, overlap>>
  BY DEF MergeLocksSurvivor, KeepTables, KeepMarks
<1> HIDE DEF n
<1>5. KeepsOwners(s) /\ owner'[tx[s].id] = s
  BY <1>1, <1>2, <1>4, ObjectTransactionsAssumption DEF RowIsFree, KeepsOwners
<1>6. TxOK(s, n, table, owner')
  BY <1>1, <1>3, <1>5 DEF TxOK
<1>7. txs' \in Nat /\ overlap' \in BOOLEAN
  BY <1>4 DEF RowsInv, ObjectsTypeOK
<1> QED BY <1>3, <1>4, <1>5, <1>6, <1>7, TxStatementOK

\* The rows w that a merge of j into i writes
MergeWrites(i, j, w) ==
  /\ w \in Writes /\ DOMAIN w = {i, j}
  /\ w[i].version = table[i].version + 1 /\ w[j].version = table[j].version + 1
  /\ w[i].sources = table[i].sources \cup table[j].sources /\ w[j].sources = table[j].sources
  /\ w[i].keys = table[i].keys \cup table[j].keys /\ w[j].keys = table[j].keys
  /\ w[i].scope = table[i].scope /\ w[j].scope = table[j].scope
  /\ w[i].into = table[i].into /\ w[j].into = i
  /\ w[i].state = table[i].state /\ w[j].state = "merged"

LEMMA MergedRowsIs ==
  ASSUME NEW i \in Number, NEW j \in Number, i # j, table \in [Number -> ObjectRow]
  PROVE  MergeWrites(i, j, MergedRows(i, j))
<1> DEFINE a == [table[i] EXCEPT !.sources = @ \cup table[j].sources,
                                 !.keys = @ \cup table[j].keys, !.version = @ + 1]
           b == [table[j] EXCEPT !.state = "merged", !.into = i, !.version = @ + 1]
<1>1. table[i] \in ObjectRow /\ table[j] \in ObjectRow
  OBVIOUS
<1>2. /\ table[i].version + 1 \in Nat /\ table[j].version + 1 \in Nat
      /\ table[i].sources \cup table[j].sources \in SUBSET Source
      /\ table[i].keys \cup table[j].keys \in SUBSET NaturalKey
  BY <1>1 DEF ObjectRow
<1>3. /\ a \in ObjectRow /\ a.version = table[i].version + 1 /\ a.scope = table[i].scope
      /\ a.sources = table[i].sources \cup table[j].sources /\ a.keys = table[i].keys \cup table[j].keys
      /\ a.into = table[i].into /\ a.state = table[i].state
  BY <1>1, <1>2 DEF ObjectRow
<1>4. /\ b \in ObjectRow /\ b.version = table[j].version + 1 /\ b.scope = table[j].scope
      /\ b.sources = table[j].sources /\ b.keys = table[j].keys /\ b.into = i /\ b.state = "merged"
  BY <1>1, <1>2 DEF ObjectRow, States
<1>5. MergedRows(i, j) = [n \in {i, j} |-> IF n = i THEN a ELSE b]
  BY DEF MergedRows
<1> HIDE DEF a, b
<1>6. MergedRows(i, j) \in [{i, j} -> ObjectRow] /\ MergedRows(i, j)[i] = a /\ MergedRows(i, j)[j] = b
  BY <1>3, <1>4, <1>5
<1>7. MergedRows(i, j) \in Writes
  <2>1. {i, j} \in SUBSET Number
    OBVIOUS
  <2> QED BY <1>6, <2>1, WritesIntro
<1> QED BY <1>3, <1>4, <1>5, <1>6, <1>7 DEF MergeWrites

LEMMA MergeLocksDuplicateOK ==
  ASSUME RowsInv, NEW s \in Session, MergeLocksDuplicate(s)
  PROVE  RowsInv'
<1> DEFINE i == tx[s].id
           j == tx[s].other
           w == MergedRows(i, j)
           o == <<i, j>>
           n == Saving(tx[s], o, w)
<1>1. /\ tx \in [Session -> Tx] /\ tx[s] \in Tx /\ TxOK(s, tx[s], table, owner) /\ KeepTables
      /\ tx[s].pc = "lock2" /\ tx[s].op = "merge" /\ RowIsFree(j)
      /\ owner \in [Number -> Session \cup {"none"}] /\ table \in [Number -> ObjectRow]
  BY DEF RowsInv, ObjectsTypeOK, TxsOK, MergeLocksDuplicate, Stands, TxOK
<1>2. i \in Number /\ j \in Number /\ i # j /\ owner[i] = s /\ table[i].version > 0 /\ table[j].version > 0
  BY <1>1 DEF TxOK
<1>3. CASE table[i].scope # table[j].scope
  BY <1>1, <1>3, ClosesOK DEF MergeLocksDuplicate
<1>4. CASE table[i].scope = table[j].scope
  <2>1. /\ owner' = [owner EXCEPT ![j] = s] /\ tx' = [tx EXCEPT ![s] = n]
        /\ UNCHANGED <<table, keyRows, snapshots, edges, seen, txs, overlap>>
    BY <1>1, <1>4 DEF MergeLocksDuplicate, KeepTables, KeepMarks
  <2> HIDE DEF i, j
  <2>2. /\ w \in Writes /\ DOMAIN w = {i, j}
        /\ w[i].version = table[i].version + 1 /\ w[j].version = table[j].version + 1
        /\ w[i].sources = table[i].sources \cup table[j].sources /\ w[j].sources = table[j].sources
        /\ w[i].scope = table[i].scope /\ w[j].scope = table[j].scope
        /\ w[i].into = table[i].into /\ w[j].into = i
    <3>1. MergeWrites(i, j, w)
      BY <1>1, <1>2, MergedRowsIs
    <3> HIDE DEF w
    <3> QED BY <3>1 DEF MergeWrites
  <2>3. /\ o \in Seq(Number) /\ o # <<>> /\ o[1] = i /\ o[1] \in DOMAIN w
        /\ DOMAIN o = {1, 2} /\ \A m \in DOMAIN o : o[m] \in DOMAIN w
    BY <1>2, <2>2
  <2> HIDE DEF w, o
  <2>4. /\ n \in Tx /\ n.pc = "index" /\ n.op = "merge" /\ n.writes = w /\ n.left = o
        /\ n.id = i /\ n.other = j
    BY <1>1, <2>2, <2>3, SavingIs DEF i, j
  <2> HIDE DEF n
  <2>5. KeepsOwners(s) /\ owner'[i] = s /\ owner'[j] = s
    BY <1>1, <1>2, <2>1, ObjectTransactionsAssumption DEF RowIsFree, KeepsOwners
  <2>6. WriteOK(s, n, i, table, owner') /\ WriteOK(s, n, j, table, owner')
    BY <1>2, <2>2, <2>4, <2>5 DEF WriteOK
  <2>7. TxOK(s, n, table, owner')
    BY <1>4, <2>2, <2>3, <2>4, <2>6 DEF TxOK
  <2>8. txs' \in Nat /\ overlap' \in BOOLEAN
    BY <2>1 DEF RowsInv, ObjectsTypeOK
  <2> QED BY <2>1, <2>4, <2>5, <2>7, <2>8, TxStatementOK
<1> QED BY <1>3, <1>4

(* The index of natural keys leaves the rows to be written alone.          *)
LEMMA IndexStepOK ==
  ASSUME RowsInv, NEW s \in Session, NEW n \in Tx, tx' = [tx EXCEPT ![s] = n], KeepTables, KeepMarks,
         UNCHANGED owner, tx[s].pc = "index",
         n.pc = "index", n.op = tx[s].op, n.source = tx[s].source, n.writes = tx[s].writes,
         n.id = tx[s].id, n.other = tx[s].other,
         n.left # <<>>, \A m \in DOMAIN n.left : n.left[m] \in DOMAIN n.writes, n.op = "upsert" => n.left = tx[s].left
  PROVE  RowsInv'
<1>1. TxOK(s, tx[s], table, owner)
  BY DEF RowsInv, TxsOK
<1>2. \A i \in DOMAIN n.writes : WriteOK(s, n, i, table, owner)
  BY <1>1 DEF TxOK, WriteOK
<1>3. TxOK(s, n, table, owner)
  BY <1>1, <1>2 DEF TxOK
<1>4. txs' \in Nat /\ overlap' \in BOOLEAN /\ KeepsOwners(s)
  BY DEF RowsInv, ObjectsTypeOK, KeepsOwners, KeepMarks
<1> QED BY <1>3, <1>4, TxStatementOK DEF KeepTables

LEMMA TxAbortsOK ==
  ASSUME RowsInv, NEW s \in Session, TxAborts(s)
  PROVE  RowsInv'
BY ClosesOK DEF TxAborts

LEMMA KeyInsertsOK ==
  ASSUME RowsInv, NEW s \in Session, NEW k \in NaturalKey, KeyInserts(s, k)
  PROVE  RowsInv'
<1> DEFINE added == IF Taken(s, KeyRow(s, k)) THEN tx[s].added ELSE tx[s].added \cup {KeyRow(s, k)}
           n == [tx[s] EXCEPT !.missing = @ \ {k}, !.added = added]
<1>1. /\ tx \in [Session -> Tx] /\ tx[s] \in Tx /\ TxOK(s, tx[s], table, owner) /\ tx[s].pc = "index"
      /\ tx' = [tx EXCEPT ![s] = n] /\ KeepTables /\ KeepMarks /\ UNCHANGED owner
  BY DEF RowsInv, ObjectsTypeOK, TxsOK, KeyInserts, Stands
<1>2. /\ tx[s].left # <<>> /\ \A m \in DOMAIN tx[s].left : tx[s].left[m] \in DOMAIN tx[s].writes
      /\ 1 \in DOMAIN tx[s].left
  BY <1>1 DEF TxOK, Tx
<1>3. KeyRow(s, k) \in NkRow
  <2>1. tx[s].writes[tx[s].left[1]] \in ObjectRow /\ tx[s].left[1] \in Number
    BY <1>1, <1>2, WritesElim DEF Tx
  <2> QED BY <2>1 DEF KeyRow, NkRow, ObjectRow
<1>4. added \in SUBSET NkRow
  BY <1>1, <1>3 DEF Tx
<1> HIDE DEF added
<1>5. /\ n \in Tx /\ n.pc = "index" /\ n.op = tx[s].op /\ n.source = tx[s].source
      /\ n.writes = tx[s].writes /\ n.left = tx[s].left /\ n.id = tx[s].id /\ n.other = tx[s].other
  BY <1>1, <1>4 DEF Tx
<1> HIDE DEF n
<1> QED BY <1>1, <1>2, <1>5, IndexStepOK

LEMMA NextSavesOK ==
  ASSUME RowsInv, NEW s \in Session, NextSaves(s)
  PROVE  RowsInv'
<1> DEFINE j == tx[s].left[2]
           left == Tail(tx[s].left)
           n == [tx[s] EXCEPT !.left = left, !.dropped = @ \cup {j}, !.missing = tx[s].writes[j].keys]
<1>1. /\ tx \in [Session -> Tx] /\ tx[s] \in Tx /\ TxOK(s, tx[s], table, owner) /\ tx[s].pc = "index"
      /\ tx' = [tx EXCEPT ![s] = n] /\ KeepTables /\ KeepMarks /\ UNCHANGED owner /\ Len(tx[s].left) > 1
  BY DEF RowsInv, ObjectsTypeOK, TxsOK, NextSaves, Stands
<1>2. tx[s].left \in Seq(Number) /\ left \in Seq(Number) /\ left # <<>>
      /\ 2 \in DOMAIN tx[s].left /\ j \in Number
  <2>1. tx[s].left \in Seq(Number)
    BY <1>1 DEF Tx
  <2>2. left \in Seq(Number) /\ Len(left) = Len(tx[s].left) - 1
    BY <1>1, <2>1
  <2>3. 2 \in DOMAIN tx[s].left
    BY <1>1, <2>1
  <2>4. left # <<>>
    <3>1. Len(tx[s].left) \in Nat /\ Len(tx[s].left) > 1 /\ Len(<<>>) = 0
      BY <1>1, <2>1
    <3> HIDE DEF left
    <3> QED BY <2>2, <3>1
  <2> QED BY <2>1, <2>2, <2>3, <2>4
<1>3. j \in DOMAIN tx[s].writes /\ \A m \in DOMAIN left : left[m] \in DOMAIN tx[s].writes
  <2>1. DOMAIN left = 1 .. Len(tx[s].left) - 1 /\ \A m \in DOMAIN left : left[m] = tx[s].left[m + 1]
    BY <1>1, <1>2
  <2>2. \A m \in DOMAIN tx[s].left : tx[s].left[m] \in DOMAIN tx[s].writes
    BY <1>1 DEF TxOK
  <2>3. Len(tx[s].left) \in Nat /\ DOMAIN tx[s].left = 1 .. Len(tx[s].left)
    BY <1>2
  <2> QED BY <1>1, <2>1, <2>2, <2>3
<1>4. tx[s].writes[j].keys \in SUBSET NaturalKey
  BY <1>1, <1>3, WritesElim DEF Tx, ObjectRow
<1> HIDE DEF left, j
<1>5. /\ n \in Tx /\ n.pc = "index" /\ n.op = tx[s].op /\ n.source = tx[s].source
      /\ n.writes = tx[s].writes /\ n.left = left /\ n.id = tx[s].id /\ n.other = tx[s].other
  BY <1>1, <1>2, <1>4 DEF Tx
<1>6. tx[s].op # "upsert"
  <2>1. tx[s].op = "upsert" => Len(tx[s].left) = 1
    BY <1>1, Zenon DEF TxOK
  <2> QED BY <1>1, <1>2, <2>1
<1> HIDE DEF n
<1> QED BY <1>1, <1>2, <1>3, <1>5, <1>6, IndexStepOK

-----------------------------------------------------------------------------
(* Rows: a commit                                                          *)

LEMMA CommitIs ==
  ASSUME RowsInv, NEW s \in Session, TxCommits(s)
  PROVE  LET new == tx[s].writes
         IN  /\ table' \in [Number -> ObjectRow] /\ snapshots' \in [Number -> Seq(ObjectRow)]
             /\ DOMAIN new \in SUBSET Number /\ DOMAIN new # {}
             /\ \A i \in DOMAIN new : new[i] \in ObjectRow /\ WriteOK(s, tx[s], i, table, owner)
             /\ tx[s].left[1] \in DOMAIN new
             /\ \A i \in Number : /\ i \in DOMAIN new => table'[i] = new[i] /\ table'[i].version = table[i].version + 1
                                                         /\ snapshots'[i] = Append(snapshots[i], new[i])
                                  /\ i \notin DOMAIN new => table'[i] = table[i] /\ snapshots'[i] = snapshots[i]
                                  /\ table[i].version \in Nat /\ table[i].sources \subseteq table'[i].sources
<1> DEFINE new == tx[s].writes
<1>1. /\ tx[s] \in Tx /\ TxOK(s, tx[s], table, owner) /\ tx[s].pc = "index"
      /\ table \in [Number -> ObjectRow] /\ snapshots \in [Number -> Seq(ObjectRow)]
  BY DEF RowsInv, ObjectsTypeOK, TxsOK, TxCommits, Stands
<1>2. DOMAIN new \in SUBSET Number /\ (\A i \in DOMAIN new : new[i] \in ObjectRow /\ WriteOK(s, tx[s], i, table, owner))
      /\ tx[s].left[1] \in DOMAIN new
  <2>1. 1 \in DOMAIN tx[s].left
    BY <1>1 DEF Tx, TxOK
  <2> QED BY <1>1, <2>1, WritesElim DEF TxOK, Tx
<1>3. /\ table' = [i \in Number |-> IF i \in DOMAIN new THEN new[i] ELSE table[i]]
      /\ snapshots' = [i \in Number |-> IF i \in DOMAIN new THEN Append(snapshots[i], new[i]) ELSE snapshots[i]]
  BY DEF TxCommits
<1>4. table' \in [Number -> ObjectRow] /\ snapshots' \in [Number -> Seq(ObjectRow)]
  BY <1>1, <1>2, <1>3
<1>5. \A i \in Number : /\ i \in DOMAIN new => table'[i] = new[i] /\ table'[i].version = table[i].version + 1
                        /\ i \notin DOMAIN new => table'[i] = table[i]
                        /\ table[i].sources \subseteq table'[i].sources
  BY <1>1, <1>2, <1>3 DEF WriteOK
<1>6. \A i \in Number : table[i].version \in Nat
  BY <1>1 DEF ObjectRow
<1> QED BY <1>2, <1>3, <1>4, <1>5, <1>6

LEMMA CommitKeepsRows ==
  ASSUME RowsInv, NEW s \in Session, TxCommits(s)
  PROVE  RowsLoseNothing'
<1> DEFINE new == tx[s].writes
<1>1. /\ table' \in [Number -> ObjectRow] /\ DOMAIN new \in SUBSET Number
      /\ \A i \in DOMAIN new : new[i] \in ObjectRow /\ WriteOK(s, tx[s], i, table, owner)
      /\ \A i \in Number : /\ i \in DOMAIN new => table'[i] = new[i] /\ table'[i].version = table[i].version + 1
                                                  /\ snapshots'[i] = Append(snapshots[i], new[i])
                           /\ i \notin DOMAIN new => table'[i] = table[i] /\ snapshots'[i] = snapshots[i]
                           /\ table[i].version \in Nat /\ table[i].sources \subseteq table'[i].sources
      /\ tx[s].left[1] \in DOMAIN new
  BY CommitIs
<1>2. /\ EveryVersionIsRecorded /\ SourcesAreCarried /\ snapshots \in [Number -> Seq(ObjectRow)]
      /\ TxOK(s, tx[s], table, owner) /\ tx[s].pc = "index" /\ seen \in SUBSET (Number \X Source)
      /\ EmptyOK /\ tx[s] \in Tx
  BY DEF RowsInv, RowsLoseNothing, ObjectsTypeOK, TxsOK, TxCommits, Stands
<1> HIDE DEF new
<1>3. EveryVersionIsRecorded'
  <2> SUFFICES ASSUME NEW i \in Number
               PROVE  /\ Len(snapshots'[i]) = table'[i].version
                      /\ \A v \in DOMAIN snapshots'[i] : snapshots'[i][v].version = v
                      /\ i \in Rows' => snapshots'[i][table'[i].version] = table'[i]
    BY DEF EveryVersionIsRecorded
  <2>1. CASE i \notin DOMAIN new
    BY <1>1, <1>2, <2>1 DEF EveryVersionIsRecorded, Rows
  <2>2. CASE i \in DOMAIN new
    <3>1. /\ snapshots[i] \in Seq(ObjectRow) /\ Len(snapshots[i]) = table[i].version
          /\ \A v \in DOMAIN snapshots[i] : snapshots[i][v].version = v
      BY <1>2 DEF EveryVersionIsRecorded
    <3>2. /\ new[i] \in ObjectRow /\ new[i].version = table[i].version + 1
          /\ snapshots'[i] = Append(snapshots[i], new[i]) /\ table'[i] = new[i]
      BY <1>1, <2>2
    <3>3. /\ Len(snapshots'[i]) = Len(snapshots[i]) + 1
          /\ snapshots'[i][Len(snapshots[i]) + 1] = new[i]
          /\ \A v \in 1 .. Len(snapshots[i]) : snapshots'[i][v] = snapshots[i][v]
          /\ DOMAIN snapshots'[i] = 1 .. Len(snapshots[i]) + 1
          /\ DOMAIN snapshots[i] = 1 .. Len(snapshots[i]) /\ Len(snapshots[i]) \in Nat
      BY <3>1, <3>2
    <3> QED BY <3>1, <3>2, <3>3
  <2> QED BY <2>1, <2>2
<1>4. SourcesAreCarried'
  <2>1. ASSUME NEW o \in seen' PROVE o[2] \in table'[o[1]].sources
    <3>1. CASE o \in seen
      BY <1>1, <1>2, <3>1 DEF SourcesAreCarried
    <3>2. CASE o \notin seen
      <4>1. tx[s].op = "upsert" /\ o = <<tx[s].left[1], tx[s].source>>
        BY <2>1, <3>2 DEF TxCommits
      <4>2. tx[s].source \in new[tx[s].left[1]].sources
        BY <1>2, <4>1 DEF TxOK, new
      <4> QED BY <1>1, <4>1, <4>2
    <3> QED BY <3>1, <3>2
  <2>2. ASSUME NEW i \in Rows', NEW v \in DOMAIN snapshots'[i],
               snapshots'[i][v].into # 0,
               v = 1 \/ snapshots'[i][v - 1].into # snapshots'[i][v].into
        PROVE  snapshots'[i][v].sources \subseteq table'[snapshots'[i][v].into].sources
    <3> DEFINE old == snapshots'[i][v]
    <3>1. i \in Number /\ snapshots[i] \in Seq(ObjectRow)
      BY <1>2 DEF Rows
    <3>2. ASSUME v \in DOMAIN snapshots[i], snapshots'[i][v] = snapshots[i][v],
                 v = 1 \/ snapshots'[i][v - 1] = snapshots[i][v - 1]
          PROVE  old.sources \subseteq table'[old.into].sources
      <4>1. old \in ObjectRow /\ old.into \in Number
        <5>1. snapshots[i][v] \in ObjectRow
          BY <3>1, <3>2
        <5>2. snapshots[i][v].into \in Number \cup {0}
          BY <5>1 DEF ObjectRow
        <5> QED BY <2>2, <3>2, <5>1, <5>2
      <4>2. i \in Rows
        <5>1. Len(snapshots[i]) = table[i].version
          BY <1>2, <3>1 DEF EveryVersionIsRecorded
        <5>2. Len(snapshots[i]) > 0
          BY <3>1, <3>2
        <5> QED BY <3>1, <5>1, <5>2 DEF Rows
      <4>3. old.sources \subseteq table[old.into].sources
        BY <1>2, <2>2, <3>2, <4>2 DEF SourcesAreCarried
      <4> QED BY <1>1, <4>1, <4>3
    <3>3. CASE i \notin DOMAIN new
      BY <1>1, <3>1, <3>2, <3>3
    <3>4. CASE i \in DOMAIN new
      <4>1. /\ snapshots'[i] = Append(snapshots[i], new[i]) /\ new[i] \in ObjectRow
            /\ WriteOK(s, tx[s], i, table, owner)
            /\ Len(snapshots[i]) = table[i].version
        BY <1>1, <1>2, <3>1, <3>4 DEF EveryVersionIsRecorded
      <4>2. /\ snapshots'[i][Len(snapshots[i]) + 1] = new[i]
            /\ \A u \in 1 .. Len(snapshots[i]) : snapshots'[i][u] = snapshots[i][u]
            /\ DOMAIN snapshots'[i] = 1 .. Len(snapshots[i]) + 1
            /\ DOMAIN snapshots[i] = 1 .. Len(snapshots[i]) /\ Len(snapshots[i]) \in Nat
        BY <3>1, <4>1
      <4>3. CASE v \in 1 .. Len(snapshots[i])
        <5>1. v = 1 \/ v - 1 \in 1 .. Len(snapshots[i])
          BY <4>2, <4>3
        <5> QED BY <3>2, <4>2, <4>3, <5>1
      <4>4. CASE v = Len(snapshots[i]) + 1
        <5>1. old = new[i] /\ new[i].into # 0
          BY <2>2, <4>2, <4>4
        <5>2. table[i].into # new[i].into
          <6>1. CASE table[i].version = 0
            BY <1>2, <3>1, <5>1, <6>1 DEF EmptyOK, NoRow
          <6>2. CASE table[i].version # 0
            <7>1. table[i].version > 0 /\ v # 1 /\ v - 1 = table[i].version
              BY <1>1, <3>1, <4>1, <4>2, <4>4, <6>2
            <7>2. snapshots[i][table[i].version] = table[i]
              BY <1>2, <3>1, <7>1 DEF EveryVersionIsRecorded, Rows
            <7>3. snapshots'[i][v - 1] = table[i]
              BY <4>1, <4>2, <7>1, <7>2
            <7> QED BY <2>2, <5>1, <7>1, <7>3
          <6> QED BY <6>1, <6>2
        <5>3. new[i].into \in DOMAIN new /\ new[i].sources \subseteq new[new[i].into].sources
          BY <4>1, <5>2 DEF WriteOK, new
        <5> QED BY <1>1, <5>1, <5>3
      <4> QED BY <4>2, <4>3, <4>4
    <3> QED BY <3>3, <3>4
  <2> QED BY <2>1, <2>2 DEF SourcesAreCarried
<1> QED BY <1>3, <1>4 DEF RowsLoseNothing

LEMMA TxCommitsOK ==
  ASSUME RowsInv, NEW s \in Session, TxCommits(s)
  PROVE  RowsInv'
<1> DEFINE new == tx[s].writes
<1>1. /\ table' \in [Number -> ObjectRow] /\ snapshots' \in [Number -> Seq(ObjectRow)] /\ DOMAIN new \in SUBSET Number
      /\ \A i \in DOMAIN new : new[i] \in ObjectRow /\ WriteOK(s, tx[s], i, table, owner)
      /\ \A i \in Number : /\ i \in DOMAIN new => table'[i] = new[i] /\ table'[i].version = table[i].version + 1
                           /\ i \notin DOMAIN new => table'[i] = table[i]
                           /\ table[i].version \in Nat
      /\ tx[s].left[1] \in DOMAIN new
  BY CommitIs
<1>2. /\ tx \in [Session -> Tx] /\ tx[s] \in Tx /\ TxOK(s, tx[s], table, owner) /\ tx[s].pc = "index"
      /\ table \in [Number -> ObjectRow] /\ owner \in [Number -> Session \cup {"none"}]
      /\ keyRows \in SUBSET NkRow /\ edges \in SUBSET [from : Number, to : Number]
      /\ seen \in SUBSET (Number \X Source) /\ txs \in Nat /\ overlap \in BOOLEAN /\ EmptyOK
  BY DEF RowsInv, ObjectsTypeOK, TxsOK, TxCommits, Stands
<1>3. /\ keyRows' = {kr \in keyRows : kr.id \notin tx[s].dropped} \cup tx[s].added
      /\ edges' = IF tx[s].op = "merge" THEN {Repointed(e, tx[s].id, tx[s].other) : e \in edges} ELSE edges
      /\ seen' = IF tx[s].op = "upsert" THEN seen \cup {<<tx[s].left[1], tx[s].source>>} ELSE seen
      /\ tx' = [tx EXCEPT ![s] = NoTx]
      /\ owner' = [i \in Number |-> IF owner[i] = s THEN "none" ELSE owner[i]]
      /\ txs' = txs /\ overlap' = overlap
  BY DEF TxCommits, Closes, KeepMarks
<1> HIDE DEF new
<1>4. ObjectsTypeOK'
  <2>1. keyRows' \in SUBSET NkRow /\ tx' \in [Session -> Tx] /\ owner' \in [Number -> Session \cup {"none"}]
    BY <1>2, <1>3, EmptyTypes DEF Tx
  <2>2. edges' \in SUBSET [from : Number, to : Number]
    <3>1. CASE tx[s].op = "merge"
      <4>1. tx[s].id \in Number
        BY <1>1, <1>2, <3>1 DEF TxOK, new
      <4>2. \A e \in edges : Repointed(e, tx[s].id, tx[s].other) \in [from : Number, to : Number]
        BY <1>2, <4>1 DEF Repointed
      <4> QED BY <1>3, <3>1, <4>2
    <3> QED BY <1>2, <1>3, <3>1
  <2>3. seen' \in SUBSET (Number \X Source)
    BY <1>1, <1>2, <1>3 DEF TxOK
  <2> QED BY <1>1, <1>2, <1>3, <2>1, <2>2, <2>3 DEF ObjectsTypeOK
<1>5. ASSUME NEW r \in Session PROVE TxOK(r, tx'[r], table', owner')
  <2>1. CASE r = s
    BY <1>2, <1>3, <2>1, NoTxOK
  <2>2. CASE r # s
    <3>1. tx'[r] = tx[r] /\ tx[r] \in Tx /\ TxOK(r, tx[r], table, owner)
      BY <1>2, <1>3, <2>2 DEF RowsInv, TxsOK
    <3>2. \A i \in DOMAIN tx[r].writes : owner[i] = r
      BY <3>1 DEF TxOK, WriteOK
    <3>3. \A i \in Number :
            /\ table'[i] = table[i] \/ (table'[i].version > table[i].version /\ i \notin DOMAIN tx[r].writes)
            /\ owner[i] = r => owner'[i] = r \/ (table[i].version = 0 /\ i \notin DOMAIN tx[r].writes)
      <4>1. \A i \in DOMAIN new : owner[i] = s
        BY <1>1 DEF WriteOK
      <4> QED BY <1>1, <1>3, <2>2, <3>2, <4>1
    <3>4. TxOK(r, tx[r], table', owner')
      <4>1. table \in [Number -> ObjectRow] /\ table' \in [Number -> ObjectRow]
        BY <1>1, <1>2
      <4> QED BY ONLY <3>1, <3>3, <4>1, TxKept, ZenonT(40)
    <3> QED BY <3>1, <3>4
  <2> QED BY <2>1, <2>2
<1>6. EmptyOK'
  <2>1. ASSUME NEW i \in Number, table'[i].version = 0 PROVE table'[i] = table[i]
    <3>1. i \notin DOMAIN new
      <4>1. /\ i \in DOMAIN new => table'[i].version = table[i].version + 1
            /\ table[i].version \in Nat
        BY <1>1
      <4> HIDE DEF new
      <4> QED BY <2>1, <4>1
    <3> QED BY <1>1, <3>1
  <2> QED BY <1>2, <2>1 DEF EmptyOK
<1>7. RowsLoseNothing'
  BY CommitKeepsRows
<1> QED BY <1>4, <1>5, <1>6, <1>7 DEF RowsInv, TxsOK

LEMMA RelatesOK ==
  ASSUME RowsInv, NEW i \in Number, NEW j \in Number, Relates(i, j)
  PROVE  RowsInv'
<1>1. ObjectsTypeOK'
  BY DEF RowsInv, ObjectsTypeOK, Relates
<1>2. TxsOK' /\ EmptyOK' /\ RowsLoseNothing'
  BY DEF RowsInv, Relates, TxsOK, EmptyOK, RowsLoseNothing, EveryVersionIsRecorded, SourcesAreCarried, Rows
<1> QED BY <1>1, <1>2 DEF RowsInv

-----------------------------------------------------------------------------
LEMMA RowsInit == ObjectsInit => RowsInv
<1> SUFFICES ASSUME ObjectsInit PROVE RowsInv
  OBVIOUS
<1>1. table \in [Number -> ObjectRow] /\ tx \in [Session -> Tx]
  BY EmptyTypes DEF ObjectsInit
<1>2. snapshots \in [Number -> Seq(ObjectRow)]
  <2>1. <<>> \in Seq(ObjectRow)
    OBVIOUS
  <2> QED BY <2>1 DEF ObjectsInit
<1>3. ObjectsTypeOK
  BY <1>1, <1>2 DEF ObjectsInit, ObjectsTypeOK
<1>4. TxsOK /\ EmptyOK
  BY NoTxOK DEF ObjectsInit, TxsOK, EmptyOK
<1>5. RowsLoseNothing
  BY DEF ObjectsInit, RowsLoseNothing, EveryVersionIsRecorded, SourcesAreCarried, Rows, NoRow
<1> QED BY <1>3, <1>4, <1>5 DEF RowsInv

LEMMA RowsStep == RowsInv /\ [ObjectsNext]_objectVars => RowsInv'
<1> SUFFICES ASSUME RowsInv, [ObjectsNext]_objectVars PROVE RowsInv'
  OBVIOUS
<1>1. ASSUME NEW s \in Session, NEW scope \in Scope, NEW keys \in SUBSET NaturalKey, NEW source \in Source,
             UpsertOpens(s, scope, keys, source)
      PROVE  RowsInv'
  BY <1>1, UpsertOpensOK
<1>2. ASSUME NEW s \in Session, UpsertFinds(s) PROVE RowsInv'
  BY <1>2, UpsertFindsOK
<1>3. ASSUME NEW s \in Session, UpsertLocks(s) PROVE RowsInv'
  BY <1>3, UpsertLocksOK
<1>4. ASSUME NEW s \in Session, UpsertInserts(s) PROVE RowsInv'
  BY <1>4, UpsertInsertsOK
<1>5. ASSUME NEW s \in Session, NEW i \in Number, NEW op \in {"update"} \cup DOMAIN VALID_TRANSITIONS,
             ChangeOpens(s, i, op)
      PROVE  RowsInv'
  BY <1>5, ChangeOpensOK
<1>6. ASSUME NEW s \in Session, ChangeLocks(s) PROVE RowsInv'
  BY <1>6, ChangeLocksOK
<1>7. ASSUME NEW s \in Session, NEW i \in Number, NEW j \in Number, MergeOpens(s, i, j) PROVE RowsInv'
  BY <1>7, MergeOpensOK
<1>8. ASSUME NEW s \in Session, MergeLocksSurvivor(s) PROVE RowsInv'
  BY <1>8, MergeLocksSurvivorOK
<1>9. ASSUME NEW s \in Session, MergeLocksDuplicate(s) PROVE RowsInv'
  BY <1>9, MergeLocksDuplicateOK
<1>10. ASSUME NEW s \in Session, NEW k \in NaturalKey, KeyInserts(s, k) PROVE RowsInv'
  BY <1>10, KeyInsertsOK
<1>11. ASSUME NEW s \in Session, NextSaves(s) PROVE RowsInv'
  BY <1>11, NextSavesOK
<1>12. ASSUME NEW s \in Session, TxCommits(s) PROVE RowsInv'
  BY <1>12, TxCommitsOK
<1>13. ASSUME NEW s \in Session, TxAborts(s) PROVE RowsInv'
  BY <1>13, TxAbortsOK
<1>14. ASSUME NEW i \in Number, NEW j \in Number, Relates(i, j) PROVE RowsInv'
  BY <1>14, RelatesOK
<1>15. CASE UNCHANGED objectVars
  BY <1>15 DEF objectVars, RowsInv, ObjectsTypeOK, TxsOK, EmptyOK, RowsLoseNothing, EveryVersionIsRecorded,
               SourcesAreCarried, Rows
<1> QED BY <1>1, <1>2, <1>3, <1>4, <1>5, <1>6, <1>7, <1>8, <1>9, <1>10, <1>11, <1>12, <1>13, <1>14, <1>15
        DEF ObjectsNext

(* Every state satisfies the invariant of the rows.                        *)
THEOREM RowsInductive == ObjectsSpec => []RowsInv
BY RowsInit, RowsStep, PTL DEF ObjectsSpec

(* Each version of an object is in its history, no committed observation   *)
(* is written over, and a merged object's sources are with its survivor,   *)
(* for any number of overlapping transactions (objects/postgres.py).       *)
THEOREM RowsLoseNothingTheorem == ObjectsSpec => []RowsLoseNothing
<1>1. RowsInv => RowsLoseNothing
  BY DEF RowsInv
<1> QED BY <1>1, RowsInductive, PTL

-----------------------------------------------------------------------------
(***************************************************************************)
(* Natural keys: what transaction t holds when krs are the key rows.  The  *)
(* rows it adds are of objects it writes, all keys of an object without a  *)
(* tenant among them once it is done, and collide with nothing that stays. *)
(***************************************************************************)
KeyTxOK(t, krs) ==
  t.pc = "index" =>
    /\ t.dropped \subseteq DOMAIN t.writes /\ t.left[1] \in t.dropped
    /\ \A i \in DOMAIN t.writes : i \in t.dropped \/ \E n \in 2 .. Len(t.left) : t.left[n] = i
    /\ t.missing \subseteq t.writes[t.left[1]].keys
    /\ \A a \in t.added : /\ a.id \in t.dropped
                          /\ a.key \in t.writes[a.id].keys /\ a.scope = t.writes[a.id].scope
    /\ \A i \in t.dropped : t.writes[i].scope = Unscoped =>
         \A k \in t.writes[i].keys : \/ [scope |-> Unscoped, key |-> k, id |-> i] \in t.added
                                     \/ i = t.left[1] /\ k \in t.missing
    /\ \A a, b \in t.added : SameKey(a, b) => a = b
    /\ \A a \in t.added, b \in krs : SameKey(a, b) => b.id \in t.dropped

AddedApart ==
  \A r, s \in Session : r # s => \A a \in tx[r].added, b \in tx[s].added : ~ SameKey(a, b)

EdgesOK == \A e \in edges : {e.from, e.to} \subseteq Rows

\* The part of KeysLeadHome about the rows of the index and of the relationships
KeyRowsOK ==
  /\ \A kr \in keyRows : kr.key \in table[kr.id].keys /\ kr.scope = table[kr.id].scope
  /\ \A a, b \in keyRows : SameKey(a, b) => a = b
  /\ \A i \in Rows : table[i].scope = Unscoped =>
       \A k \in table[i].keys : [scope |-> Unscoped, key |-> k, id |-> i] \in keyRows
  /\ \A e \in edges : table[e.from].scope = table[e.to].scope

IndexInv ==
  /\ RowsInv /\ (\A s \in Session : KeyTxOK(tx[s], keyRows))
  /\ AddedApart /\ EdgesOK /\ KeyRowsOK

\* No two live objects without a tenant share a key in the rows tb.
Live(row) == row.version > 0 /\ row.state \in {"active", "archived"} /\ row.scope = Unscoped
OneLive(tb) == \A i, j \in Number : i # j /\ Live(tb[i]) /\ Live(tb[j]) => tb[i].keys \cap tb[j].keys = {}

\* The rows that t leaves when it commits
Outcome(t, tb) == [i \in Number |-> IF i \in DOMAIN t.writes THEN t.writes[i] ELSE tb[i]]

\* While no two transactions have overlapped
AloneOK ==
  ~ overlap =>
    /\ \A r, s \in Session : r # s => tx[r].pc = "idle" \/ tx[s].pc = "idle"
    /\ OneLive(table)
    /\ \A s \in Session : tx[s].pc = "index" => OneLive(Outcome(tx[s], table))
    /\ \A s \in Session : tx[s].op = "merge" /\ tx[s].pc \in {"lock", "lock2"} =>
                            LiveRow(tx[s].id) /\ LiveRow(tx[s].other)

KeysInv == IndexInv /\ AloneOK

-----------------------------------------------------------------------------
(* Natural keys: statements that commit nothing                            *)

LEMMA IndexStatementOK ==
  ASSUME IndexInv, RowsInv', NEW s \in Session, NEW t \in Tx, tx' = [tx EXCEPT ![s] = t],
         UNCHANGED <<table, keyRows, edges>>, KeyTxOK(t, keyRows),
         \A r \in Session \ {s} : \A a \in t.added, b \in tx[r].added : ~ SameKey(a, b)
  PROVE  IndexInv'
<1>1. tx \in [Session -> Tx] /\ tx'[s] = t /\ \A r \in Session : r # s => tx'[r] = tx[r]
  BY DEF IndexInv, RowsInv, ObjectsTypeOK
<1>2. \A r \in Session : KeyTxOK(tx'[r], keyRows')
  BY <1>1 DEF IndexInv
<1>3. ASSUME NEW q \in Session, NEW r \in Session, q # r,
             NEW a \in tx'[q].added, NEW b \in tx'[r].added
      PROVE  ~ SameKey(a, b)
  <2>1. CASE q # s /\ r # s
    BY <1>1, <1>3, <2>1 DEF IndexInv, AddedApart
  <2>2. CASE q = s
    BY <1>1, <1>3, <2>2
  <2>3. CASE r = s
    <3>1. ~ SameKey(b, a)
      BY <1>1, <1>3, <2>3
    <3> QED BY <3>1 DEF SameKey
  <2> QED BY <2>1, <2>2, <2>3
<1>4. AddedApart'
  BY <1>3 DEF AddedApart
<1>5. EdgesOK' /\ KeyRowsOK'
  BY DEF IndexInv, EdgesOK, KeyRowsOK, Rows
<1> QED BY <1>2, <1>4, <1>5 DEF IndexInv

(* Outside of the index a transaction has no key rows of its own.          *)
LEMMA IndexRestOK ==
  ASSUME IndexInv, RowsInv', NEW s \in Session, UNCHANGED <<table, keyRows, edges>>,
         \A r \in Session : r # s => tx'[r] = tx[r], tx'[s].pc # "index"
  PROVE  IndexInv'
<1>1. tx \in [Session -> Tx] /\ tx' \in [Session -> Tx] /\ tx'[s] \in Tx /\ TxOK(s, tx'[s], table', owner')
  BY DEF IndexInv, RowsInv, ObjectsTypeOK, TxsOK
<1>2. tx'[s].added = {}
  BY <1>1 DEF TxOK
<1>3. tx' = [tx EXCEPT ![s] = tx'[s]]
  BY <1>1
<1> DEFINE t == tx'[s]
<1>4. KeyTxOK(t, keyRows)
  BY DEF KeyTxOK
<1>5. t \in Tx /\ t.added = {} /\ tx' = [tx EXCEPT ![s] = t]
  BY <1>1, <1>2, <1>3
<1> HIDE DEF t
<1> QED BY <1>4, <1>5, IndexStatementOK

LEMMA IndexSavesOK ==
  ASSUME IndexInv, RowsInv', NEW s \in Session, NEW order \in Seq(Number), order # <<>>,
         NEW writes \in Writes, DOMAIN writes = {order[n] : n \in DOMAIN order},
         tx[s].pc # "index", tx' = [tx EXCEPT ![s] = Saving(@, order, writes)],
         UNCHANGED <<table, keyRows, edges>>
  PROVE  IndexInv'
<1> DEFINE n == Saving(tx[s], order, writes)
<1>1. tx \in [Session -> Tx] /\ tx[s] \in Tx /\ TxOK(s, tx[s], table, owner)
  BY DEF IndexInv, RowsInv, ObjectsTypeOK, TxsOK
<1>2. 1 \in DOMAIN order /\ order[1] \in DOMAIN writes /\ DOMAIN order = 1 .. Len(order)
  OBVIOUS
<1>3. /\ n \in Tx /\ n.writes = writes /\ n.left = order /\ n.added = {}
      /\ n.missing = writes[order[1]].keys /\ n.dropped = {order[1]}
  <2>1. tx[s].added = {}
    BY <1>1 DEF TxOK
  <2> QED BY <1>1, <1>2, <2>1, SavingIs
<1>4. tx' = [tx EXCEPT ![s] = n]
  OBVIOUS
<1> HIDE DEF n
<1>5. \A i \in DOMAIN writes : i = order[1] \/ \E m \in 2 .. Len(order) : order[m] = i
  <2> SUFFICES ASSUME NEW m \in DOMAIN order, m # 1 PROVE m \in 2 .. Len(order)
    OBVIOUS
  <2> QED BY <1>2
<1>6. KeyTxOK(n, keyRows)
  BY <1>2, <1>3, <1>5 DEF KeyTxOK
<1> QED BY <1>3, <1>4, <1>6, IndexStatementOK

LEMMA IndexSavesOneOK ==
  ASSUME IndexInv, RowsInv', NEW s \in Session, NEW i \in Number, NEW row \in ObjectRow, Saves(s, i, row),
         tx[s].pc # "index"
  PROVE  IndexInv'
<1> DEFINE o == <<i>>
           w == [j \in {i} |-> row]
<1>1. o \in Seq(Number) /\ o # <<>> /\ w \in Writes /\ DOMAIN w = {o[n] : n \in DOMAIN o}
  BY WritesIntro
<1>2. tx' = [tx EXCEPT ![s] = Saving(@, o, w)] /\ UNCHANGED <<table, keyRows, edges>>
  BY DEF Saves, KeepTables
<1> HIDE DEF o, w
<1> QED BY <1>1, <1>2, IndexSavesOK

LEMMA IndexMergesOK ==
  ASSUME IndexInv, RowsInv', NEW s \in Session, MergeLocksDuplicate(s)
  PROVE  IndexInv'
<1> DEFINE i == tx[s].id
           j == tx[s].other
           o == <<i, j>>
           w == MergedRows(i, j)
<1>1. /\ TxOK(s, tx[s], table, owner) /\ KeepTables /\ tx[s].pc = "lock2" /\ tx \in [Session -> Tx]
      /\ table \in [Number -> ObjectRow]
  BY DEF IndexInv, RowsInv, ObjectsTypeOK, TxsOK, MergeLocksDuplicate, Stands
<1>2. i \in Number /\ j \in Number /\ i # j
  BY <1>1 DEF TxOK
<1>3. CASE table[i].scope # table[j].scope
  <2>1. tx' = [tx EXCEPT ![s] = NoTx]
    BY <1>3 DEF MergeLocksDuplicate, Closes
  <2> QED BY <1>1, <2>1, EmptyTypes, IndexRestOK DEF KeepTables
<1>4. CASE table[i].scope = table[j].scope
  <2>1. tx' = [tx EXCEPT ![s] = Saving(@, o, w)] /\ UNCHANGED <<table, keyRows, edges>>
    BY <1>1, <1>4 DEF MergeLocksDuplicate, KeepTables
  <2> HIDE DEF i, j
  <2>2. MergeWrites(i, j, w)
    BY <1>1, <1>2, MergedRowsIs
  <2> HIDE DEF w
  <2>3. o \in Seq(Number) /\ o # <<>> /\ {o[n] : n \in DOMAIN o} = {i, j}
    BY <1>2
  <2>4. w \in Writes /\ DOMAIN w = {o[n] : n \in DOMAIN o}
    BY <2>2, <2>3 DEF MergeWrites
  <2> HIDE DEF o
  <2> QED BY <1>1, <2>1, <2>3, <2>4, IndexSavesOK
<1> QED BY <1>3, <1>4

(* ON CONFLICT DO NOTHING: a key row is inserted beside nothing it         *)
(* collides with, committed or not.                                        *)
LEMMA IndexInsertsOK ==
  ASSUME IndexInv, RowsInv', NEW s \in Session, NEW k \in NaturalKey, KeyInserts(s, k)
  PROVE  IndexInv'
<1> DEFINE t == tx[s]
           row == KeyRow(s, k)
           added == IF Taken(s, row) THEN t.added ELSE t.added \cup {row}
           n == [t EXCEPT !.missing = @ \ {k}, !.added = added]
<1>1. /\ tx \in [Session -> Tx] /\ t \in Tx /\ TxOK(s, t, table, owner) /\ t.pc = "index"
      /\ KeyTxOK(t, keyRows) /\ k \in t.missing /\ \A r \in Session \ {s} : ~ Unsettled(r, row)
      /\ tx' = [tx EXCEPT ![s] = n] /\ UNCHANGED <<table, keyRows, edges>>
  BY DEF IndexInv, RowsInv, ObjectsTypeOK, TxsOK, KeyInserts, Stands, KeepTables
<1>2. tx' \in [Session -> Tx] /\ tx'[s] = n
  BY <1>1 DEF IndexInv, RowsInv, ObjectsTypeOK
<1>3. row = [scope |-> t.writes[t.left[1]].scope, key |-> k, id |-> t.left[1]]
  BY DEF KeyRow
<1>4. row.scope = t.writes[t.left[1]].scope /\ row.key = k /\ row.id = t.left[1]
  BY <1>3
<1>5. ~ Taken(s, row) => /\ \A a \in t.added : ~ SameKey(a, row)
                         /\ \A b \in keyRows : SameKey(b, row) => b.id \in t.dropped
  BY DEF Taken
<1>6. Taken(s, row) => row.scope # Unscoped
  BY DEF Taken, SameKey
<1>7. \A r \in Session \ {s} : \A a \in added, b \in tx[r].added : ~ SameKey(a, b)
  <2> SUFFICES ASSUME NEW r \in Session \ {s}, NEW a \in added, NEW b \in tx[r].added
               PROVE  ~ SameKey(a, b)
    OBVIOUS
  <2>1. CASE a \in t.added
    BY <2>1 DEF IndexInv, AddedApart
  <2>2. CASE a = row
    <3>1. ~ SameKey(b, row)
      BY <1>1 DEF Unsettled
    <3> QED BY <2>2, <3>1 DEF SameKey
  <2> QED BY <2>1, <2>2
<1> HIDE DEF row
<1>8. /\ n \in Tx /\ n.pc = "index" /\ n.writes = t.writes /\ n.left = t.left /\ n.dropped = t.dropped
      /\ n.missing = t.missing \ {k} /\ n.added = added
  <2>1. n \in Tx
    BY <1>2
  <2> HIDE DEF added
  <2> QED BY <1>1, <2>1 DEF Tx
<1>9. KeyTxOK(n, keyRows)
  <2>1. \A a \in added : /\ a.id \in t.dropped
                         /\ a.key \in t.writes[a.id].keys /\ a.scope = t.writes[a.id].scope
    BY <1>1, <1>4 DEF KeyTxOK
  <2>2. ASSUME NEW i \in t.dropped, t.writes[i].scope = Unscoped, NEW kk \in t.writes[i].keys,
               i # t.left[1] \/ kk \notin n.missing
        PROVE  [scope |-> Unscoped, key |-> kk, id |-> i] \in added
    <3>1. CASE i = t.left[1] /\ kk = k
      BY <1>3, <1>4, <1>6, <2>2, <3>1
    <3>2. CASE ~ (i = t.left[1] /\ kk = k)
      BY <1>1, <1>8, <2>2, <3>2 DEF KeyTxOK
    <3> QED BY <3>1, <3>2
  <2>3. ASSUME NEW a \in added, NEW b \in added, SameKey(a, b) PROVE a = b
    <3>1. SameKey(b, a)
      BY <2>3 DEF SameKey
    <3> QED BY <1>1, <1>5, <2>3, <3>1 DEF KeyTxOK
  <2>4. ASSUME NEW a \in added, NEW b \in keyRows, SameKey(a, b) PROVE b.id \in t.dropped
    <3>1. SameKey(b, a)
      BY <2>4 DEF SameKey
    <3> QED BY <1>1, <1>5, <2>4, <3>1 DEF KeyTxOK
  <2> HIDE DEF n, added
  <2> QED BY <1>1, <1>8, <2>1, <2>2, <2>3, <2>4 DEF KeyTxOK
<1> HIDE DEF n, added
<1> QED BY <1>1, <1>7, <1>8, <1>9, IndexStatementOK

LEMMA IndexNextOK ==
  ASSUME IndexInv, RowsInv', NEW s \in Session, NextSaves(s)
  PROVE  IndexInv'
<1> DEFINE t == tx[s]
           j == t.left[2]
           left == Tail(t.left)
           n == [t EXCEPT !.left = left, !.dropped = @ \cup {j}, !.missing = t.writes[j].keys]
<1>1. /\ tx \in [Session -> Tx] /\ t \in Tx /\ TxOK(s, t, table, owner) /\ t.pc = "index"
      /\ KeyTxOK(t, keyRows) /\ t.missing = {} /\ Len(t.left) > 1
      /\ tx' = [tx EXCEPT ![s] = n] /\ UNCHANGED <<table, keyRows, edges>>
  BY DEF IndexInv, RowsInv, ObjectsTypeOK, TxsOK, NextSaves, Stands, KeepTables
<1>2. tx' \in [Session -> Tx] /\ tx'[s] = n
  BY <1>1 DEF IndexInv, RowsInv, ObjectsTypeOK
<1>3. t.left \in Seq(Number) /\ Len(t.left) \in Nat /\ DOMAIN t.left = 1 .. Len(t.left)
  BY <1>1 DEF Tx
<1>4. /\ left[1] = j /\ Len(left) = Len(t.left) - 1
      /\ \A m \in 3 .. Len(t.left) : left[m - 1] = t.left[m] /\ m - 1 \in 2 .. Len(left)
  BY <1>1, <1>3
<1>5. j \in DOMAIN t.writes
  BY <1>1, <1>3 DEF TxOK
<1>6. \A i \in DOMAIN t.writes : i \in t.dropped \cup {j} \/ \E m \in 2 .. Len(left) : left[m] = i
  <2> SUFFICES ASSUME NEW i \in DOMAIN t.writes, i \notin t.dropped, i # j
               PROVE  \E m \in 2 .. Len(left) : left[m] = i
    OBVIOUS
  <2>1. PICK m \in 2 .. Len(t.left) : t.left[m] = i
    BY <1>1 DEF KeyTxOK
  <2>2. m \in 3 .. Len(t.left)
    BY <1>3, <2>1
  <2> QED BY <1>4, <2>1, <2>2
<1>7. /\ n \in Tx /\ n.pc = "index" /\ n.writes = t.writes /\ n.left = left
      /\ n.dropped = t.dropped \cup {j} /\ n.missing = t.writes[j].keys /\ n.added = t.added
  <2>1. n \in Tx
    BY <1>2
  <2> HIDE DEF left, j
  <2> QED BY <1>1, <2>1 DEF Tx
<1>8. KeyTxOK(n, keyRows)
  <2> HIDE DEF n, left, j
  <2>1. \A a \in t.added : /\ a.id \in t.dropped
                           /\ a.key \in t.writes[a.id].keys /\ a.scope = t.writes[a.id].scope
    BY <1>1 DEF KeyTxOK
  <2>2. \A i \in t.dropped \cup {j} : t.writes[i].scope = Unscoped =>
          \A k \in t.writes[i].keys : \/ [scope |-> Unscoped, key |-> k, id |-> i] \in t.added
                                      \/ i = left[1] /\ k \in t.writes[j].keys
    BY <1>1, <1>4 DEF KeyTxOK
  <2>3. /\ \A a, b \in t.added : SameKey(a, b) => a = b
        /\ \A a \in t.added, b \in keyRows : SameKey(a, b) => b.id \in t.dropped
        /\ t.dropped \subseteq DOMAIN t.writes
    BY <1>1 DEF KeyTxOK
  <2> QED BY <1>4, <1>5, <1>6, <1>7, <2>1, <2>2, <2>3 DEF KeyTxOK
<1>9. \A r \in Session \ {s} : \A a \in n.added, b \in tx[r].added : ~ SameKey(a, b)
  <2> HIDE DEF n
  <2> QED BY <1>7 DEF IndexInv, AddedApart
<1> HIDE DEF n
<1> QED BY <1>1, <1>7, <1>8, <1>9, IndexStatementOK

-----------------------------------------------------------------------------
(* Natural keys: a commit                                                  *)

LEMMA IndexCommitsOK ==
  ASSUME IndexInv, RowsInv', NEW s \in Session, TxCommits(s)
  PROVE  IndexInv'
<1> DEFINE t == tx[s]
           new == t.writes
<1>1. /\ DOMAIN new \in SUBSET Number /\ t.left[1] \in DOMAIN new
      /\ \A i \in DOMAIN new : new[i] \in ObjectRow /\ WriteOK(s, t, i, table, owner)
      /\ \A i \in Number : /\ i \in DOMAIN new => table'[i] = new[i] /\ table'[i].version = table[i].version + 1
                           /\ i \notin DOMAIN new => table'[i] = table[i]
                           /\ table[i].version \in Nat
  <2>1. RowsInv
    BY DEF IndexInv
  <2> QED BY <2>1, CommitIs
<1>2. /\ tx \in [Session -> Tx] /\ t \in Tx /\ TxOK(s, t, table, owner) /\ t.pc = "index"
      /\ KeyTxOK(t, keyRows) /\ t.missing = {} /\ Len(t.left) = 1 /\ keyRows \in SUBSET NkRow
      /\ edges \in SUBSET [from : Number, to : Number]
  BY DEF IndexInv, RowsInv, ObjectsTypeOK, TxsOK, TxCommits, Stands
<1>3. /\ keyRows' = {kr \in keyRows : kr.id \notin t.dropped} \cup t.added
      /\ edges' = IF t.op = "merge" THEN {Repointed(e, t.id, t.other) : e \in edges} ELSE edges
      /\ tx' = [tx EXCEPT ![s] = NoTx]
  BY DEF TxCommits, Closes
<1> HIDE DEF new
<1>4. t.dropped = DOMAIN new
  <2>1. 2 .. Len(t.left) = {}
    BY <1>2
  <2> QED BY <1>2, <2>1 DEF KeyTxOK, new
<1>5. tx'[s] = NoTx /\ \A r \in Session : r # s => tx'[r] = tx[r]
  BY <1>2, <1>3
<1>6. ASSUME NEW r \in Session PROVE KeyTxOK(tx'[r], keyRows')
  <2>1. CASE r = s
    BY <1>5, <2>1, EmptyTypes DEF KeyTxOK
  <2>2. CASE r # s
    <3>1. KeyTxOK(tx[r], keyRows) /\ tx'[r] = tx[r]
      BY <1>5, <2>2 DEF IndexInv
    <3>2. \A a \in tx[r].added, b \in t.added : ~ SameKey(a, b)
      BY <2>2 DEF IndexInv, AddedApart
    <3> QED BY <1>3, <3>1, <3>2 DEF KeyTxOK
  <2> QED BY <2>1, <2>2
<1>7. AddedApart'
  <2>1. \A r \in Session : tx'[r].added \subseteq tx[r].added
    BY <1>5, EmptyTypes
  <2> QED BY <2>1 DEF IndexInv, AddedApart
<1>8. \A kr \in keyRows' : kr.key \in table'[kr.id].keys /\ kr.scope = table'[kr.id].scope
  <2>1. \A kr \in t.added : kr.key \in table'[kr.id].keys /\ kr.scope = table'[kr.id].scope
    BY <1>1, <1>2, <1>4 DEF KeyTxOK, new
  <2>2. \A kr \in keyRows : kr.id \notin t.dropped =>
          kr.key \in table'[kr.id].keys /\ kr.scope = table'[kr.id].scope
    <3>1. \A kr \in keyRows : kr.id \in Number
      BY <1>2 DEF NkRow
    <3> QED BY <1>1, <1>4, <3>1 DEF IndexInv, KeyRowsOK
  <2> QED BY <1>3, <2>1, <2>2
<1>9. ASSUME NEW a \in keyRows', NEW b \in keyRows', SameKey(a, b) PROVE a = b
  <2>1. SameKey(b, a)
    BY <1>9 DEF SameKey
  <2> QED BY <1>2, <1>3, <1>9, <2>1 DEF KeyTxOK, IndexInv, KeyRowsOK
<1>10. ASSUME NEW i \in Rows', table'[i].scope = Unscoped, NEW k \in table'[i].keys
       PROVE  [scope |-> Unscoped, key |-> k, id |-> i] \in keyRows'
  <2>1. CASE i \in DOMAIN new
    BY <1>1, <1>2, <1>3, <1>4, <1>10, <2>1 DEF KeyTxOK, new
  <2>2. CASE i \notin DOMAIN new
    <3>1. i \in Rows /\ table'[i] = table[i]
      BY <1>1, <1>10, <2>2 DEF Rows
    <3>2. [scope |-> Unscoped, key |-> k, id |-> i] \in keyRows
      BY <1>10, <3>1 DEF IndexInv, KeyRowsOK
    <3> QED BY <1>3, <1>4, <2>2, <3>2
  <2> QED BY <2>1, <2>2
<1>11. \A i \in Rows : i \in Rows' /\ table'[i].scope = table[i].scope
  BY <1>1 DEF Rows, WriteOK, new
<1>12. ASSUME NEW e \in edges'
       PROVE  {e.from, e.to} \subseteq Rows' /\ table'[e.from].scope = table'[e.to].scope
  <2>1. CASE t.op # "merge"
    BY <1>3, <1>11, <1>12, <2>1 DEF IndexInv, EdgesOK, KeyRowsOK
  <2>2. CASE t.op = "merge"
    <3>1. PICK o \in edges : e = Repointed(o, t.id, t.other)
      BY <1>3, <1>12, <2>2
    <3>2. {o.from, o.to} \subseteq Rows /\ table[o.from].scope = table[o.to].scope
      BY DEF IndexInv, EdgesOK, KeyRowsOK
    <3>3. {t.id, t.other} \subseteq DOMAIN new /\ new[t.id].scope = new[t.other].scope
      BY <1>2, <2>2 DEF TxOK, new
    <3>4. t.id \in Rows' /\ table'[t.id].scope = table'[t.other].scope
      BY <1>1, <3>3 DEF Rows
    <3>5. /\ e.from = IF o.from = t.other THEN t.id ELSE o.from
          /\ e.to = IF o.to = t.other THEN t.id ELSE o.to
      BY <3>1 DEF Repointed
    <3> QED BY <1>11, <3>2, <3>4, <3>5
  <2> QED BY <2>1, <2>2
<1>13. EdgesOK' /\ KeyRowsOK'
  BY <1>8, <1>9, <1>10, <1>12 DEF EdgesOK, KeyRowsOK
<1> QED BY <1>6, <1>7, <1>13 DEF IndexInv

LEMMA IndexRelatesOK ==
  ASSUME IndexInv, RowsInv', NEW i \in Number, NEW j \in Number, Relates(i, j)
  PROVE  IndexInv'
<1>1. /\ edges' = edges \cup {[from |-> i, to |-> j]} /\ {i, j} \subseteq Rows
      /\ table[i].scope = table[j].scope /\ UNCHANGED <<table, keyRows, tx>>
  BY DEF Relates
<1>2. EdgesOK' /\ KeyRowsOK'
  BY <1>1 DEF IndexInv, EdgesOK, KeyRowsOK, Rows
<1> QED BY <1>1, <1>2 DEF IndexInv, AddedApart

LEMMA IndexInit == ObjectsInit => IndexInv
<1> SUFFICES ASSUME ObjectsInit PROVE IndexInv
  OBVIOUS
<1>1. \A s \in Session : tx[s] = NoTx
  BY DEF ObjectsInit
<1>2. \A s \in Session : KeyTxOK(tx[s], keyRows)
  BY <1>1, EmptyTypes DEF KeyTxOK
<1>3. AddedApart
  BY <1>1, EmptyTypes DEF AddedApart
<1>4. EdgesOK /\ KeyRowsOK
  BY DEF ObjectsInit, EdgesOK, KeyRowsOK, Rows, NoRow
<1> QED BY <1>2, <1>3, <1>4, RowsInit DEF IndexInv

LEMMA IndexStep == IndexInv /\ [ObjectsNext]_objectVars => IndexInv'
<1> SUFFICES ASSUME IndexInv, [ObjectsNext]_objectVars PROVE IndexInv'
  OBVIOUS
<1>1. RowsInv /\ RowsInv' /\ tx \in [Session -> Tx]
  BY RowsStep DEF IndexInv, RowsInv, ObjectsTypeOK
<1>2. ASSUME NEW s \in Session, NEW t, Opens(s, t), t.pc # "index" PROVE IndexInv'
  <2>1. /\ UNCHANGED <<table, keyRows, edges>> /\ tx'[s] = t
        /\ \A r \in Session : r # s => tx'[r] = tx[r]
    BY <1>1, <1>2 DEF Opens, KeepTables
  <2> QED BY <1>1, <1>2, <2>1, IndexRestOK
<1>3. ASSUME NEW s \in Session, Closes(s), KeepTables PROVE IndexInv'
  <2>1. /\ UNCHANGED <<table, keyRows, edges>> /\ tx'[s].pc # "index"
        /\ \A r \in Session : r # s => tx'[r] = tx[r]
    BY <1>1, <1>3, EmptyTypes DEF Closes, KeepTables
  <2> QED BY <1>1, <2>1, IndexRestOK
<1>4. ASSUME NEW s \in Session, NEW scope \in Scope, NEW keys \in SUBSET NaturalKey, NEW source \in Source,
             UpsertOpens(s, scope, keys, source)
      PROVE  IndexInv'
  <2> DEFINE t == [NoTx EXCEPT !.pc = "lookup", !.op = "upsert", !.source = source,
                               !.copy = [NoRow EXCEPT !.scope = scope, !.keys = keys]]
  <2>1. t.pc # "index"
    BY DEF NoTx
  <2>2. Opens(s, t)
    BY <1>4 DEF UpsertOpens
  <2> HIDE DEF t
  <2> QED BY <1>2, <2>1, <2>2
<1>5. ASSUME NEW s \in Session, NEW i \in Number, NEW op \in {"update"} \cup DOMAIN VALID_TRANSITIONS,
             ChangeOpens(s, i, op)
      PROVE  IndexInv'
  <2> DEFINE t == [NoTx EXCEPT !.pc = "lock", !.op = op, !.id = i, !.copy = table[i]]
  <2>1. t.pc # "index"
    BY DEF NoTx
  <2>2. Opens(s, t)
    BY <1>5 DEF ChangeOpens
  <2> HIDE DEF t
  <2> QED BY <1>2, <2>1, <2>2
<1>6. ASSUME NEW s \in Session, NEW i \in Number, NEW j \in Number, MergeOpens(s, i, j) PROVE IndexInv'
  <2> DEFINE t == [NoTx EXCEPT !.pc = "lock", !.op = "merge", !.id = i, !.other = j]
  <2>1. t.pc # "index"
    BY DEF NoTx
  <2>2. Opens(s, t)
    BY <1>6 DEF MergeOpens
  <2> HIDE DEF t
  <2> QED BY <1>2, <2>1, <2>2
<1>7. ASSUME NEW s \in Session, UpsertFinds(s) \/ MergeLocksSurvivor(s) PROVE IndexInv'
  <2>1. /\ UNCHANGED <<table, keyRows, edges>> /\ tx'[s].pc # "index"
        /\ \A r \in Session : r # s => tx'[r] = tx[r]
    BY <1>1, <1>7 DEF UpsertFinds, MergeLocksSurvivor, KeepTables, Tx
  <2> QED BY <1>1, <2>1, IndexRestOK
<1>8. ASSUME NEW s \in Session, UpsertLocks(s) PROVE IndexInv'
  BY <1>1, <1>8, UpsertLocksIs, IndexSavesOneOK DEF UpsertLocks, Stands
<1>9. ASSUME NEW s \in Session, UpsertInserts(s) PROVE IndexInv'
  <2>1. PICK i \in Number, row \in ObjectRow : Saves(s, i, row)
    BY <1>1, <1>9, UpsertInsertsIs
  <2>2. tx[s].pc # "index"
    BY <1>9 DEF UpsertInserts, Stands
  <2> QED BY <1>1, <2>1, <2>2, IndexSavesOneOK
<1>10. ASSUME NEW s \in Session, ChangeLocks(s) PROVE IndexInv'
  <2>1. CASE Closes(s) /\ KeepTables
    BY <1>3, <2>1
  <2>2. CASE Permitted(s) /\ Saves(s, tx[s].id, ChangedRow(s))
    <3>1. tx[s].pc = "lock" /\ tx[s].op \notin {"upsert", "merge"}
      BY <1>10 DEF ChangeLocks, Stands
    <3>2. tx[s].id \in Number /\ ChangedRow(s) \in ObjectRow
      BY <1>1, <2>2, <3>1, ChangedRowIs
    <3> QED BY <1>1, <2>2, <3>1, <3>2, IndexSavesOneOK
  <2> QED BY <1>10, <2>1, <2>2 DEF ChangeLocks
<1>11. ASSUME NEW s \in Session, MergeLocksDuplicate(s) PROVE IndexInv'
  BY <1>1, <1>11, IndexMergesOK
<1>12. ASSUME NEW s \in Session, NEW k \in NaturalKey, KeyInserts(s, k) PROVE IndexInv'
  BY <1>1, <1>12, IndexInsertsOK
<1>13. ASSUME NEW s \in Session, NextSaves(s) PROVE IndexInv'
  BY <1>1, <1>13, IndexNextOK
<1>14. ASSUME NEW s \in Session, TxCommits(s) PROVE IndexInv'
  BY <1>1, <1>14, IndexCommitsOK
<1>15. ASSUME NEW s \in Session, TxAborts(s) PROVE IndexInv'
  BY <1>3, <1>15 DEF TxAborts
<1>16. ASSUME NEW i \in Number, NEW j \in Number, Relates(i, j) PROVE IndexInv'
  BY <1>1, <1>16, IndexRelatesOK
<1>17. CASE UNCHANGED objectVars
  <2>1. UNCHANGED <<table, keyRows, edges, tx>>
    BY <1>17 DEF objectVars
  <2> QED BY <1>1, <2>1 DEF IndexInv, AddedApart, EdgesOK, KeyRowsOK, Rows
<1> QED BY <1>4, <1>5, <1>6, <1>7, <1>8, <1>9, <1>10, <1>11, <1>12, <1>13, <1>14, <1>15, <1>16, <1>17
        DEF ObjectsNext

-----------------------------------------------------------------------------
(* One live object per key: transactions that have never overlapped        *)

(* What a lone transaction leaves when it writes one row: nothing comes    *)
(* alive, and no key is new.                                               *)
LEMMA OneLiveAfter ==
  ASSUME NEW t, NEW i \in Number, NEW row, t.writes = [j \in {i} |-> row], OneLive(table),
         \A j \in Number : j # i /\ Live(table[j]) /\ Live(row) => table[j].keys \cap row.keys = {}
  PROVE  OneLive(Outcome(t, table))
<1>1. \A j \in Number : Outcome(t, table)[j] = IF j = i THEN row ELSE table[j]
  BY DEF Outcome
<1> DEFINE o == Outcome(t, table)
<1> HIDE DEF o
<1> SUFFICES ASSUME NEW a \in Number, NEW b \in Number, a # b, Live(o[a]), Live(o[b])
             PROVE  o[a].keys \cap o[b].keys = {}
  BY DEF OneLive, o
<1>2. CASE a # i /\ b # i
  BY <1>1, <1>2 DEF OneLive, o
<1>3. CASE a = i
  BY <1>1, <1>3 DEF o
<1>4. CASE b = i
  BY <1>1, <1>4 DEF o
<1> QED BY <1>2, <1>3, <1>4

(* A statement of s that leaves the tables: the others are idle.           *)
LEMMA AloneStatementOK ==
  ASSUME KeysInv, NEW s \in Session, tx[s].pc # "idle", UNCHANGED <<table, overlap>>,
         \A r \in Session : r # s => tx'[r] = tx[r],
         ~ overlap /\ tx'[s].pc = "index" /\ OneLive(table) => OneLive(Outcome(tx'[s], table)),
         tx'[s].op = "merge" /\ tx'[s].pc \in {"lock", "lock2"} =>
           /\ tx[s].op = "merge" /\ tx[s].pc \in {"lock", "lock2"}
           /\ tx'[s].id = tx[s].id /\ tx'[s].other = tx[s].other
  PROVE  AloneOK'
<1> SUFFICES ASSUME ~ overlap' PROVE AloneOK'
  BY DEF AloneOK
<1>1. /\ \A r, q \in Session : r # q => tx[r].pc = "idle" \/ tx[q].pc = "idle"
      /\ OneLive(table)
      /\ \A r \in Session : tx[r].op = "merge" /\ tx[r].pc \in {"lock", "lock2"} =>
                              LiveRow(tx[r].id) /\ LiveRow(tx[r].other)
  BY DEF KeysInv, AloneOK
<1>2. \A r \in Session : r # s => tx'[r].pc = "idle"
  BY <1>1
<1>3. \A r, q \in Session : r # q => tx'[r].pc = "idle" \/ tx'[q].pc = "idle"
  BY <1>2
<1>4. \A r \in Session : tx'[r].pc = "index" => OneLive(Outcome(tx'[r], table'))
  <2> SUFFICES ASSUME NEW r \in Session, tx'[r].pc = "index" PROVE OneLive(Outcome(tx'[r], table'))
    OBVIOUS
  <2>1. r = s
    BY <1>2
  <2> QED BY <1>1, <2>1
<1>5. \A r \in Session : tx'[r].op = "merge" /\ tx'[r].pc \in {"lock", "lock2"} =>
                           /\ table'[tx'[r].id].version > 0 /\ table'[tx'[r].id].state \in {"active", "archived"}
                           /\ table'[tx'[r].other].version > 0 /\ table'[tx'[r].other].state \in {"active", "archived"}
  <2> SUFFICES ASSUME NEW r \in Session, tx'[r].op = "merge", tx'[r].pc \in {"lock", "lock2"}
               PROVE  LiveRow(tx[r].id) /\ LiveRow(tx[r].other) /\ tx'[r].id = tx[r].id /\ tx'[r].other = tx[r].other
    BY DEF LiveRow
  <2>1. r = s
    BY <1>2
  <2> QED BY <1>1, <2>1
<1> QED BY <1>1, <1>3, <1>4, <1>5 DEF AloneOK, LiveRow

LEMMA AloneOpensOK ==
  ASSUME KeysInv, NEW s \in Session, NEW t, Opens(s, t), t.pc \in {"lookup", "lock"},
         t.op = "merge" => LiveRow(t.id) /\ LiveRow(t.other)
  PROVE  AloneOK'
<1> SUFFICES ASSUME ~ overlap' PROVE AloneOK'
  BY DEF AloneOK
<1>1. /\ tx'[s] = t /\ \A r \in Session : r # s => tx'[r] = tx[r]
      /\ UNCHANGED table /\ ~ overlap /\ \A r \in Session : tx[r].pc = "idle"
  BY DEF Opens, KeepTables, Stands, KeysInv, IndexInv, RowsInv, ObjectsTypeOK
<1>2. OneLive(table')
  BY <1>1 DEF KeysInv, AloneOK
<1>3. \A r \in Session : r # s => tx'[r].pc = "idle"
  BY <1>1
<1> QED BY <1>1, <1>2, <1>3 DEF AloneOK, LiveRow

\* Nothing that is merged or deleted comes back.
LEMMA NoRevival ==
  \A state \in States : \A new : new \in VALID_TRANSITIONS[state] => state \in {"active", "archived"}
BY DEF States, VALID_TRANSITIONS

LEMMA AloneSavesOK ==
  ASSUME KeysInv, NEW s \in Session, NEW i \in Number, NEW row \in ObjectRow, Saves(s, i, row),
         tx[s].pc # "idle", tx[s].pc # "index",
         ~ overlap /\ OneLive(table) =>
           \A j \in Number : j # i /\ Live(table[j]) /\ Live(row) => table[j].keys \cap row.keys = {}
  PROVE  AloneOK'
<1> DEFINE o == <<i>>
           w == [j \in {i} |-> row]
           n == Saving(tx[s], o, w)
<1>1. tx \in [Session -> Tx] /\ tx[s] \in Tx
  BY DEF KeysInv, IndexInv, RowsInv, ObjectsTypeOK
<1>2. o \in Seq(Number) /\ o # <<>> /\ w \in Writes /\ o[1] \in DOMAIN w
  BY WritesIntro
<1>3. tx' = [tx EXCEPT ![s] = n] /\ UNCHANGED <<table, overlap>>
  BY <1>1 DEF Saves, KeepTables, KeepMarks
<1> HIDE DEF o
<1>4. n.pc = "index" /\ n.writes = w
  <2> HIDE DEF w
  <2> QED BY <1>1, <1>2, SavingIs
<1> HIDE DEF n
<1>5. tx'[s] = n /\ \A r \in Session : r # s => tx'[r] = tx[r]
  BY <1>1, <1>3
<1>6. ~ overlap /\ OneLive(table) => OneLive(Outcome(n, table))
  BY <1>4, OneLiveAfter
<1> QED BY <1>3, <1>4, <1>5, <1>6, AloneStatementOK

LEMMA AloneUpsertsOK ==
  ASSUME KeysInv, NEW s \in Session, UpsertLocks(s) \/ UpsertInserts(s)
  PROVE  AloneOK'
<1>1. RowsInv /\ KeyRowsOK
  BY DEF KeysInv, IndexInv
<1>2. CASE UpsertLocks(s)
  <2> DEFINE i == tx[s].id
             row == [table[i] EXCEPT !.sources = @ \cup {tx[s].source}, !.version = @ + 1]
  <2>1. /\ i \in Number /\ row \in ObjectRow /\ Saves(s, i, row) /\ table[i].version > 0
        /\ row.scope = table[i].scope /\ row.keys = table[i].keys /\ row.state = table[i].state
    BY <1>1, <1>2, UpsertLocksIs
  <2> HIDE DEF i, row
  <2>2. tx[s].pc # "idle" /\ tx[s].pc # "index"
    BY <1>2 DEF UpsertLocks, Stands
  <2>3. OneLive(table) =>
          \A j \in Number : j # i /\ Live(table[j]) /\ Live(row) => table[j].keys \cap row.keys = {}
    BY <2>1 DEF OneLive, Live
  <2> QED BY <2>1, <2>2, <2>3, AloneSavesOK
<1>3. CASE UpsertInserts(s)
  <2>1. PICK i \in Number, row \in ObjectRow :
          Saves(s, i, row) /\ row.scope = tx[s].copy.scope /\ row.keys = tx[s].copy.keys
    BY <1>1, <1>3, UpsertInsertsIs
  <2>2. tx[s].pc # "idle" /\ tx[s].pc # "index" /\ ~ \E j \in Rows : Matches(s, j)
    BY <1>3 DEF UpsertInserts, Stands
  <2>3. ASSUME NEW j \in Number, Live(table[j]), Live(row), NEW k \in table[j].keys \cap row.keys PROVE FALSE
    <3>1. j \in Rows /\ LiveRow(j) /\ table[j].scope = Unscoped /\ tx[s].copy.scope = Unscoped
      BY <2>1, <2>3 DEF Live, LiveRow, Rows
    <3>2. [scope |-> Unscoped, key |-> k, id |-> j] \in keyRows
      BY <1>1, <2>3, <3>1 DEF KeyRowsOK
    <3> QED BY <2>1, <2>2, <2>3, <3>1, <3>2 DEF Matches
  <2> QED BY <2>1, <2>2, <2>3, AloneSavesOK
<1> QED BY <1>2, <1>3

LEMMA AloneClosesOK ==
  ASSUME KeysInv, NEW s \in Session, tx[s].pc # "idle", Closes(s), KeepTables
  PROVE  AloneOK'
<1>1. /\ UNCHANGED <<table, overlap>> /\ tx'[s] = NoTx
      /\ \A r \in Session : r # s => tx'[r] = tx[r]
  BY DEF Closes, KeepTables, KeepMarks, KeysInv, IndexInv, RowsInv, ObjectsTypeOK
<1> QED BY <1>1, EmptyTypes, AloneStatementOK

LEMMA AloneChangesOK ==
  ASSUME KeysInv, NEW s \in Session, ChangeLocks(s)
  PROVE  AloneOK'
<1>1. tx[s].pc = "lock" /\ tx[s].op \notin {"upsert", "merge"} /\ RowsInv
  BY DEF ChangeLocks, Stands, KeysInv, IndexInv
<1>2. CASE Closes(s) /\ KeepTables
  BY <1>1, <1>2, AloneClosesOK
<1>3. CASE Permitted(s) /\ Saves(s, tx[s].id, ChangedRow(s))
  <2> DEFINE i == tx[s].id
             row == ChangedRow(s)
  <2>1. /\ i \in Number /\ row \in ObjectRow /\ table[i] \in ObjectRow /\ table[i].version > 0
        /\ row.scope = table[i].scope /\ row.keys = table[i].keys
        /\ row.state = table[i].state \/ row.state \in VALID_TRANSITIONS[table[i].state]
    BY <1>1, <1>3, ChangedRowIs
  <2>2. Saves(s, i, row)
    BY <1>3
  <2> HIDE DEF i, row
  <2>3. Live(row) => Live(table[i])
    <3>1. table[i].state \in States
      BY <2>1 DEF ObjectRow
    <3> QED BY <2>1, <3>1, NoRevival DEF Live
  <2>4. OneLive(table) =>
          \A j \in Number : j # i /\ Live(table[j]) /\ Live(row) => table[j].keys \cap row.keys = {}
    BY <2>1, <2>3 DEF OneLive
  <2> QED BY <1>1, <2>1, <2>2, <2>4, AloneSavesOK
<1> QED BY <1>2, <1>3 DEF ChangeLocks

(* The two that are merged were live and shared no key with a third; the   *)
(* duplicate is no longer live.                                            *)
LEMMA AloneMergesOK ==
  ASSUME KeysInv, NEW s \in Session, MergeLocksDuplicate(s)
  PROVE  AloneOK'
<1> DEFINE i == tx[s].id
           j == tx[s].other
           o == <<i, j>>
           w == MergedRows(i, j)
           n == Saving(tx[s], o, w)
<1>1. /\ tx \in [Session -> Tx] /\ tx[s] \in Tx /\ TxOK(s, tx[s], table, owner) /\ KeepTables
      /\ tx[s].pc = "lock2" /\ tx[s].op = "merge" /\ table \in [Number -> ObjectRow]
  BY DEF KeysInv, IndexInv, RowsInv, ObjectsTypeOK, TxsOK, MergeLocksDuplicate, Stands, TxOK
<1>2. i \in Number /\ j \in Number /\ i # j
  BY <1>1 DEF TxOK
<1>3. CASE table[i].scope # table[j].scope
  BY <1>1, <1>3, AloneClosesOK DEF MergeLocksDuplicate
<1>4. CASE table[i].scope = table[j].scope
  <2>1. tx' = [tx EXCEPT ![s] = n] /\ UNCHANGED <<table, overlap>>
    BY <1>1, <1>4 DEF MergeLocksDuplicate, KeepTables, KeepMarks
  <2>2. ~ overlap => LiveRow(i) /\ LiveRow(j)
    BY <1>1 DEF KeysInv, AloneOK
  <2> HIDE DEF i, j
  <2>3. MergeWrites(i, j, w)
    BY <1>1, <1>2, MergedRowsIs
  <2> HIDE DEF w
  <2>4. o \in Seq(Number) /\ o # <<>> /\ o[1] = i
    BY <1>2
  <2> HIDE DEF o
  <2>5. n.pc = "index" /\ n.writes = w
    BY <1>1, <2>3, <2>4, SavingIs DEF MergeWrites
  <2> HIDE DEF n
  <2>6. ASSUME ~ overlap, OneLive(table) PROVE OneLive(Outcome(n, table))
    <3> DEFINE out == Outcome(n, table)
    <3>1. \A m \in Number : out[m] = IF m \in {i, j} THEN w[m] ELSE table[m]
      BY <2>3, <2>5 DEF Outcome, MergeWrites
    <3> HIDE DEF out
    <3>2. ~ Live(out[j])
      BY <1>2, <2>3, <3>1 DEF MergeWrites, Live
    <3>3. /\ out[i].keys = table[i].keys \cup table[j].keys
          /\ Live(out[i]) => Live(table[i]) /\ Live(table[j])
      BY <1>2, <1>4, <2>2, <2>3, <2>6, <3>1 DEF MergeWrites, Live, LiveRow
    <3>4. \A m \in Number : m # i /\ Live(out[i]) /\ Live(out[m]) => out[i].keys \cap out[m].keys = {}
      <4> SUFFICES ASSUME NEW m \in Number, m # i, Live(out[i]), Live(out[m])
                   PROVE  out[i].keys \cap out[m].keys = {}
        OBVIOUS
      <4>1. m # j /\ out[m] = table[m]
        BY <3>1, <3>2
      <4>2. table[i].keys \cap table[m].keys = {} /\ table[j].keys \cap table[m].keys = {}
        BY <1>2, <2>6, <3>3, <4>1 DEF OneLive
      <4> QED BY <3>3, <4>1, <4>2
    <3>5. \A a, b \in Number : a # b /\ Live(out[a]) /\ Live(out[b]) => out[a].keys \cap out[b].keys = {}
      <4> SUFFICES ASSUME NEW a \in Number, NEW b \in Number, a # b, Live(out[a]), Live(out[b])
                   PROVE  out[a].keys \cap out[b].keys = {}
        OBVIOUS
      <4>1. CASE a = i \/ b = i
        BY <3>4, <4>1
      <4>2. CASE a # i /\ b # i
        <5>1. out[a] = table[a] /\ out[b] = table[b]
          BY <3>1, <3>2, <4>2
        <5> QED BY <2>6, <5>1 DEF OneLive
      <4> QED BY <4>1, <4>2
    <3> QED BY <3>5 DEF OneLive, out
  <2>7. tx'[s] = n /\ \A r \in Session : r # s => tx'[r] = tx[r]
    BY <1>1, <2>1
  <2> QED BY <1>1, <2>1, <2>5, <2>6, <2>7, AloneStatementOK
<1> QED BY <1>3, <1>4

LEMMA AloneIndexesOK ==
  ASSUME KeysInv, NEW s \in Session, NextSaves(s) \/ \E k \in NaturalKey : KeyInserts(s, k)
  PROVE  AloneOK'
<1>1. /\ tx \in [Session -> Tx] /\ tx[s] \in Tx /\ tx[s].pc = "index"
      /\ UNCHANGED <<table, overlap>> /\ \A r \in Session : r # s => tx'[r] = tx[r]
  BY DEF KeysInv, IndexInv, RowsInv, ObjectsTypeOK, NextSaves, KeyInserts, Stands, KeepTables, KeepMarks
<1>2. tx'[s].pc = "index" /\ tx'[s].writes = tx[s].writes
  <2>1. CASE NextSaves(s)
    BY <1>1, <2>1 DEF NextSaves, Tx
  <2>2. ASSUME NEW k \in NaturalKey, KeyInserts(s, k) PROVE tx'[s].pc = "index" /\ tx'[s].writes = tx[s].writes
    <3> DEFINE added == IF Taken(s, KeyRow(s, k)) THEN tx[s].added ELSE tx[s].added \cup {KeyRow(s, k)}
               n == [tx[s] EXCEPT !.missing = @ \ {k}, !.added = added]
    <3>1. tx' = [tx EXCEPT ![s] = n]
      BY <1>1, <2>2 DEF KeyInserts
    <3>2. n.pc = tx[s].pc /\ n.writes = tx[s].writes
      <4> HIDE DEF added
      <4> QED BY <1>1 DEF Tx
    <3> QED BY <1>1, <3>1, <3>2
  <2> QED BY <2>1, <2>2
<1>3. Outcome(tx'[s], table) = Outcome(tx[s], table)
  BY <1>2 DEF Outcome
<1>4. ~ overlap => OneLive(Outcome(tx[s], table))
  BY <1>1 DEF KeysInv, AloneOK
<1> QED BY <1>1, <1>2, <1>3, <1>4, AloneStatementOK

LEMMA AloneCommitsOK ==
  ASSUME KeysInv, NEW s \in Session, TxCommits(s)
  PROVE  AloneOK'
<1> SUFFICES ASSUME ~ overlap' PROVE AloneOK'
  BY DEF AloneOK
<1>1. /\ tx \in [Session -> Tx] /\ tx[s].pc = "index" /\ ~ overlap /\ tx' = [tx EXCEPT ![s] = NoTx]
      /\ table' = Outcome(tx[s], table)
  BY DEF KeysInv, IndexInv, RowsInv, ObjectsTypeOK, TxCommits, Stands, Closes, KeepMarks, Outcome
<1>2. OneLive(table')
  BY <1>1 DEF KeysInv, AloneOK
<1>3. \A r \in Session : r # s => tx[r].pc = "idle"
  BY <1>1 DEF KeysInv, AloneOK
<1>4. \A r \in Session : tx'[r].pc = "idle"
  BY <1>1, <1>3, EmptyTypes
<1> QED BY <1>2, <1>4 DEF AloneOK

LEMMA AloneStep == KeysInv /\ [ObjectsNext]_objectVars => AloneOK'
<1> SUFFICES ASSUME KeysInv, [ObjectsNext]_objectVars PROVE AloneOK'
  OBVIOUS
<1>1. tx \in [Session -> Tx]
  BY DEF KeysInv, IndexInv, RowsInv, ObjectsTypeOK
<1>2. ASSUME NEW s \in Session, NEW scope \in Scope, NEW keys \in SUBSET NaturalKey, NEW source \in Source,
             UpsertOpens(s, scope, keys, source)
      PROVE  AloneOK'
  <2> DEFINE t == [NoTx EXCEPT !.pc = "lookup", !.op = "upsert", !.source = source,
                               !.copy = [NoRow EXCEPT !.scope = scope, !.keys = keys]]
  <2>1. t.pc = "lookup" /\ t.op = "upsert"
    BY DEF NoTx
  <2>2. Opens(s, t)
    BY <1>2 DEF UpsertOpens
  <2> HIDE DEF t
  <2> QED BY <2>1, <2>2, AloneOpensOK
<1>3. ASSUME NEW s \in Session, NEW i \in Number, NEW op \in {"update"} \cup DOMAIN VALID_TRANSITIONS,
             ChangeOpens(s, i, op)
      PROVE  AloneOK'
  <2> DEFINE t == [NoTx EXCEPT !.pc = "lock", !.op = op, !.id = i, !.copy = table[i]]
  <2>1. t.pc = "lock" /\ t.op # "merge"
    BY DEF NoTx, VALID_TRANSITIONS
  <2>2. Opens(s, t)
    BY <1>3 DEF ChangeOpens
  <2> HIDE DEF t
  <2> QED BY <2>1, <2>2, AloneOpensOK
<1>4. ASSUME NEW s \in Session, NEW i \in Number, NEW j \in Number, MergeOpens(s, i, j) PROVE AloneOK'
  <2> DEFINE t == [NoTx EXCEPT !.pc = "lock", !.op = "merge", !.id = i, !.other = j]
  <2>1. t.pc = "lock" /\ t.id = i /\ t.other = j
    BY DEF NoTx
  <2>2. Opens(s, t) /\ LiveRow(i) /\ LiveRow(j)
    BY <1>4 DEF MergeOpens
  <2> HIDE DEF t
  <2> QED BY <2>1, <2>2, AloneOpensOK
<1>5. ASSUME NEW s \in Session, UpsertFinds(s) PROVE AloneOK'
  <2>1. /\ tx[s].pc = "lookup" /\ tx[s].op = "upsert" /\ UNCHANGED <<table, overlap>>
        /\ \A r \in Session : r # s => tx'[r] = tx[r]
        /\ tx[s] \in Tx
    BY <1>1, <1>5 DEF UpsertFinds, Stands, KeepTables, KeepMarks, KeysInv, IndexInv, RowsInv, ObjectsTypeOK,
                      TxsOK, TxOK
  <2>2. tx'[s].pc = "lock" /\ tx'[s].op = "upsert"
    BY <1>1, <1>5, <2>1 DEF UpsertFinds, Tx
  <2> QED BY <2>1, <2>2, AloneStatementOK
<1>6. ASSUME NEW s \in Session, MergeLocksSurvivor(s) PROVE AloneOK'
  <2>1. /\ tx[s].pc = "lock" /\ tx[s].op = "merge" /\ UNCHANGED <<table, overlap>>
        /\ \A r \in Session : r # s => tx'[r] = tx[r]
    BY <1>1, <1>6 DEF MergeLocksSurvivor, Stands, KeepTables, KeepMarks
  <2>2. tx'[s].pc = "lock2" /\ tx'[s].id = tx[s].id /\ tx'[s].other = tx[s].other
    BY <1>1, <1>6 DEF MergeLocksSurvivor, Tx
  <2> QED BY <2>1, <2>2, AloneStatementOK
<1>7. ASSUME NEW s \in Session, TxAborts(s) PROVE AloneOK'
  BY <1>7, AloneClosesOK DEF TxAborts, Stands
<1>8. ASSUME NEW i \in Number, NEW j \in Number, Relates(i, j) PROVE AloneOK'
  BY <1>8 DEF Relates, KeysInv, AloneOK, LiveRow
<1>9. CASE UNCHANGED objectVars
  BY <1>9 DEF objectVars, KeysInv, AloneOK, LiveRow
<1> QED BY <1>2, <1>3, <1>4, <1>5, <1>6, <1>7, <1>8, <1>9, AloneUpsertsOK, AloneChangesOK, AloneMergesOK,
           AloneIndexesOK, AloneCommitsOK
        DEF ObjectsNext

LEMMA KeysInit == ObjectsInit => KeysInv
<1> SUFFICES ASSUME ObjectsInit PROVE KeysInv
  OBVIOUS
<1>1. \A s \in Session : tx[s].pc = "idle"
  BY EmptyTypes DEF ObjectsInit
<1>2. OneLive(table)
  BY DEF ObjectsInit, OneLive, Live, NoRow
<1> QED BY <1>1, <1>2, IndexInit DEF KeysInv, AloneOK

(* Every state satisfies the invariant of the natural keys.                *)
THEOREM KeysInductive == ObjectsSpec => []KeysInv
<1>1. KeysInv /\ [ObjectsNext]_objectVars => KeysInv'
  BY IndexStep, AloneStep DEF KeysInv
<1> QED BY <1>1, KeysInit, PTL DEF ObjectsSpec

(* Key rows are of objects that carry the key, a tenant's key leads to one *)
(* object, without a tenant callers that take turns leave one live object  *)
(* per key, and relationships stay in a tenant (objects/postgres.py).      *)
THEOREM KeysLeadHomeTheorem == ObjectsSpec => []KeysLeadHome
<1>1. KeysInv => KeysLeadHome
  <2> SUFFICES ASSUME KeysInv PROVE KeysLeadHome
    OBVIOUS
  <2>1. KeyRowsOK /\ AloneOK
    BY DEF KeysInv, IndexInv
  <2>2. ASSUME ~ overlap, NEW i \in Rows, NEW j \in Rows, i # j, LiveRow(i), LiveRow(j),
               table[i].scope = Unscoped, table[j].scope = Unscoped
        PROVE  table[i].keys \cap table[j].keys = {}
    BY <2>1, <2>2 DEF AloneOK, OneLive, Live, LiveRow, Rows
  <2> QED BY <2>1, <2>2 DEF KeysLeadHome, KeyRowsOK
<1> QED BY <1>1, KeysInductive, PTL
=============================================================================
