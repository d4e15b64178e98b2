------------------------------- MODULE Findings -------------------------------
(***************************************************************************)
(* PostgresFindingStore (findings/postgres.py): raise_finding, transition  *)
(* and add_evidence are READ COMMITTED transactions that lock the row they *)
(* read; query pages through the findings with a keyset cursor meanwhile.  *)
(* An action is a statement at which another transaction may interfere.    *)
(***************************************************************************)
EXTENDS FindingLedger

CONSTANTS
  Client,   \* callers of the store
  MaxOps    \* bound: transactions started

VARIABLES
  lock,     \* lock[id]: the transaction that holds the row, or "none"
  call,     \* the transaction of each client
  scan,     \* a caller that reads all findings page by page
  ops,      \* counter of the bound
  detected, \* history: how often each finding was detected
  known     \* history: of these, how many the user knew of who last changed its status

vars == <<rows, lock, call, scan, ops, detected, known>>

ASSUME FindingsAssumption ==
  /\ Id \subseteq Nat /\ Score \subseteq Nat
  /\ MaxOps \in Nat /\ "none" \notin Client

Idle == [pc |-> "idle", op |-> "none", key |-> "none", id |-> 0, score |-> 0,
         evidence |-> "none", to |-> "none", seen |-> 0, knows |-> 0, row |-> Absent]

NoScan == [pc |-> "idle", cursor |-> <<>>, got |-> <<>>, due |-> {}]

Init0 ==
  /\ Init
  /\ lock = [id \in Id |-> "none"]
  /\ call = [c \in Client |-> Idle]
  /\ scan = NoScan
  /\ ops = 0
  /\ detected = [id \in Id |-> 0]
  /\ known = [id \in Id |-> 0]

At(c, pc) == call[c].pc = pc
Others == UNCHANGED <<scan, ops, detected, known>>

\* The transaction is over, with or without effect: its row lock goes with it.
Ends(c) ==
  /\ call' = [call EXCEPT ![c] = Idle]
  /\ lock' = [id \in Id |-> IF lock[id] = c THEN "none" ELSE lock[id]]

Begins(c, request) ==
  /\ At(c, "idle") /\ ops < MaxOps
  /\ ops' = ops + 1
  /\ call' = [call EXCEPT ![c] = request]
  /\ UNCHANGED <<rows, lock, scan, detected, known>>

\* Mutant of Locked: the row is read without FOR UPDATE.
Locked_Never(c, id) == lock[id] \in Client \cup {"none"}

\* SELECT ... FOR UPDATE waits for the holder and then sees what it committed.
Locked(c, id) == lock[id] = "none"

Takes(c, id, row) ==
  /\ call' = [call EXCEPT ![c].pc = "commit", ![c].id = id, ![c].row = row]
  /\ lock' = [lock EXCEPT ![id] = c]
  /\ UNCHANGED rows /\ Others

-----------------------------------------------------------------------------
(* raise_finding; evidence_exists was asked before the transaction         *)

RaiseBegins(c, k, s, e) ==
  Begins(c, [Idle EXCEPT !.pc = "select", !.op = "raise", !.key = k, !.score = s, !.evidence = e])

RaiseFinds(c) ==
  /\ At(c, "select") /\ call[c].op = "raise"
  /\ \E id \in IdsOf(rows, call[c].key) :
       /\ Locked(c, id)
       /\ Takes(c, id, Observed(rows[id], call[c].score, call[c].evidence))

RaiseMisses(c) ==
  /\ At(c, "select") /\ call[c].op = "raise"
  /\ IdsOf(rows, call[c].key) = {}
  /\ call' = [call EXCEPT ![c].pc = "insert"]
  /\ UNCHANGED <<rows, lock>> /\ Others

\* An insert of the same key that is not committed yet: the unique index makes this one wait.
Clash(c) == \E d \in Client \ {c} : At(d, "commit") /\ call[d].op = "insert" /\ call[d].key = call[c].key

RaiseInserts(c) ==
  /\ At(c, "insert") /\ ~ Clash(c)
  /\ IF IdsOf(rows, call[c].key) # {}
     THEN Ends(c)                              \* UniqueViolationError
     ELSE \E id \in Id \ Stored(rows) :
            /\ \A d \in Client : call[d].op = "insert" => call[d].id # id
            /\ call' = [call EXCEPT ![c].pc = "commit", ![c].op = "insert", ![c].id = id,
                          ![c].row = Created(call[c].key, call[c].score, call[c].evidence)]
            /\ UNCHANGED lock
  /\ UNCHANGED rows /\ Others

-----------------------------------------------------------------------------
(* transition and add_evidence, by a caller that has seen some version     *)

TransitionBegins(c, id, to) ==
  /\ id \in Stored(rows)
  /\ Begins(c, [Idle EXCEPT !.pc = "select", !.op = "transition", !.id = id, !.to = to,
                            !.seen = rows[id].version, !.knows = detected[id]])

AddEvidenceBegins(c, id, e) ==
  /\ id \in Stored(rows)
  /\ Begins(c, [Idle EXCEPT !.pc = "select", !.op = "evidence", !.id = id, !.evidence = e,
                            !.seen = rows[id].version])

\* Mutant of UpToDate: expected_version is ignored.
UpToDate_Any(c) == rows[call[c].id].version > 0
UpToDate(c)     == rows[call[c].id].version = call[c].seen

Changed(c) ==
  LET f == rows[call[c].id] IN
  IF call[c].op = "transition" THEN Transitioned(f, call[c].to) ELSE WithEvidence(f, call[c].evidence)

Allowed(c) ==
  /\ UpToDate(c)
  /\ call[c].op = "transition" => call[c].to \in TRANSITIONS[rows[call[c].id].status]

ChangeSelects(c) ==
  /\ At(c, "select") /\ call[c].op \in {"transition", "evidence"}
  /\ Locked(c, call[c].id)
  /\ \/ Allowed(c) /\ Takes(c, call[c].id, Changed(c))
     \/ ~ Allowed(c) /\ Ends(c) /\ UNCHANGED rows /\ Others

-----------------------------------------------------------------------------
Commit(c) ==
  /\ At(c, "commit")
  /\ LET id == call[c].id IN
       /\ rows' = [rows EXCEPT ![id] = call[c].row]
       /\ detected' = IF call[c].op \in {"raise", "insert"}
                      THEN [detected EXCEPT ![id] = @ + 1] ELSE detected
       /\ known' = IF call[c].op = "transition"
                   THEN [known EXCEPT ![id] = call[c].knows] ELSE known
  /\ Ends(c)
  /\ UNCHANGED <<scan, ops>>

\* The connection is lost, or the process ends: the transaction is rolled back.
Aborts(c) ==
  /\ ~ At(c, "idle")
  /\ Ends(c)
  /\ UNCHANGED rows /\ Others

-----------------------------------------------------------------------------
(* query: ORDER BY severity_score DESC, id with a cursor on both           *)

Position(id) == <<rows[id].score, id>>
Earlier(p, q) == \/ p[1] > q[1]
                 \/ p[1] = q[1] /\ p[2] < q[2]

\* Mutant of After: the cursor resumes after the id alone.
After_IdOnly(id) == scan.cursor = <<>> \/ id > scan.cursor[2]
After(id)        == scan.cursor = <<>> \/ Earlier(scan.cursor, Position(id))

ScanBegins ==
  /\ scan.pc = "idle" /\ Stored(rows) # {}
  /\ scan' = [NoScan EXCEPT !.pc = "reading", !.due = Stored(rows)]
  /\ UNCHANGED <<rows, lock, call, ops, detected, known>>

\* One page of one finding; there is a next cursor when another row matches.
ScanPage ==
  /\ scan.pc = "reading"
  /\ LET left == {id \in Stored(rows) : After(id)} IN
       IF left = {} THEN scan' = [scan EXCEPT !.pc = "done"]
       ELSE \E id \in left :
              /\ \A other \in left \ {id} : Earlier(Position(id), Position(other))
              /\ scan' = [scan EXCEPT !.got = Append(@, id), !.cursor = Position(id),
                                      !.pc = IF left = {id} THEN "done" ELSE "reading"]
  /\ UNCHANGED <<rows, lock, call, ops, detected, known>>

Next0 ==
  \/ \E c \in Client :
       \/ \E k \in Key, s \in Score, e \in Evidence : RaiseBegins(c, k, s, e)
       \/ RaiseFinds(c) \/ RaiseMisses(c) \/ RaiseInserts(c)
       \/ \E id \in Id : \/ \E to \in Status : TransitionBegins(c, id, to)
                         \/ \E e \in Evidence : AddEvidenceBegins(c, id, e)
       \/ ChangeSelects(c)
       \/ Commit(c) \/ Aborts(c)
  \/ ScanBegins \/ ScanPage

Spec0 == Init0 /\ [][Next0]_vars

-----------------------------------------------------------------------------
(* The transactions implement the atomic ledger: no observation, evidence  *)
(* or status change is lost, and a key never has two findings, in any      *)
(* interleaving (NFR-2, NFR-3).                                            *)
Ledger == INSTANCE FindingLedger
ImplementsLedger == Ledger!Spec

(* A finding is resolved only by somebody who knew of every detection of   *)
(* it: raise_finding bumps the version, so a transition decided before a   *)
(* new detection is refused, and a later one reopens (FR-4, transition).   *)
ResolvedIsInformed ==
  \A id \in Stored(rows) : rows[id].status = "resolved" => known[id] = detected[id]

(* Reading page by page while findings are raised, escalated and changed   *)
(* returns every finding that was there at the start, none twice, in order *)
(* of severity (ECR-0062: the sort key never moves).                       *)
ScanIsComplete ==
  /\ \A i, j \in DOMAIN scan.got : i < j => scan.got[i] # scan.got[j]
  /\ \A i \in 1 .. Len(scan.got) - 1 : Earlier(Position(scan.got[i]), Position(scan.got[i + 1]))
  /\ scan.pc = "done" => scan.due \subseteq {scan.got[i] : i \in DOMAIN scan.got}
=============================================================================
