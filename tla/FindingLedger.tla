----------------------------- MODULE FindingLedger -----------------------------
(***************************************************************************)
(* What a finding store promises, which is also what the store in memory   *)
(* does (findings/memory.py): raise_finding, transition and add_evidence   *)
(* are atomic on the latest record, and there is one finding per key.      *)
(***************************************************************************)
EXTENDS Integers, Sequences, FiniteSets

CONSTANTS
  Id,        \* finding ids, compared when scores are equal: a set of numbers
  Key,       \* (tenant_id, finding_type, dedup_key)
  Evidence,  \* evidence ids
  Score      \* severity scores: a set of numbers

VARIABLE rows  \* rows[id]: the stored finding

Status == {"open", "acknowledged", "in_progress", "resolved", "risk_accepted", "false_positive"}

TRANSITIONS ==
  [open           |-> {"acknowledged", "in_progress", "risk_accepted", "false_positive"},
   acknowledged   |-> {"in_progress", "risk_accepted", "false_positive"},
   in_progress    |-> {"resolved", "risk_accepted", "false_positive"},
   resolved       |-> {"open"},
   risk_accepted  |-> {"open"},
   false_positive |-> {"open"}]

\* version 0: no finding under this id
Absent == [key |-> "none", status |-> "open", score |-> 0, current |-> 0,
           evidence |-> {}, audit |-> <<>>, version |-> 0]

Stored(r)  == {id \in Id : r[id].version > 0}
IdsOf(r, k) == {id \in Stored(r) : r[id].key = k}

\* The record of a new finding; current_severity_score starts at severity_score.
Created(k, s, e) ==
  [key |-> k, status |-> "open", score |-> s, current |-> s, evidence |-> {e},
   audit |-> <<[from |-> "none", to |-> "open"]>>, version |-> 1]

\* Mutant of Observed: a resolved finding is reopened without an audit entry.
Observed_Silent(f, s, e) ==
  [f EXCEPT !.current = s, !.evidence = @ \cup {e}, !.version = @ + 1,
            !.status = IF @ = "resolved" THEN "open" ELSE @]

\* A known finding is seen again: only the current score moves, a resolved one regresses.
Observed(f, s, e) ==
  LET seen == [f EXCEPT !.current = s, !.evidence = @ \cup {e}, !.version = @ + 1]
  IN  IF f.status # "resolved" THEN seen
      ELSE [seen EXCEPT !.status = "open",
                        !.audit = Append(@, [from |-> "resolved", to |-> "open"])]

Transitioned(f, to) ==
  [f EXCEPT !.status = to, !.version = @ + 1,
            !.audit = Append(@, [from |-> f.status, to |-> to])]

WithEvidence(f, e) == [f EXCEPT !.evidence = @ \cup {e}, !.version = @ + 1]

Init == rows = [id \in Id |-> Absent]

RaiseFinding(k, s, e) ==
  \/ /\ IdsOf(rows, k) = {}
     /\ \E id \in Id \ Stored(rows) : rows' = [rows EXCEPT ![id] = Created(k, s, e)]
  \/ \E id \in IdsOf(rows, k) : rows' = [rows EXCEPT ![id] = Observed(@, s, e)]

\* The caller passes the version it has seen: the operation is on the latest record.
Transition(id, to) ==
  /\ id \in Stored(rows) /\ to \in TRANSITIONS[rows[id].status]
  /\ rows' = [rows EXCEPT ![id] = Transitioned(@, to)]

AddEvidence(id, e) ==
  /\ id \in Stored(rows)
  /\ rows' = [rows EXCEPT ![id] = WithEvidence(@, e)]

Next ==
  \/ \E k \in Key, s \in Score, e \in Evidence : RaiseFinding(k, s, e)
  \/ \E id \in Id : \/ \E to \in Status : Transition(id, to)
                    \/ \E e \in Evidence : AddEvidence(id, e)

Spec == Init /\ [][Next]_rows

-----------------------------------------------------------------------------
(* The audit trail tells the whole story: its entries chain from status to *)
(* status and end at the one the finding has, regressions by re-detection  *)
(* included (Finding-model FR-4, FR-6).                                    *)
AuditReplays ==
  \A id \in Stored(rows) : LET a == rows[id].audit IN
    /\ a # <<>> /\ a[1].from = "none"
    /\ \A i \in 2 .. Len(a) : a[i].from = a[i - 1].to
    /\ a[Len(a)].to = rows[id].status
=============================================================================
