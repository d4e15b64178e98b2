---------------------------- MODULE Certification ----------------------------
(***************************************************************************)
(* One access certification: reviewers decide its items, and whoever       *)
(* completes it has every revocation raised as a finding and proposed as a *)
(* workflow run (iag/engine.py, with the stores of iag/memory.py and       *)
(* iag/postgres.py).  A put is taken only from the version it was read at; *)
(* the evidence, the findings and the runs that go before it are not.      *)
(***************************************************************************)
EXTENDS Naturals, Sequences, FiniteSets

CONSTANTS
  Access,       \* accesses the scope may hold, naturals in review order
  Decisions,    \* decisions a reviewer may take: approved, revoked, ...
  Reviewer,     \* callers of the engine
  MaxReviews    \* bound: calls started

ASSUME CertificationAssumption ==
  Access \subseteq Nat /\ "revoked" \in Decisions /\ MaxReviews \in Nat

VARIABLES
  cert,         \* the stored certification, version 0 before it is opened
  rulings,      \* decision evidence, in the order it was recorded
  raised,       \* the evidence each revocation finding cites: by access
  proposals,    \* remediation runs proposed: [access, evidence]
  review,       \* the call each reviewer is in
  reviews,      \* counter of the bound
  told,         \* history: the evidence of the last decision a reviewer was told is stored
  waived        \* history: the last completion was asked to raise no findings

certificationVars == <<cert, rulings, raised, proposals, review, reviews, told, waived>>

NoReview == [pc |-> "idle", copy |-> [version |-> 0], item |-> 0, decision |-> "pending",
             evidence |-> 0, left |-> {}, silent |-> FALSE]

CertificationInit ==
  /\ cert = [version |-> 0, status |-> "open", items |-> [a \in {} |-> 0]]
  /\ rulings = <<>> /\ proposals = <<>>
  /\ raised = [a \in Access |-> {}] /\ told = [a \in Access |-> 0]
  /\ review = [r \in Reviewer |-> NoReview]
  /\ reviews = 0 /\ waived = FALSE

Calls(r, new) ==
  /\ review[r].pc = "idle" /\ reviews < MaxReviews
  /\ reviews' = reviews + 1
  /\ review' = [review EXCEPT ![r] = new]

Undecided == [decision |-> "pending", evidence |-> 0]

\* open_certification: the items come from the pages of the object store.
Opens(as) ==
  /\ cert.version = 0
  /\ cert' = [version |-> 1, status |-> "open", items |-> [a \in as |-> Undecided]]
  /\ UNCHANGED <<rulings, raised, proposals, review, reviews, told, waived>>

-----------------------------------------------------------------------------
(* decide_item(item, decision, expected_version)                           *)
\* Any other expected version raises before anything is written.
DecideReads(r, a, d) ==
  /\ cert.version > 0 /\ a \in DOMAIN cert.items
  /\ Calls(r, [NoReview EXCEPT !.pc = "record", !.copy = cert, !.item = a, !.decision = d])
  /\ UNCHANGED <<cert, rulings, raised, proposals, told, waived>>

DecideRecords(r) ==
  /\ review[r].pc = "record"
  /\ rulings' = Append(rulings, [access |-> review[r].item, decision |-> review[r].decision])
  /\ review' = [review EXCEPT ![r].pc = "decide", ![r].evidence = Len(rulings) + 1]
  /\ UNCHANGED <<cert, raised, proposals, reviews, told, waived>>

\* put(cert, expected_version): a conflict leaves the certification alone.
PutsBack(copy) ==
  cert' = IF cert.version = copy.version THEN [copy EXCEPT !.version = @ + 1] ELSE cert

Decided(r) ==
  LET c == review[r] IN
  [c.copy EXCEPT !.status = "in_progress",
                 !.items[c.item] = [decision |-> c.decision, evidence |-> c.evidence]]

DecidePuts(r) ==
  /\ review[r].pc = "decide"
  /\ PutsBack(Decided(r))
  /\ told' = IF cert' = cert THEN told
             ELSE [told EXCEPT ![review[r].item] = review[r].evidence]
  /\ review' = [review EXCEPT ![r] = NoReview]
  /\ UNCHANGED <<rulings, raised, proposals, reviews, waived>>

-----------------------------------------------------------------------------
(* complete_certification(raise_findings)                                  *)
Revoked(copy) == {a \in DOMAIN copy.items : copy.items[a].decision = "revoked"}

CompleteReads(r, silent) ==
  /\ cert.version > 0
  /\ Calls(r, [NoReview EXCEPT !.pc = "raise", !.copy = cert, !.silent = silent,
                               !.left = IF silent THEN {} ELSE Revoked(cert)])
  /\ UNCHANGED <<cert, rulings, raised, proposals, told, waived>>

FirstLeft(r) == CHOOSE a \in review[r].left : \A b \in review[r].left : a <= b

\* One finding per item (its dedup key): raising it again adds the evidence.
CompleteRaises(r) ==
  /\ review[r].pc = "raise" /\ review[r].left # {}
  /\ LET a == FirstLeft(r) IN
       raised' = [raised EXCEPT ![a] = @ \cup {review[r].copy.items[a].evidence}]
  /\ review' = [review EXCEPT ![r].pc = "propose"]
  /\ UNCHANGED <<cert, rulings, proposals, reviews, told, waived>>

CompleteProposes(r) ==
  /\ review[r].pc = "propose"
  /\ LET a == FirstLeft(r) IN
       /\ proposals' = Append(proposals, [access |-> a, evidence |-> review[r].copy.items[a].evidence])
       /\ review' = [review EXCEPT ![r].pc = "raise", ![r].left = @ \ {a}]
  /\ UNCHANGED <<cert, rulings, raised, reviews, told, waived>>

\* Mutant of CompletePuts: the certification is completed before its revocations are out.
CompletePuts_Early(r) ==
  /\ review[r].pc = "raise"
  /\ PutsBack([review[r].copy EXCEPT !.status = "completed"])
  /\ waived' = IF cert' = cert THEN waived ELSE review[r].silent
  /\ review' = [review EXCEPT ![r] = NoReview]
  /\ UNCHANGED <<rulings, raised, proposals, reviews, told>>

CompletePuts(r) ==
  /\ review[r].pc = "raise" /\ review[r].left = {}
  /\ PutsBack([review[r].copy EXCEPT !.status = "completed"])
  /\ waived' = IF cert' = cert THEN waived ELSE review[r].silent
  /\ review' = [review EXCEPT ![r] = NoReview]
  /\ UNCHANGED <<rulings, raised, proposals, reviews, told>>

\* A store, the evidence or the workflow engine raises, or the process ends.
CertificationInterrupt(r) ==
  /\ review[r].pc # "idle"
  /\ review' = [review EXCEPT ![r] = NoReview]
  /\ UNCHANGED <<cert, rulings, raised, proposals, reviews, told, waived>>

CertificationNext ==
  \/ \E as \in SUBSET Access : Opens(as)
  \/ \E r \in Reviewer :
       \/ \E a \in Access, d \in Decisions : DecideReads(r, a, d)
       \/ DecideRecords(r) \/ DecidePuts(r)
       \/ \E silent \in BOOLEAN : CompleteReads(r, silent)
       \/ CompleteRaises(r) \/ CompleteProposes(r) \/ CompletePuts(r)
       \/ CertificationInterrupt(r)

CertificationSpec == CertificationInit /\ [][CertificationNext]_certificationVars

-----------------------------------------------------------------------------
(* A completed certification has delegated every revocation it holds       *)
(* (FR-7): the finding and a proposed run cite the evidence of the very    *)
(* decision that stands, although decisions and completions overlap and    *)
(* are cut off between the two; unless the caller waived the findings.     *)
RevocationsAreDelegated ==
  cert.status = "completed" /\ ~ waived =>
    \A a \in Revoked(cert) :
      /\ cert.items[a].evidence \in raised[a]
      /\ \E i \in DOMAIN proposals : proposals[i] = [access |-> a, evidence |-> cert.items[a].evidence]

(* A decision the reviewer was told is stored stands until somebody takes  *)
(* another one on the item (FR-6): no overlapping decision or completion   *)
(* puts an older copy over it, and its evidence says what was decided.     *)
DecisionsStand ==
  \A a \in DOMAIN cert.items :
    /\ cert.items[a].evidence = told[a]
    /\ told[a] > 0 => rulings[told[a]] = [access |-> a, decision |-> cert.items[a].decision]

(* A reviewer's last word is what is carried out, however calls overlap.   *)
RulingsAreHonoured == RevocationsAreDelegated /\ DecisionsStand
=============================================================================
