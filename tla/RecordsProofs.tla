--------------------------- MODULE RecordsProofs ----------------------------
(***************************************************************************)
(* Records that are read, decided about and written back by coroutines of  *)
(* one process: certifications, the data lake, the inventory, the portal.  *)
(* The four components share no state, and their theorems no lemma; each   *)
(* part has the inductive invariant of one of them, for any number of      *)
(* records, callers and calls.                                             *)
(***************************************************************************)
EXTENDS Certification, Lake, Inventory, Portal, FiniteSetTheorems, SequenceTheorems,
        WellFoundedInduction, TLAPS

-----------------------------------------------------------------------------
(* Certification: what a coroutine holds was true of some version of the   *)
(* certification, and of the stored one if the versions are equal          *)

Item  == [decision : Decisions \cup {"pending"}, evidence : Nat]
Certs == UNION {[version : Nat, status : {"open", "in_progress", "completed"}, items : [as -> Item]] :
                  as \in SUBSET Access}
Ruling == [access : Access, decision : Decisions]
Review == [pc : {"idle", "record", "decide", "raise", "propose"},
           copy : Certs \cup {[version |-> 0]}, item : Access \cup {0},
           decision : Decisions \cup {"pending"}, evidence : Nat,
           left : SUBSET Access, silent : BOOLEAN]

CertificationTypeOK ==
  /\ cert \in Certs
  /\ rulings \in Seq(Ruling)
  /\ raised \in [Access -> SUBSET Nat]
  /\ proposals \in Seq([access : Access, evidence : Nat])
  /\ review \in [Reviewer -> Review]
  /\ reviews \in Nat
  /\ told \in [Access -> Nat]
  /\ waived \in BOOLEAN

\* A finding and a proposed run cite evidence e for access a.
Delegated(a, e, findings, runs) ==
  e \in findings[a] /\ \E i \in DOMAIN runs : runs[i] = [access |-> a, evidence |-> e]

\* The least of a set, as FirstLeft chooses it
Least(S) == CHOOSE a \in S : \A b \in S : a <= b

(***************************************************************************)
(* What holds of a call k when stored is the certification, and decided,   *)
(* findings and runs are what has been written beside it.                  *)
(***************************************************************************)
ReviewOK(k, stored, decided, findings, runs) ==
  k.pc # "idle" =>
    /\ k.copy \in Certs
    /\ 0 < k.copy.version /\ k.copy.version <= stored.version
    /\ k.copy.version = stored.version => k.copy = stored
    /\ k.pc = "record" => k.item \in DOMAIN k.copy.items /\ k.decision \in Decisions
    /\ k.pc = "decide" =>
         /\ k.item \in DOMAIN k.copy.items
         /\ k.evidence \in DOMAIN decided
         /\ decided[k.evidence] = [access |-> k.item, decision |-> k.decision]
    /\ k.pc \in {"raise", "propose"} =>
         /\ k.left \subseteq Revoked(k.copy)
         /\ ~ k.silent => \A a \in Revoked(k.copy) \ k.left :
                            Delegated(a, k.copy.items[a].evidence, findings, runs)
    /\ k.pc = "propose" =>
         k.left # {} /\ k.copy.items[Least(k.left)].evidence \in findings[Least(k.left)]

ReviewsOK == \A r \in Reviewer : ReviewOK(review[r], cert, rulings, raised, proposals)

\* Before the certification is opened nobody has been told anything.
UnopenedOK == cert.version = 0 => cert.status = "open" /\ DOMAIN cert.items = {} /\ \A a \in Access : told[a] = 0

\* What a reviewer was told of is in the evidence.
ToldOK == \A a \in Access : told[a] > 0 => told[a] \in DOMAIN rulings

CertificationInv == CertificationTypeOK /\ ReviewsOK /\ UnopenedOK /\ ToldOK /\ RulingsAreHonoured

-----------------------------------------------------------------------------
(* The records of Certs, taken apart and put together.                     *)
LEMMA CertsElim ==
  ASSUME NEW c \in Certs
  PROVE  /\ c.version \in Nat /\ c.status \in {"open", "in_progress", "completed"}
         /\ DOMAIN c.items \in SUBSET Access
         /\ c.items \in [DOMAIN c.items -> Item]
         /\ c = [version |-> c.version, status |-> c.status, items |-> c.items]
<1>1. PICK as \in SUBSET Access :
        c \in [version : Nat, status : {"open", "in_progress", "completed"}, items : [as -> Item]]
  BY DEF Certs
<1> QED BY <1>1

LEMMA CertsIntro ==
  ASSUME NEW v \in Nat, NEW st \in {"open", "in_progress", "completed"},
         NEW as \in SUBSET Access, NEW items \in [as -> Item]
  PROVE  [version |-> v, status |-> st, items |-> items] \in Certs
<1>1. [version |-> v, status |-> st, items |-> items] \in
        [version : Nat, status : {"open", "in_progress", "completed"}, items : [as -> Item]]
  OBVIOUS
<1> QED BY <1>1, Zenon DEF Certs

(* A non-empty set of accesses has a first one.                            *)
LEMMA LeastIsIn ==
  ASSUME NEW S \in SUBSET Access, S # {}
  PROVE  Least(S) \in S
<1>1. S \subseteq Nat
  BY CertificationAssumption
<1>2. PICK a \in S : \A b \in S : ~ (<<b, a>> \in OpToRel(<, Nat))
  BY <1>1, NatLessThanWellFounded, WFMin
<1>3. \A b \in Nat : b < a => <<b, a>> \in OpToRel(<, Nat)
  BY <1>1 DEF OpToRel
<1>4. \A b \in S : ~ (b < a)
  BY <1>1, <1>2, <1>3
<1>5. \A b \in S : a <= b
  BY <1>1, <1>4
<1> QED BY <1>5, Zenon DEF Least

(* What a call holds stays true when others write: versions only rise and  *)
(* what is recorded, raised and proposed is never taken back.              *)
LEMMA ReviewKept ==
  ASSUME NEW k \in Review,
         NEW c \in Certs, NEW c2 \in Certs, c2 = c \/ c2.version > c.version,
         NEW ru \in Seq(Ruling), NEW ru2 \in Seq(Ruling),
         \A i \in DOMAIN ru : i \in DOMAIN ru2 /\ ru2[i] = ru[i],
         NEW fi \in [Access -> SUBSET Nat], NEW fi2 \in [Access -> SUBSET Nat],
         \A a \in Access : fi[a] \subseteq fi2[a],
         NEW pr, NEW pr2, \A i \in DOMAIN pr : i \in DOMAIN pr2 /\ pr2[i] = pr[i],
         ReviewOK(k, c, ru, fi, pr)
  PROVE  ReviewOK(k, c2, ru2, fi2, pr2)
<1> SUFFICES ASSUME k.pc # "idle"
             PROVE  ReviewOK(k, c2, ru2, fi2, pr2)
  BY DEF ReviewOK
<1>1. k.copy \in Certs /\ k.left \in SUBSET Access
  BY DEF ReviewOK, Review
<1>2. /\ k.copy.version \in Nat /\ c.version \in Nat /\ c2.version \in Nat
      /\ Revoked(k.copy) \subseteq Access
  BY <1>1, CertsElim DEF Revoked
<1>3. \A a \in Access : \A e : Delegated(a, e, fi, pr) => Delegated(a, e, fi2, pr2)
  BY DEF Delegated
<1>4. k.pc = "propose" => Least(k.left) \in Access
  BY <1>1, LeastIsIn DEF ReviewOK
<1>5. 0 < k.copy.version /\ k.copy.version <= c2.version
      /\ (k.copy.version = c2.version => k.copy = c2)
  BY <1>2 DEF ReviewOK
<1>6. k.pc \in {"raise", "propose"} /\ ~ k.silent =>
        \A a \in Revoked(k.copy) \ k.left : Delegated(a, k.copy.items[a].evidence, fi2, pr2)
  BY <1>2, <1>3 DEF ReviewOK
<1>7. k.pc = "propose" => k.copy.items[Least(k.left)].evidence \in fi2[Least(k.left)]
  BY <1>4 DEF ReviewOK
<1>8. k.pc = "decide" => /\ k.evidence \in DOMAIN ru2
                         /\ ru2[k.evidence] = [access |-> k.item, decision |-> k.decision]
  BY DEF ReviewOK
<1> QED BY <1>1, <1>5, <1>6, <1>7, <1>8 DEF ReviewOK

\* Nothing that was written is taken back, and the certification moves on by versions.
MovesOn ==
  /\ cert' = cert \/ cert'.version > cert.version
  /\ \A i \in DOMAIN rulings : i \in DOMAIN rulings' /\ rulings'[i] = rulings[i]
  /\ \A a \in Access : raised[a] \subseteq raised'[a]
  /\ \A i \in DOMAIN proposals : i \in DOMAIN proposals' /\ proposals'[i] = proposals[i]

(* A step of reviewer r is fine for the calls of all others.               *)
LEMMA ReviewsKept ==
  ASSUME CertificationTypeOK, CertificationTypeOK', ReviewsOK, MovesOn, NEW r \in Reviewer,
         \A q \in Reviewer : q # r => review'[q] = review[q],
         ReviewOK(review'[r], cert', rulings', raised', proposals')
  PROVE  ReviewsOK'
<1> SUFFICES ASSUME NEW q \in Reviewer, q # r
             PROVE  ReviewOK(review[q], cert', rulings', raised', proposals')
  BY DEF ReviewsOK
<1>1. ReviewOK(review[q], cert, rulings, raised, proposals)
  BY DEF ReviewsOK
<1>2. review[q] \in Review
  BY DEF CertificationTypeOK
<1>3. /\ cert \in Certs /\ cert' \in Certs
      /\ rulings \in Seq(Ruling) /\ rulings' \in Seq(Ruling)
      /\ raised \in [Access -> SUBSET Nat] /\ raised' \in [Access -> SUBSET Nat]
  BY DEF CertificationTypeOK
<1>4. /\ cert' = cert \/ cert'.version > cert.version
      /\ \A i \in DOMAIN rulings : i \in DOMAIN rulings' /\ rulings'[i] = rulings[i]
      /\ \A a \in Access : raised[a] \subseteq raised'[a]
      /\ \A i \in DOMAIN proposals : i \in DOMAIN proposals' /\ proposals'[i] = proposals[i]
  BY DEF MovesOn
<1> QED BY ONLY <1>1, <1>2, <1>3, <1>4, ReviewKept, Zenon

-----------------------------------------------------------------------------
(* Types                                                                   *)

LEMMA CertTypes ==
  /\ NoReview \in Review
  /\ \A as \in SUBSET Access : [version |-> 1, status |-> "open", items |-> [a \in as |-> Undecided]] \in Certs
  /\ [version |-> 0, status |-> "open", items |-> [a \in {} |-> 0]] \in Certs
<1>1. NoReview \in Review
  BY DEF NoReview, Review
<1>2. ASSUME NEW as \in SUBSET Access
      PROVE  [version |-> 1, status |-> "open", items |-> [a \in as |-> Undecided]] \in Certs
  <2>1. [a \in as |-> Undecided] \in [as -> Item]
    BY DEF Undecided, Item
  <2> QED BY <2>1, CertsIntro
<1>3. [version |-> 0, status |-> "open", items |-> [a \in {} |-> 0]] \in Certs
  <2>1. [a \in {} |-> 0] \in [{} -> Item]
    OBVIOUS
  <2> QED BY <2>1, CertsIntro
<1> QED BY <1>1, <1>2, <1>3

(* A copy with one item decided, or completed, is a certification again.   *)
LEMMA CopyTypes ==
  ASSUME NEW c \in Certs
  PROVE  /\ \A a \in DOMAIN c.items, it \in Item :
              [c EXCEPT !.status = "in_progress", !.items[a] = it] \in Certs
         /\ [c EXCEPT !.status = "completed"] \in Certs
         /\ [c EXCEPT !.version = @ + 1] \in Certs
<1> DEFINE C(as) == [version : Nat, status : {"open", "in_progress", "completed"}, items : [as -> Item]]
<1>1. PICK as \in SUBSET Access : c \in C(as)
  BY DEF Certs
<1>2. ASSUME NEW a \in DOMAIN c.items, NEW it \in Item
      PROVE  [c EXCEPT !.status = "in_progress", !.items[a] = it] \in C(as)
  BY <1>1
<1>3. [c EXCEPT !.status = "completed"] \in C(as)
  BY <1>1
<1>4. [c EXCEPT !.version = @ + 1] \in C(as)
  <2>1. c.version + 1 \in Nat
    BY <1>1
  <2> QED BY <1>1, <2>1
<1>5. ASSUME NEW x \in C(as) PROVE x \in Certs
  <2>1. /\ x.version \in Nat /\ x.status \in {"open", "in_progress", "completed"}
        /\ x.items \in [as -> Item]
        /\ x = [version |-> x.version, status |-> x.status, items |-> x.items]
    BY <1>5
  <2>2. [version |-> x.version, status |-> x.status, items |-> x.items] \in Certs
    BY ONLY <2>1, CertsIntro, Zenon
  <2> QED BY ONLY <2>1, <2>2, Zenon
<1> HIDE DEF C
<1>6. \A a \in DOMAIN c.items, it \in Item :
        [c EXCEPT !.status = "in_progress", !.items[a] = it] \in Certs
  BY <1>2, <1>5
<1>7. [c EXCEPT !.status = "completed"] \in Certs /\ [c EXCEPT !.version = @ + 1] \in Certs
  BY <1>3, <1>4, <1>5
<1> QED BY <1>6, <1>7

-----------------------------------------------------------------------------
(* The invariant, action by action                                         *)

LEMMA InitIInv == CertificationInit => CertificationInv
<1> SUFFICES ASSUME CertificationInit PROVE CertificationInv
  OBVIOUS
<1>1. CertificationTypeOK
  <2>1. cert \in Certs
    BY CertTypes DEF CertificationInit
  <2>2. review \in [Reviewer -> Review]
    BY CertTypes DEF CertificationInit
  <2>3. rulings \in Seq(Ruling) /\ proposals \in Seq([access : Access, evidence : Nat])
    BY DEF CertificationInit
  <2> QED BY <2>1, <2>2, <2>3 DEF CertificationInit, CertificationTypeOK
<1>2. ReviewsOK
  BY DEF CertificationInit, ReviewsOK, ReviewOK, NoReview
<1>3. UnopenedOK /\ ToldOK
  BY DEF CertificationInit, UnopenedOK, ToldOK
<1>4. RulingsAreHonoured
  BY DEF CertificationInit, RulingsAreHonoured, RevocationsAreDelegated, DecisionsStand
<1> QED BY <1>1, <1>2, <1>3, <1>4 DEF CertificationInv

LEMMA OpensOK ==
  ASSUME CertificationInv, NEW as \in SUBSET Access, Opens(as)
  PROVE  CertificationInv'
<1>1. CertificationTypeOK'
  BY CertTypes DEF CertificationInv, CertificationTypeOK, Opens
<1>2. ASSUME NEW r \in Reviewer
      PROVE  review[r].pc = "idle"
  <2>1. ReviewOK(review[r], cert, rulings, raised, proposals)
    BY DEF CertificationInv, ReviewsOK
  <2>2. cert.version = 0 /\ (review[r].copy \in Certs => review[r].copy.version \in Nat)
    BY CertsElim DEF Opens
  <2> QED BY <2>1, <2>2 DEF ReviewOK
<1>3. ReviewsOK'
  BY <1>2 DEF ReviewsOK, ReviewOK, Opens
<1>4. UnopenedOK' /\ ToldOK'
  BY DEF CertificationInv, UnopenedOK, ToldOK, Opens
<1>5. RevocationsAreDelegated'
  BY DEF Opens, RevocationsAreDelegated
<1>6. DecisionsStand'
  <2>1. \A a \in Access : told'[a] = 0
    BY DEF CertificationInv, UnopenedOK, Opens
  <2>2. \A a \in DOMAIN cert'.items : a \in Access /\ cert'.items[a].evidence = 0
    BY DEF Opens, Undecided
  <2> QED BY <2>1, <2>2 DEF DecisionsStand
<1> QED BY <1>1, <1>3, <1>4, <1>5, <1>6 DEF CertificationInv, RulingsAreHonoured

(* Steps that leave the certification alone owe only what they add.        *)
LEMMA WritesBeside ==
  ASSUME CertificationInv, CertificationTypeOK', MovesOn, UNCHANGED <<cert, told, waived>>, NEW r \in Reviewer,
         \A q \in Reviewer : q # r => review'[q] = review[q],
         ReviewOK(review'[r], cert', rulings', raised', proposals')
  PROVE  CertificationInv'
<1>1. ReviewsOK'
  BY ReviewsKept DEF CertificationInv
<1>2. UnopenedOK' /\ ToldOK'
  BY DEF CertificationInv, UnopenedOK, ToldOK, MovesOn
<1>3. DOMAIN cert.items \subseteq Access
  BY CertsElim DEF CertificationInv, CertificationTypeOK
<1>4. RevocationsAreDelegated'
  BY <1>3 DEF CertificationInv, RulingsAreHonoured, RevocationsAreDelegated, MovesOn, Revoked
<1>5. DecisionsStand'
  BY <1>3 DEF CertificationInv, RulingsAreHonoured, DecisionsStand, MovesOn, ToldOK
<1> QED BY <1>1, <1>2, <1>4, <1>5 DEF CertificationInv, RulingsAreHonoured

LEMMA DecideReadsOK ==
  ASSUME CertificationInv, NEW r \in Reviewer, NEW a \in Access, NEW d \in Decisions, DecideReads(r, a, d)
  PROVE  CertificationInv'
<1> DEFINE k == [NoReview EXCEPT !.pc = "record", !.copy = cert, !.item = a, !.decision = d]
<1>1. cert \in Certs /\ cert.version \in Nat /\ review \in [Reviewer -> Review]
  BY CertsElim DEF CertificationInv, CertificationTypeOK
<1>2. k \in Review
  BY <1>1, CertTypes DEF Review
<1>3. review' = [review EXCEPT ![r] = k] /\ reviews' = reviews + 1
  BY DEF DecideReads, Calls
<1>4. CertificationTypeOK'
  BY <1>1, <1>2, <1>3 DEF CertificationInv, CertificationTypeOK, DecideReads
<1>5. ReviewOK(k, cert, rulings, raised, proposals)
  BY <1>1 DEF ReviewOK, NoReview, DecideReads
<1>6. MovesOn /\ UNCHANGED <<cert, rulings, raised, proposals, told, waived>>
  BY DEF MovesOn, DecideReads
<1>7. review'[r] = k /\ \A q \in Reviewer : q # r => review'[q] = review[q]
  BY <1>1, <1>3
<1> QED BY <1>4, <1>5, <1>6, <1>7, WritesBeside

LEMMA DecideRecordsOK ==
  ASSUME CertificationInv, NEW r \in Reviewer, DecideRecords(r)
  PROVE  CertificationInv'
<1> DEFINE k == [review[r] EXCEPT !.pc = "decide", !.evidence = Len(rulings) + 1]
           rule == [access |-> review[r].item, decision |-> review[r].decision]
<1>1. /\ review \in [Reviewer -> Review] /\ rulings \in Seq(Ruling)
      /\ ReviewOK(review[r], cert, rulings, raised, proposals) /\ review[r].pc = "record"
  BY DEF CertificationInv, CertificationTypeOK, ReviewsOK, DecideRecords
<1>2. rule \in Ruling
  <2>1. review[r].copy \in Certs /\ review[r].item \in DOMAIN review[r].copy.items
        /\ review[r].decision \in Decisions
    BY <1>1 DEF ReviewOK
  <2> QED BY <2>1, CertsElim DEF Ruling
<1>3. rulings' = Append(rulings, rule) /\ review' = [review EXCEPT ![r] = k]
  BY <1>1 DEF DecideRecords
<1>4. k \in Review
  <2>1. Len(rulings) + 1 \in Nat
    BY <1>1
  <2> QED BY <1>1, <2>1 DEF Review
<1>5. CertificationTypeOK'
  BY <1>1, <1>2, <1>3, <1>4 DEF CertificationInv, CertificationTypeOK, DecideRecords
<1>6. /\ \A i \in DOMAIN rulings : i \in DOMAIN rulings' /\ rulings'[i] = rulings[i]
      /\ Len(rulings) + 1 \in DOMAIN rulings' /\ rulings'[Len(rulings) + 1] = rule
  BY <1>1, <1>2, <1>3
<1>7. ReviewOK(k, cert, rulings', raised, proposals)
  BY <1>1, <1>6 DEF ReviewOK, Review
<1>8. MovesOn /\ UNCHANGED <<cert, raised, proposals, told, waived>>
  BY <1>6 DEF MovesOn, DecideRecords
<1>9. review'[r] = k /\ \A q \in Reviewer : q # r => review'[q] = review[q]
  BY <1>1, <1>3
<1> QED BY <1>5, <1>7, <1>8, <1>9, WritesBeside

(* A put is refused, or the certification becomes the copy's next version. *)
LEMMA PutsBackOK ==
  ASSUME CertificationInv, NEW copy \in Certs, PutsBack(copy)
  PROVE  /\ cert' \in Certs
         /\ cert' = cert \/ cert'.version > cert.version
         /\ \/ cert.version # copy.version /\ cert' = cert
            \/ /\ cert.version = copy.version /\ cert' # cert
               /\ cert'.version = cert.version + 1
               /\ cert'.status = copy.status /\ cert'.items = copy.items
<1>1. cert \in Certs /\ cert.version \in Nat
  BY CertsElim DEF CertificationInv, CertificationTypeOK
<1>2. /\ copy.version \in Nat
      /\ copy = [version |-> copy.version, status |-> copy.status, items |-> copy.items]
  BY CertsElim
<1>3. CASE cert.version # copy.version
  BY <1>1, <1>3 DEF PutsBack
<1>4. CASE cert.version = copy.version
  <2>1. cert' = [copy EXCEPT !.version = @ + 1]
    BY <1>4 DEF PutsBack
  <2>2. cert' \in Certs
    BY <2>1, CopyTypes
  <2>3. cert'.version = cert.version + 1 /\ cert'.status = copy.status /\ cert'.items = copy.items
    BY <1>2, <1>4, <2>1
  <2>4. cert' # cert
    BY <1>1, <2>3
  <2> QED BY <1>1, <1>4, <2>2, <2>3, <2>4
<1> QED BY <1>3, <1>4

LEMMA DecidePutsOK ==
  ASSUME CertificationInv, NEW r \in Reviewer, DecidePuts(r)
  PROVE  CertificationInv'
<1> DEFINE k == review[r]
           it == [decision |-> k.decision, evidence |-> k.evidence]
<1>1. /\ k \in Review /\ review \in [Reviewer -> Review] /\ told \in [Access -> Nat]
      /\ ReviewOK(k, cert, rulings, raised, proposals) /\ k.pc = "decide"
      /\ cert \in Certs /\ rulings \in Seq(Ruling)
  BY DEF CertificationInv, CertificationTypeOK, ReviewsOK, DecidePuts
<1>2. /\ k.copy \in Certs /\ k.item \in DOMAIN k.copy.items /\ k.evidence \in DOMAIN rulings
      /\ rulings[k.evidence] = [access |-> k.item, decision |-> k.decision]
      /\ 0 < k.copy.version
      /\ k.copy.version = cert.version => k.copy = cert
  BY <1>1 DEF ReviewOK
<1>3. k.item \in Access /\ k.evidence \in Nat /\ k.evidence > 0 /\ it \in Item
  <2>1. DOMAIN k.copy.items \subseteq Access
    BY <1>2, CertsElim
  <2> QED BY <1>1, <1>2, <2>1 DEF Review, Item
<1>4. Decided(r) = [k.copy EXCEPT !.status = "in_progress", !.items[k.item] = it]
  BY DEF Decided
<1>5. Decided(r) \in Certs
  <2>1. \A a \in DOMAIN k.copy.items, i \in Item :
          [k.copy EXCEPT !.status = "in_progress", !.items[a] = i] \in Certs
    BY <1>2, CopyTypes, Zenon
  <2>2. [k.copy EXCEPT !.status = "in_progress", !.items[k.item] = it] \in Certs
    BY ONLY <1>2, <1>3, <2>1, Zenon
  <2> QED BY <1>4, <2>2
<1>6. /\ Decided(r).version = k.copy.version /\ Decided(r).status = "in_progress"
      /\ Decided(r).items = [k.copy.items EXCEPT ![k.item] = it]
  BY <1>2, <1>4, CertsElim
<1>7. PutsBack(Decided(r))
  BY DEF DecidePuts
<1>8. review' = [review EXCEPT ![r] = NoReview] /\ UNCHANGED <<rulings, raised, proposals, reviews, waived>>
  BY DEF DecidePuts
<1>9. CertificationTypeOK'
  <2>1. told' \in [Access -> Nat]
    BY <1>1, <1>3 DEF DecidePuts
  <2>2. cert' \in Certs
    BY <1>5, <1>7, PutsBackOK
  <2> QED BY <1>1, <1>8, <2>1, <2>2, CertTypes DEF CertificationInv, CertificationTypeOK
<1>10. MovesOn
  BY <1>5, <1>7, <1>8, PutsBackOK DEF MovesOn
<1>11. ReviewsOK'
  <2>1. ReviewOK(NoReview, cert', rulings', raised', proposals')
    BY DEF ReviewOK, NoReview
  <2>2. review'[r] = NoReview /\ \A q \in Reviewer : q # r => review'[q] = review[q]
    BY <1>1, <1>8
  <2> QED BY <1>9, <1>10, <2>1, <2>2, ReviewsKept DEF CertificationInv
<1>12. CASE cert' = cert
  <2>1. UNCHANGED <<told, waived>>
    BY <1>8, <1>12 DEF DecidePuts
  <2>2. UnopenedOK' /\ ToldOK' /\ DecisionsStand' /\ RevocationsAreDelegated'
    BY <1>8, <1>12, <2>1
       DEF CertificationInv, UnopenedOK, ToldOK, RulingsAreHonoured, DecisionsStand, RevocationsAreDelegated, Revoked
  <2> QED BY <1>9, <1>11, <2>2 DEF CertificationInv, RulingsAreHonoured
<1>13. CASE cert' # cert
  <2>1. /\ cert.version = k.copy.version /\ cert'.version = cert.version + 1
        /\ cert'.status = "in_progress" /\ cert'.items = [k.copy.items EXCEPT ![k.item] = it]
    BY <1>5, <1>6, <1>7, <1>13, PutsBackOK
  <2>2. k.copy = cert /\ cert.version \in Nat
    BY <1>1, <1>2, <2>1, CertsElim
  <2>3. told' = [told EXCEPT ![k.item] = k.evidence]
    BY <1>13 DEF DecidePuts
  <2>4. UnopenedOK'
    BY <2>1, <2>2 DEF UnopenedOK
  <2>5. ToldOK'
    BY <1>1, <1>2, <1>3, <1>8, <2>3 DEF CertificationInv, ToldOK
  <2>6. DecisionsStand'
    <3>1. DOMAIN cert'.items = DOMAIN cert.items /\ DOMAIN cert.items \subseteq Access
      BY <1>1, <2>1, <2>2, CertsElim
    <3>2. ASSUME NEW a \in DOMAIN cert.items
          PROVE  /\ cert'.items[a].evidence = told'[a]
                 /\ told'[a] > 0 => rulings'[told'[a]] = [access |-> a, decision |-> cert'.items[a].decision]
      <4>1. CASE a = k.item
        <5>1. cert'.items[a] = it /\ told'[a] = k.evidence
          BY <1>1, <1>2, <1>3, <2>1, <2>2, <2>3, <4>1
        <5> QED BY <1>2, <1>8, <4>1, <5>1
      <4>2. CASE a # k.item
        <5>1. cert'.items[a] = cert.items[a] /\ told'[a] = told[a]
          BY <1>1, <1>3, <2>1, <2>2, <2>3, <3>1, <4>2
        <5> QED BY <1>8, <5>1 DEF CertificationInv, RulingsAreHonoured, DecisionsStand
      <4> QED BY <4>1, <4>2
    <3> QED BY <3>1, <3>2 DEF DecisionsStand
  <2>7. RevocationsAreDelegated'
    BY <2>1 DEF RevocationsAreDelegated
  <2> QED BY <1>9, <1>11, <2>4, <2>5, <2>6, <2>7 DEF CertificationInv, RulingsAreHonoured
<1> QED BY <1>12, <1>13

LEMMA CompleteReadsOK ==
  ASSUME CertificationInv, NEW r \in Reviewer, NEW silent \in BOOLEAN, CompleteReads(r, silent)
  PROVE  CertificationInv'
<1> DEFINE k == [NoReview EXCEPT !.pc = "raise", !.copy = cert, !.silent = silent,
                                 !.left = IF silent THEN {} ELSE Revoked(cert)]
<1>1. /\ cert \in Certs /\ cert.version \in Nat /\ review \in [Reviewer -> Review]
      /\ Revoked(cert) \subseteq Access
  BY CertsElim DEF CertificationInv, CertificationTypeOK, Revoked
<1>2. k \in Review
  BY <1>1, CertTypes DEF Review
<1>3. review' = [review EXCEPT ![r] = k] /\ reviews' = reviews + 1
  BY DEF CompleteReads, Calls
<1>4. CertificationTypeOK'
  BY <1>1, <1>2, <1>3 DEF CertificationInv, CertificationTypeOK, CompleteReads
<1>5. ReviewOK(k, cert, rulings, raised, proposals)
  BY <1>1 DEF ReviewOK, NoReview, CompleteReads
<1>6. MovesOn /\ UNCHANGED <<cert, rulings, raised, proposals, told, waived>>
  BY DEF MovesOn, CompleteReads
<1>7. review'[r] = k /\ \A q \in Reviewer : q # r => review'[q] = review[q]
  BY <1>1, <1>3
<1> QED BY <1>4, <1>5, <1>6, <1>7, WritesBeside

LEMMA CompleteRaisesOK ==
  ASSUME CertificationInv, NEW r \in Reviewer, CompleteRaises(r)
  PROVE  CertificationInv'
<1> DEFINE k == review[r]
           a == Least(k.left)
           e == k.copy.items[a].evidence
<1>1. /\ k \in Review /\ review \in [Reviewer -> Review] /\ raised \in [Access -> SUBSET Nat]
      /\ ReviewOK(k, cert, rulings, raised, proposals) /\ k.pc = "raise" /\ k.left # {}
  BY DEF CertificationInv, CertificationTypeOK, ReviewsOK, CompleteRaises
<1>2. k.copy \in Certs /\ k.left \subseteq Revoked(k.copy) /\ k.left \in SUBSET Access
  BY <1>1 DEF ReviewOK, Review
<1>3. a \in k.left /\ a \in Access /\ e \in Nat
  <2>1. a \in k.left
    BY <1>1, <1>2, LeastIsIn, Zenon
  <2>2. a \in DOMAIN k.copy.items
    BY <1>2, <2>1 DEF Revoked
  <2> QED BY <1>2, <2>1, <2>2, CertsElim DEF Item
<1> HIDE DEF a, e
<1>4. raised' = [raised EXCEPT ![a] = @ \cup {e}] /\ review' = [review EXCEPT ![r].pc = "propose"]
  BY DEF CompleteRaises, FirstLeft, Least, a, e
<1>5. review'[r] = [k EXCEPT !.pc = "propose"] /\ review'[r] \in Review
      /\ \A q \in Reviewer : q # r => review'[q] = review[q]
  BY <1>1, <1>4 DEF Review
<1>6. raised' \in [Access -> SUBSET Nat] /\ e \in raised'[a] /\ \A b \in Access : raised[b] \subseteq raised'[b]
  BY <1>1, <1>3, <1>4
<1>7. MovesOn /\ UNCHANGED <<cert, rulings, proposals, told, waived>>
  BY <1>6 DEF MovesOn, CompleteRaises
<1>8. CertificationTypeOK'
  BY <1>1, <1>4, <1>5, <1>6, <1>7 DEF CertificationInv, CertificationTypeOK, CompleteRaises
<1>9. ReviewOK(review'[r], cert, rulings, raised', proposals)
  <2> DEFINE n == [k EXCEPT !.pc = "propose"]
  <2>1. n.pc = "propose" /\ n.copy = k.copy /\ n.left = k.left /\ n.silent = k.silent
    BY <1>1 DEF Review
  <2>2. Revoked(k.copy) \subseteq Access
    BY <1>2, CertsElim DEF Revoked
  <2>3. \A b \in Access : \A d : Delegated(b, d, raised, proposals) => Delegated(b, d, raised', proposals)
    BY <1>6 DEF Delegated
  <2>4. ~ k.silent => \A b \in Revoked(k.copy) \ k.left :
                        Delegated(b, k.copy.items[b].evidence, raised', proposals)
    BY <1>1, <2>2, <2>3 DEF ReviewOK
  <2>5. k.copy.items[Least(k.left)].evidence \in raised'[Least(k.left)]
    BY <1>6 DEF a, e
  <2> HIDE DEF n
  <2>6. ReviewOK(n, cert, rulings, raised', proposals)
    BY <1>1, <2>1, <2>4, <2>5 DEF ReviewOK
  <2> QED BY <1>5, <2>6 DEF n
<1> QED BY <1>5, <1>7, <1>8, <1>9, WritesBeside

LEMMA CompleteProposesOK ==
  ASSUME CertificationInv, NEW r \in Reviewer, CompleteProposes(r)
  PROVE  CertificationInv'
<1> DEFINE k == review[r]
           a == Least(k.left)
           e == k.copy.items[a].evidence
           n == [k EXCEPT !.pc = "raise", !.left = @ \ {a}]
<1>1. /\ k \in Review /\ review \in [Reviewer -> Review] /\ raised \in [Access -> SUBSET Nat]
      /\ ReviewOK(k, cert, rulings, raised, proposals) /\ k.pc = "propose"
      /\ proposals \in Seq([access : Access, evidence : Nat])
  BY DEF CertificationInv, CertificationTypeOK, ReviewsOK, CompleteProposes
<1>2. k.copy \in Certs /\ k.left \subseteq Revoked(k.copy) /\ k.left \in SUBSET Access /\ k.left # {}
  BY <1>1 DEF ReviewOK, Review
<1>3. a \in k.left /\ a \in Access /\ e \in Nat /\ e \in raised[a]
  <2>1. a \in k.left
    BY <1>1, <1>2, LeastIsIn, Zenon
  <2>2. a \in DOMAIN k.copy.items
    BY <1>2, <2>1 DEF Revoked
  <2> QED BY <1>1, <1>2, <2>1, <2>2, CertsElim DEF Item, ReviewOK
<1>4. /\ proposals' = Append(proposals, [access |-> a, evidence |-> e])
      /\ review' = [review EXCEPT ![r] = n]
  BY <1>1 DEF CompleteProposes, FirstLeft, Least
<1> HIDE DEF a, e
<1>5. n \in Review /\ n.pc = "raise" /\ n.copy = k.copy /\ n.left = k.left \ {a} /\ n.silent = k.silent
  BY <1>1, <1>2 DEF Review
<1>6. review'[r] = n /\ \A q \in Reviewer : q # r => review'[q] = review[q]
  BY <1>1, <1>4
<1>7. /\ proposals' \in Seq([access : Access, evidence : Nat])
      /\ \A i \in DOMAIN proposals : i \in DOMAIN proposals' /\ proposals'[i] = proposals[i]
      /\ Delegated(a, e, raised, proposals')
  <2>1. [access |-> a, evidence |-> e] \in [access : Access, evidence : Nat]
    BY <1>3
  <2>2. /\ Len(proposals) + 1 \in DOMAIN proposals'
        /\ proposals'[Len(proposals) + 1] = [access |-> a, evidence |-> e]
    BY <1>1, <1>4, <2>1
  <2> QED BY <1>1, <1>3, <1>4, <2>1, <2>2 DEF Delegated
<1>8. MovesOn /\ UNCHANGED <<cert, rulings, raised, told, waived>>
  BY <1>7 DEF MovesOn, CompleteProposes
<1> HIDE DEF n
<1>9. CertificationTypeOK'
  BY <1>1, <1>4, <1>5, <1>7, <1>8 DEF CertificationInv, CertificationTypeOK, CompleteProposes
<1>10. ReviewOK(n, cert, rulings, raised, proposals')
  <2>1. \A b, d : Delegated(b, d, raised, proposals) => Delegated(b, d, raised, proposals')
    BY <1>7 DEF Delegated
  <2>2. ~ k.silent => \A b \in Revoked(k.copy) \ n.left :
                        Delegated(b, k.copy.items[b].evidence, raised, proposals')
    <3> SUFFICES ASSUME ~ k.silent, NEW b \in Revoked(k.copy), b \notin n.left
                 PROVE  Delegated(b, k.copy.items[b].evidence, raised, proposals')
      OBVIOUS
    <3>1. CASE b = a
      BY <1>7, <3>1 DEF e
    <3>2. CASE b # a
      BY <1>1, <1>5, <2>1, <3>2 DEF ReviewOK
    <3> QED BY <3>1, <3>2
  <2> QED BY <1>1, <1>2, <1>5, <2>2 DEF ReviewOK
<1> QED BY <1>6, <1>8, <1>9, <1>10, WritesBeside

LEMMA CompletePutsOK ==
  ASSUME CertificationInv, NEW r \in Reviewer, CompletePuts(r)
  PROVE  CertificationInv'
<1> DEFINE k == review[r]
           copy == [k.copy EXCEPT !.status = "completed"]
<1>1. /\ k \in Review /\ review \in [Reviewer -> Review]
      /\ ReviewOK(k, cert, rulings, raised, proposals) /\ k.pc = "raise" /\ k.left = {}
      /\ cert \in Certs
  BY DEF CertificationInv, CertificationTypeOK, ReviewsOK, CompletePuts
<1>2. k.copy \in Certs /\ (k.copy.version = cert.version => k.copy = cert)
  BY <1>1 DEF ReviewOK
<1>3. /\ copy \in Certs /\ copy.version = k.copy.version /\ copy.status = "completed"
      /\ copy.items = k.copy.items
  <2>1. copy \in Certs
    BY <1>2, CopyTypes
  <2>2. k.copy = [version |-> k.copy.version, status |-> k.copy.status, items |-> k.copy.items]
    BY <1>2, CertsElim
  <2> QED BY <2>1, <2>2
<1>4. PutsBack(copy) /\ waived' = (IF cert' = cert THEN waived ELSE k.silent)
  BY DEF CompletePuts
<1> HIDE DEF copy
<1>5. review' = [review EXCEPT ![r] = NoReview] /\ UNCHANGED <<rulings, raised, proposals, reviews, told>>
  BY DEF CompletePuts
<1>6. /\ cert' \in Certs
      /\ cert' = cert \/ cert'.version > cert.version
      /\ \/ cert.version # copy.version /\ cert' = cert
         \/ /\ cert.version = copy.version /\ cert' # cert
            /\ cert'.version = cert.version + 1
            /\ cert'.status = copy.status /\ cert'.items = copy.items
  BY <1>3, <1>4, PutsBackOK
<1>7. CertificationTypeOK'
  BY <1>1, <1>4, <1>5, <1>6, CertTypes DEF CertificationInv, CertificationTypeOK, Review
<1>8. ReviewsOK'
  <2>1. ReviewOK(NoReview, cert', rulings', raised', proposals')
    BY DEF ReviewOK, NoReview
  <2>2. review'[r] = NoReview /\ \A q \in Reviewer : q # r => review'[q] = review[q]
    BY <1>1, <1>5
  <2>3. MovesOn
    BY <1>5, <1>6 DEF MovesOn
  <2> QED BY <1>7, <2>1, <2>2, <2>3, ReviewsKept DEF CertificationInv
<1>9. CASE cert' = cert
  <2>1. UnopenedOK' /\ ToldOK' /\ DecisionsStand' /\ RevocationsAreDelegated'
    BY <1>4, <1>5, <1>9
       DEF CertificationInv, UnopenedOK, ToldOK, RulingsAreHonoured, DecisionsStand, RevocationsAreDelegated, Revoked
  <2> QED BY <1>7, <1>8, <2>1 DEF CertificationInv, RulingsAreHonoured
<1>10. CASE cert' # cert
  <2>1. /\ k.copy = cert /\ cert'.version = cert.version + 1 /\ cert'.items = cert.items
        /\ waived' = k.silent
    BY <1>2, <1>3, <1>4, <1>6, <1>10
  <2>2. UnopenedOK' /\ ToldOK'
    <3>1. cert.version \in Nat
      BY <1>1, CertsElim
    <3> QED BY <1>5, <2>1, <3>1 DEF CertificationInv, UnopenedOK, ToldOK
  <2>3. DecisionsStand'
    BY <1>5, <2>1 DEF CertificationInv, RulingsAreHonoured, DecisionsStand
  <2>4. RevocationsAreDelegated'
    <3>1. ~ k.silent => \A b \in Revoked(cert) : Delegated(b, cert.items[b].evidence, raised, proposals)
      BY <1>1, <2>1 DEF ReviewOK
    <3> QED BY <1>5, <2>1, <3>1 DEF RevocationsAreDelegated, Delegated, Revoked
  <2> QED BY <1>7, <1>8, <2>2, <2>3, <2>4 DEF CertificationInv, RulingsAreHonoured
<1> QED BY <1>9, <1>10

LEMMA CertificationInterruptOK ==
  ASSUME CertificationInv, NEW r \in Reviewer, CertificationInterrupt(r)
  PROVE  CertificationInv'
<1>1. review \in [Reviewer -> Review] /\ review' = [review EXCEPT ![r] = NoReview]
      /\ UNCHANGED <<cert, rulings, raised, proposals, reviews, told, waived>>
  BY DEF CertificationInv, CertificationTypeOK, CertificationInterrupt
<1>2. CertificationTypeOK'
  BY <1>1, CertTypes DEF CertificationInv, CertificationTypeOK
<1>3. ReviewOK(NoReview, cert', rulings', raised', proposals')
  BY DEF ReviewOK, NoReview
<1>4. review'[r] = NoReview /\ \A q \in Reviewer : q # r => review'[q] = review[q]
  BY <1>1
<1>5. MovesOn
  BY <1>1 DEF MovesOn
<1> QED BY <1>1, <1>2, <1>3, <1>4, <1>5, WritesBeside

-----------------------------------------------------------------------------
(* Every state of the certification satisfies the inductive invariant.     *)
THEOREM CertificationInductive == CertificationSpec => []CertificationInv
<1>1. CertificationInit => CertificationInv
  BY InitIInv
<1>2. CertificationInv /\ [CertificationNext]_certificationVars => CertificationInv'
  <2> SUFFICES ASSUME CertificationInv, [CertificationNext]_certificationVars PROVE CertificationInv'
    OBVIOUS
  <2>1. ASSUME NEW as \in SUBSET Access, Opens(as) PROVE CertificationInv'
    BY <2>1, OpensOK
  <2>2. ASSUME NEW r \in Reviewer, NEW a \in Access, NEW d \in Decisions, DecideReads(r, a, d) PROVE CertificationInv'
    BY <2>2, DecideReadsOK
  <2>3. ASSUME NEW r \in Reviewer, DecideRecords(r) PROVE CertificationInv'
    BY <2>3, DecideRecordsOK
  <2>4. ASSUME NEW r \in Reviewer, DecidePuts(r) PROVE CertificationInv'
    BY <2>4, DecidePutsOK
  <2>5. ASSUME NEW r \in Reviewer, NEW silent \in BOOLEAN, CompleteReads(r, silent) PROVE CertificationInv'
    BY <2>5, CompleteReadsOK
  <2>6. ASSUME NEW r \in Reviewer, CompleteRaises(r) PROVE CertificationInv'
    BY <2>6, CompleteRaisesOK
  <2>7. ASSUME NEW r \in Reviewer, CompleteProposes(r) PROVE CertificationInv'
    BY <2>7, CompleteProposesOK
  <2>8. ASSUME NEW r \in Reviewer, CompletePuts(r) PROVE CertificationInv'
    BY <2>8, CompletePutsOK
  <2>9. ASSUME NEW r \in Reviewer, CertificationInterrupt(r) PROVE CertificationInv'
    BY <2>9, CertificationInterruptOK
  <2>10. CASE UNCHANGED certificationVars
    BY <2>10 DEF certificationVars, CertificationInv, CertificationTypeOK, ReviewsOK, ReviewOK, UnopenedOK, ToldOK,
                 RulingsAreHonoured, RevocationsAreDelegated, DecisionsStand, Revoked, Delegated
  <2> QED BY <2>1, <2>2, <2>3, <2>4, <2>5, <2>6, <2>7, <2>8, <2>9, <2>10 DEF CertificationNext
<1> QED BY <1>1, <1>2, PTL DEF CertificationSpec

(* However decisions and completions overlap, are refused by the store or  *)
(* are cut off, a decision the reviewer was told of stands, and a          *)
(* completed certification has every standing revocation raised and        *)
(* proposed on the evidence of that decision (iag/engine.py).              *)
THEOREM RulingsAreHonouredTheorem == CertificationSpec => []RulingsAreHonoured
<1>1. CertificationInv => RulingsAreHonoured
  BY DEF CertificationInv
<1> QED BY <1>1, CertificationInductive, PTL

-----------------------------------------------------------------------------
(* The data lake                                                           *)

Row    == [stored : BOOLEAN, state : {"active", "archived", "expired"}, hold : BOOLEAN, evidence : Nat]
Copied == UNION {[rs -> Row] : rs \in SUBSET Record}
Entry  == [kind : {"retention", "retention_dry_run", "legal_hold", "archive", "restore"},
           records : SUBSET Record, flag : BOOLEAN]
Archive == [copies : Copied, evidence : Nat]
Job    == [pc : {"idle", "check", "decide", "file", "write", "take"},
           op : {"none", "apply", "hold", "archive", "restore", "ingest"}, copies : Copied,
           left : SUBSET Record, spared : SUBSET Record, policy : [ttl : Nat, archive : Nat],
           flag : BOOLEAN, evidence : Nat, alone : BOOLEAN]

LakeTypeOK ==
  /\ records \in [Record -> Row]
  /\ quarantined \in SUBSET Record /\ cited \in SUBSET Record
  /\ journal \in Seq(Entry)
  /\ archives \in Seq(Archive)
  /\ job \in [Operator -> Job]
  /\ calls \in Nat
  /\ kept \in [held : SUBSET Record, cited : SUBSET Record]

Fresh == [Missing EXCEPT !.stored = TRUE]

\* An archive that was filed under evidence e holds the records rs.
Filed(rs, e, filed) == \E n \in DOMAIN filed : filed[n].evidence = e /\ rs \subseteq DOMAIN filed[n].copies

\* What the stored row of r says is in the journal entries, and in the archives filed.
RowOK(r, row, entries, filed) ==
  /\ ~ row.stored => row = Missing
  /\ row.stored /\ row # Fresh =>
       LET e == entries[row.evidence] IN
       /\ row.evidence \in DOMAIN entries
       /\ r \in e.records
       /\ e.kind # "retention_dry_run"
       /\ e.kind = "retention"  => row.state \in {"archived", "expired"}
       /\ e.kind = "archive"    => row.state = "archived" /\ Filed({r}, row.evidence, filed)
       /\ e.kind = "restore"    => row.state = "active"
       /\ e.kind = "legal_hold" => row.hold = e.flag

RowsOK == \A r \in Record : RowOK(r, records[r], journal, archives)

Kind == [apply |-> "retention", hold |-> "legal_hold", archive |-> "archive", restore |-> "restore"]

\* What holds of a call k over the journal entries and the archives filed
JobOK(k, entries, filed) ==
  /\ \A r \in DOMAIN k.copies : k.copies[r].stored
  /\ k.pc = "check" => k.op = "apply"
  /\ k.pc = "take" => k.op = "ingest" /\ DOMAIN k.copies = {}
  /\ k.pc = "decide" => k.op \in {"hold", "archive", "restore"}
  /\ k.op = "archive" => \A r \in DOMAIN k.copies : k.copies[r].state = "active"
  /\ k.pc = "file" =>
       /\ k.op = "archive" /\ k.evidence \in DOMAIN entries
       /\ entries[k.evidence].kind = "archive" /\ DOMAIN k.copies \subseteq entries[k.evidence].records
  /\ k.pc = "write" =>
       /\ k.op \in {"apply", "hold", "archive", "restore"}
       /\ k.left \subseteq DOMAIN k.copies
       /\ k.evidence \in DOMAIN entries
       /\ entries[k.evidence].kind = Kind[k.op] /\ k.left \subseteq entries[k.evidence].records
       /\ k.op = "hold" => entries[k.evidence].flag = k.flag
       /\ k.op = "archive" => Filed(k.left, k.evidence, filed)
       /\ k.op = "apply" => \A r \in k.left : ~ k.copies[r].hold /\ r \notin k.spared

JobsOK == \A o \in Operator : JobOK(job[o], journal, archives)

ArchivesOK ==
  \A n \in DOMAIN archives : \A r \in DOMAIN archives[n].copies :
    archives[n].copies[r].stored /\ archives[n].copies[r].state = "active"

\* A call that is alone has no other call beside it.
AloneOK == \A o, p \in Operator : job[o].alone /\ o # p => job[p].pc = "idle"

\* The records call k may still write
Pending(k) == IF k.pc = "write" THEN k.left ELSE DOMAIN k.copies

\* Call k will not lift the hold of record r, stored as row, nor expire it.
LeavesHeld(k, r, row) ==
  k.pc # "idle" /\ r \in Pending(k) =>
    /\ k.copies[r].hold /\ k.op # "restore"
    /\ k.op = "hold" => k.flag
    /\ k.copies[r].state = "expired" <=> row.state = "expired"

\* Call k will not expire record r, which is referred to.
LeavesCited(k, r) ==
  k.pc # "idle" /\ r \in Pending(k) =>
    /\ k.copies[r].state # "expired"
    /\ k.op = "apply" => k.pc = "check" /\ r \in k.left \cup k.spared

HeldOK ==
  \A r \in kept.held : /\ records[r].stored /\ records[r].hold
                       /\ \A o \in Operator : LeavesHeld(job[o], r, records[r])
CitedOK ==
  \A r \in kept.cited : /\ r \in cited /\ records[r].stored /\ records[r].state # "expired"
                        /\ \A o \in Operator : LeavesCited(job[o], r)

LakeInv == LakeTypeOK /\ RowsOK /\ JobsOK /\ ArchivesOK /\ AloneOK /\ HeldOK /\ CitedOK

\* A step from rows rs to rows ts that expires nothing that is protected
Spares(rs, ts, held) == \A r \in held : rs[r].state # "expired" => ts[r].state # "expired"

-----------------------------------------------------------------------------
LEMMA NoJobOK ==
  /\ NoJob \in Job /\ NoJob.pc = "idle" /\ ~ NoJob.alone
  /\ \A entries, filed : JobOK(NoJob, entries, filed)
  /\ \A r, row : LeavesHeld(NoJob, r, row) /\ LeavesCited(NoJob, r)
<1> DEFINE none == [r \in {} |-> Missing]
<1>1. none \in [{} -> Row] /\ DOMAIN none = {}
  OBVIOUS
<1>2. none \in Copied
  BY <1>1, Zenon DEF Copied
<1> HIDE DEF none
<1>3. NoJob = [pc |-> "idle", op |-> "none", copies |-> none, left |-> {}, spared |-> {},
               policy |-> [ttl |-> 0, archive |-> 0], flag |-> FALSE, evidence |-> 0, alone |-> FALSE]
  BY DEF NoJob, none
<1>4. NoJob \in Job
  BY <1>2, <1>3 DEF Job
<1> QED BY <1>1, <1>3, <1>4 DEF JobOK, LeavesHeld, LeavesCited

\* The copies a call has read
LEMMA CopiesOf ==
  ASSUME NEW f \in Copied
  PROVE  DOMAIN f \in SUBSET Record /\ \A r \in DOMAIN f : f[r] \in Row
<1>1. PICK rs \in SUBSET Record : f \in [rs -> Row]
  BY Zenon DEF Copied
<1> QED BY <1>1

LEMMA ReadCopies ==
  ASSUME records \in [Record -> Row], NEW rs \in SUBSET Record
  PROVE  /\ Copies(rs) \in Copied /\ DOMAIN Copies(rs) = rs
         /\ \A r \in rs : Copies(rs)[r] = records[r]
<1>1. /\ Copies(rs) \in [rs -> Row] /\ DOMAIN Copies(rs) = rs
      /\ \A r \in rs : Copies(rs)[r] = records[r]
  BY DEF Copies
<1>2. Copies(rs) \in Copied
  BY <1>1, Zenon DEF Copied
<1> QED BY <1>1, <1>2

\* Evidence and archives are only ever added.
LEMMA AddedEntries ==
  ASSUME NEW entries \in Seq(Entry), NEW e \in Entry
  PROVE  /\ Append(entries, e) \in Seq(Entry)
         /\ Len(entries) + 1 \in DOMAIN Append(entries, e)
         /\ Append(entries, e)[Len(entries) + 1] = e
         /\ \A n \in DOMAIN entries : n \in DOMAIN Append(entries, e) /\ Append(entries, e)[n] = entries[n]
OBVIOUS

LEMMA AddedArchives ==
  ASSUME NEW filed \in Seq(Archive), NEW a \in Archive
  PROVE  /\ Append(filed, a) \in Seq(Archive)
         /\ Len(filed) + 1 \in DOMAIN Append(filed, a)
         /\ Append(filed, a)[Len(filed) + 1] = a
         /\ DOMAIN Append(filed, a) = DOMAIN filed \cup {Len(filed) + 1}
         /\ \A n \in DOMAIN filed : n \in DOMAIN Append(filed, a) /\ Append(filed, a)[n] = filed[n]
OBVIOUS

\* s is a prefix of t
Continues(s, t) == \A n \in DOMAIN s : n \in DOMAIN t /\ t[n] = s[n]

LEMMA TrailGrows ==
  ASSUME NEW entries, NEW more, NEW filed, NEW extra,
         Continues(entries, more), Continues(filed, extra)
  PROVE  /\ \A r, row : RowOK(r, row, entries, filed) => RowOK(r, row, more, extra)
         /\ \A k : JobOK(k, entries, filed) => JobOK(k, more, extra)
<1>1. \A rs, e : Filed(rs, e, filed) => Filed(rs, e, extra)
  BY DEF Continues, Filed
<1>2. ASSUME NEW r, NEW row, RowOK(r, row, entries, filed)
      PROVE  RowOK(r, row, more, extra)
  BY <1>1, <1>2 DEF RowOK, Continues
<1>3. ASSUME NEW k, JobOK(k, entries, filed)
      PROVE  JobOK(k, more, extra)
  BY <1>1, <1>3 DEF JobOK, Continues
<1> QED BY <1>2, <1>3

\* A step of one call that changes no record
LEMMA LocalKeepsLake ==
  ASSUME LakeInv, NEW o \in Operator, job[o].pc # "idle",
         NEW k \in Job, job' = [job EXCEPT ![o] = k], k.alone => job[o].alone,
         UNCHANGED <<records, quarantined, cited, calls, kept>>,
         journal' = journal \/ \E e \in Entry : journal' = Append(journal, e),
         archives' = archives \/ \E a \in Archive :
                        /\ archives' = Append(archives, a)
                        /\ \A r \in DOMAIN a.copies : a.copies[r].stored /\ a.copies[r].state = "active",
         JobOK(k, journal', archives'),
         \A r \in kept.held : LeavesHeld(k, r, records[r]),
         \A r \in kept.cited : LeavesCited(k, r)
  PROVE  LakeInv'
<1>1. /\ job \in [Operator -> Job] /\ journal \in Seq(Entry) /\ archives \in Seq(Archive)
      /\ records \in [Record -> Row]
  BY DEF LakeInv, LakeTypeOK
<1>2. Continues(journal, journal') /\ journal' \in Seq(Entry)
  <2>1. CASE journal' = journal
    BY <1>1, <2>1 DEF Continues
  <2>2. ASSUME NEW e \in Entry, journal' = Append(journal, e)
        PROVE  Continues(journal, journal') /\ journal' \in Seq(Entry)
    BY <1>1, <2>2, AddedEntries DEF Continues
  <2> QED BY <2>1, <2>2
<1>3. Continues(archives, archives') /\ archives' \in Seq(Archive) /\ ArchivesOK'
  <2>1. CASE archives' = archives
    BY <1>1, <2>1 DEF Continues, ArchivesOK, LakeInv
  <2>2. ASSUME NEW a \in Archive, archives' = Append(archives, a),
               \A r \in DOMAIN a.copies : a.copies[r].stored /\ a.copies[r].state = "active"
        PROVE  Continues(archives, archives') /\ archives' \in Seq(Archive) /\ ArchivesOK'
    <3>1. /\ archives' \in Seq(Archive) /\ archives'[Len(archives) + 1] = a
          /\ DOMAIN archives' = DOMAIN archives \cup {Len(archives) + 1}
          /\ \A n \in DOMAIN archives : n \in DOMAIN archives' /\ archives'[n] = archives[n]
      BY <1>1, <2>2, AddedArchives
    <3> QED BY <2>2, <3>1 DEF Continues, ArchivesOK, LakeInv
  <2> QED BY <2>1, <2>2
<1>4. job' \in [Operator -> Job] /\ job'[o] = k /\ \A p \in Operator : p # o => job'[p] = job[p]
  BY <1>1
<1>5. LakeTypeOK'
  BY <1>2, <1>3, <1>4 DEF LakeInv, LakeTypeOK
<1>6. RowsOK'
  BY <1>2, <1>3, TrailGrows DEF LakeInv, RowsOK
<1>7. JobsOK'
  BY <1>2, <1>3, <1>4, TrailGrows DEF LakeInv, JobsOK
<1>8. AloneOK'
  BY <1>4 DEF LakeInv, AloneOK
<1>9. HeldOK' /\ CitedOK'
  BY <1>4 DEF LakeInv, HeldOK, CitedOK
<1> QED BY <1>3, <1>5, <1>6, <1>7, <1>8, <1>9 DEF LakeInv

\* Whether a call is alone changes nothing else about it.
LEMMA AloneOrNot ==
  ASSUME NEW k \in Job, NEW b \in BOOLEAN
  PROVE  LET j == [k EXCEPT !.alone = b] IN
         /\ j \in Job /\ j.pc = k.pc /\ j.alone = b
         /\ \A entries, filed : JobOK(k, entries, filed) => JobOK(j, entries, filed)
         /\ \A r, row : LeavesHeld(k, r, row) => LeavesHeld(j, r, row)
         /\ \A r : LeavesCited(k, r) => LeavesCited(j, r)
<1> DEFINE j == [k EXCEPT !.alone = b]
<1>1. j \in Job /\ j.alone = b
  BY DEF Job
<1>2. /\ j.pc = k.pc /\ j.op = k.op /\ j.copies = k.copies /\ j.left = k.left
      /\ j.spared = k.spared /\ j.flag = k.flag /\ j.evidence = k.evidence
  BY DEF Job
<1> HIDE DEF j
<1>3. \A entries, filed : JobOK(k, entries, filed) => JobOK(j, entries, filed)
  BY <1>2 DEF JobOK
<1>4. /\ \A r, row : LeavesHeld(k, r, row) => LeavesHeld(j, r, row)
      /\ \A r : LeavesCited(k, r) => LeavesCited(j, r)
  BY <1>2 DEF LeavesHeld, LeavesCited, Pending
<1> QED BY <1>1, <1>2, <1>3, <1>4 DEF j

\* A call that begins
LEMMA StartsKeepsLake ==
  ASSUME LakeInv, NEW o \in Operator, NEW new \in Job, Starts(o, new),
         UNCHANGED <<records, quarantined, cited, journal, archives>>,
         kept' \in [held : SUBSET Record, cited : SUBSET Record],
         kept'.held \subseteq kept.held, kept'.cited = kept.cited,
         JobOK(new, journal, archives),
         \A r \in kept'.held : LeavesHeld(new, r, records[r]),
         \A r \in kept.cited : LeavesCited(new, r)
  PROVE  LakeInv'
<1> DEFINE k == [new EXCEPT !.alone = Quiet]
           other(p) == [job[p] EXCEPT !.alone = FALSE]
<1>1. job \in [Operator -> Job] /\ calls \in Nat
  BY DEF LakeInv, LakeTypeOK
<1>2. Quiet \in BOOLEAN
  BY DEF Quiet
<1>3. /\ job'[o] = k /\ \A p \in Operator : p # o => job'[p] = other(p)
      /\ DOMAIN job' = Operator /\ job' = [p \in Operator |-> job'[p]] /\ calls' = calls + 1
  BY DEF Starts
<1>4. /\ k \in Job /\ k.alone = Quiet
      /\ JobOK(k, journal, archives)
      /\ \A r \in kept'.held : LeavesHeld(k, r, records[r])
      /\ \A r \in kept.cited : LeavesCited(k, r)
  BY <1>2, AloneOrNot
<1>5. \A p \in Operator :
        /\ other(p) \in Job /\ other(p).pc = job[p].pc /\ ~ other(p).alone
        /\ JobOK(other(p), journal, archives)
        /\ \A r \in kept.held : LeavesHeld(other(p), r, records[r])
        /\ \A r \in kept.cited : LeavesCited(other(p), r)
  BY <1>1, AloneOrNot DEF LakeInv, JobsOK, HeldOK, CitedOK
<1> HIDE DEF k, other
<1>6. job' \in [Operator -> Job]
  BY <1>3, <1>4, <1>5
<1>7. LakeTypeOK'
  BY <1>1, <1>3, <1>6 DEF LakeInv, LakeTypeOK
<1>8. RowsOK' /\ ArchivesOK'
  BY DEF LakeInv, RowsOK, ArchivesOK
<1>9. JobsOK'
  BY <1>3, <1>4, <1>5 DEF JobsOK
<1>10. AloneOK'
  <2> SUFFICES ASSUME NEW q \in Operator, NEW p \in Operator, job'[q].alone, q # p
               PROVE  job'[p].pc = "idle"
    BY DEF AloneOK
  <2>1. q = o
    BY <1>3, <1>5
  <2>2. Quiet
    BY <1>3, <1>4, <2>1
  <2> QED BY <1>3, <1>5, <2>1, <2>2 DEF Quiet
<1>11. HeldOK' /\ CitedOK'
  BY <1>3, <1>4, <1>5 DEF LakeInv, HeldOK, CitedOK
<1> QED BY <1>7, <1>8, <1>9, <1>10, <1>11 DEF LakeInv

-----------------------------------------------------------------------------
(* The calls of the lake                                                   *)

\* What the types say of the call of o
LEMMA JobTypes ==
  ASSUME LakeInv, NEW o \in Operator
  PROVE  /\ job[o] \in Job /\ job[o].copies \in Copied
         /\ DOMAIN job[o].copies \in SUBSET Record
         /\ \A r \in DOMAIN job[o].copies : job[o].copies[r] \in Row
         /\ job[o].left \in SUBSET Record /\ job[o].spared \in SUBSET Record
         /\ job[o].policy \in [ttl : Nat, archive : Nat] /\ job[o].flag \in BOOLEAN
         /\ job[o].evidence \in Nat
         /\ JobOK(job[o], journal, archives)
         /\ \A r \in kept.held : LeavesHeld(job[o], r, records[r])
         /\ \A r \in kept.cited : LeavesCited(job[o], r)
<1>1. job[o] \in Job /\ job[o].copies \in Copied
  BY DEF LakeInv, LakeTypeOK, Job
<1>2. DOMAIN job[o].copies \in SUBSET Record /\ \A r \in DOMAIN job[o].copies : job[o].copies[r] \in Row
  BY <1>1, CopiesOf
<1> QED BY <1>1, <1>2 DEF LakeInv, JobsOK, HeldOK, CitedOK, Job

\* A call that ends or gives up
LEMMA EndKeepsLake ==
  ASSUME LakeInv, NEW o \in Operator, job[o].pc # "idle", job' = [job EXCEPT ![o] = NoJob],
         UNCHANGED <<records, quarantined, cited, calls, kept>>,
         journal' = journal \/ \E e \in Entry : journal' = Append(journal, e),
         archives' = archives \/ \E a \in Archive :
                        /\ archives' = Append(archives, a)
                        /\ \A r \in DOMAIN a.copies : a.copies[r].stored /\ a.copies[r].state = "active"
  PROVE  LakeInv'
BY NoJobOK, LocalKeepsLake

LEMMA ReadsKeepLake ==
  ASSUME LakeInv, NEW o \in Operator,
         \/ \E p \in Policies, dry \in BOOLEAN : ApplyReads(o, p, dry)
         \/ \E rs \in SUBSET Record, hold \in BOOLEAN : HoldReads(o, rs, hold)
         \/ \E r \in Record : ArchiveReads(o, Occurred[r])
         \/ \E n \in DOMAIN archives : RestoreReads(o, n)
         \/ \E rs \in SUBSET Record : IngestStarts(o, rs)
  PROVE  LakeInv'
<1>1. /\ records \in [Record -> Row] /\ archives \in Seq(Archive)
      /\ kept \in [held : SUBSET Record, cited : SUBSET Record]
  BY DEF LakeInv, LakeTypeOK
<1>2. NoJob \in Job
  BY NoJobOK
<1>3. \A r \in kept.held : records[r].stored /\ records[r].hold
  BY DEF LakeInv, HeldOK
<1>4. \A r \in kept.cited : records[r].stored /\ records[r].state # "expired"
  BY DEF LakeInv, CitedOK
<1>5. CASE \E p \in Policies, dry \in BOOLEAN : ApplyReads(o, p, dry)
  <2>1. PICK p \in Policies, dry \in BOOLEAN : ApplyReads(o, p, dry)
    BY <1>5
  <2> DEFINE rs == ActiveUntil(Latest(p))
             cs == Copies(rs)
             k  == [NoJob EXCEPT !.pc = "check", !.op = "apply", !.copies = cs,
                                 !.left = rs, !.policy = p, !.flag = dry]
  <2>2. Starts(o, k) /\ UNCHANGED <<records, quarantined, cited, journal, archives, kept>>
    BY <2>1 DEF ApplyReads
  <2>3. rs \in SUBSET Record /\ \A r \in rs : records[r].stored /\ records[r].state = "active"
    BY DEF ActiveUntil, Stored
  <2> HIDE DEF rs
  <2>4. cs \in Copied /\ DOMAIN cs = rs /\ \A r \in rs : cs[r] = records[r]
    BY <1>1, <2>3, ReadCopies
  <2> HIDE DEF cs
  <2>5. p \in [ttl : Nat, archive : Nat]
    BY LakeAssumption
  <2>6. k \in Job
    BY <1>2, <2>3, <2>4, <2>5 DEF Job
  <2>7. k.pc = "check" /\ k.op = "apply" /\ k.copies = cs /\ k.left = rs
    BY <1>2 DEF Job
  <2> HIDE DEF k
  <2>8. JobOK(k, journal, archives)
    BY <2>3, <2>4, <2>7 DEF JobOK
  <2>9. /\ \A r \in kept.held : LeavesHeld(k, r, records[r])
        /\ \A r \in kept.cited : LeavesCited(k, r)
    BY <1>3, <2>3, <2>4, <2>7 DEF LeavesHeld, LeavesCited, Pending
  <2> QED BY <1>1, <2>2, <2>6, <2>8, <2>9, StartsKeepsLake
<1>6. CASE \E rs \in SUBSET Record, hold \in BOOLEAN : HoldReads(o, rs, hold)
  <2>1. PICK rs \in SUBSET Record, hold \in BOOLEAN : HoldReads(o, rs, hold)
    BY <1>6
  <2> DEFINE cs == Copies(rs)
             k  == [NoJob EXCEPT !.pc = "decide", !.op = "hold", !.copies = cs, !.flag = hold]
  <2>2. /\ Starts(o, k) /\ UNCHANGED <<records, quarantined, cited, journal, archives>>
        /\ kept' = [kept EXCEPT !.held = IF hold THEN @ ELSE @ \ rs]
    BY <2>1 DEF HoldReads
  <2>3. \A r \in rs : records[r].stored
    BY <2>1 DEF HoldReads, Stored
  <2>4. cs \in Copied /\ DOMAIN cs = rs /\ \A r \in rs : cs[r] = records[r]
    BY <1>1, ReadCopies
  <2> HIDE DEF cs
  <2>5. k \in Job
    BY <1>2, <2>4 DEF Job
  <2>6. k.pc = "decide" /\ k.op = "hold" /\ k.copies = cs /\ k.flag = hold
    BY <1>2 DEF Job
  <2> HIDE DEF k
  <2>7. JobOK(k, journal, archives)
    BY <2>3, <2>4, <2>6 DEF JobOK
  <2>8. /\ kept' \in [held : SUBSET Record, cited : SUBSET Record]
        /\ kept'.held \subseteq kept.held /\ kept'.cited = kept.cited
        /\ hold \/ kept'.held \cap rs = {}
    BY <1>1, <2>2
  <2>9. /\ \A r \in kept'.held : LeavesHeld(k, r, records[r])
        /\ \A r \in kept.cited : LeavesCited(k, r)
    BY <1>3, <1>4, <2>4, <2>6, <2>8 DEF LeavesHeld, LeavesCited, Pending
  <2> QED BY <2>2, <2>5, <2>7, <2>8, <2>9, StartsKeepsLake
<1>7. CASE \E r \in Record : ArchiveReads(o, Occurred[r])
  <2>1. PICK t \in Record : ArchiveReads(o, Occurred[t])
    BY <1>7
  <2> DEFINE rs == ActiveUntil(Occurred[t])
             cs == Copies(rs)
             k  == [NoJob EXCEPT !.pc = "decide", !.op = "archive", !.copies = cs]
  <2>2. Starts(o, k) /\ UNCHANGED <<records, quarantined, cited, journal, archives, kept>>
    BY <2>1 DEF ArchiveReads
  <2>3. rs \in SUBSET Record /\ \A r \in rs : records[r].stored /\ records[r].state = "active"
    BY DEF ActiveUntil, Stored
  <2> HIDE DEF rs
  <2>4. cs \in Copied /\ DOMAIN cs = rs /\ \A r \in rs : cs[r] = records[r]
    BY <1>1, <2>3, ReadCopies
  <2> HIDE DEF cs
  <2>5. k \in Job
    BY <1>2, <2>4 DEF Job
  <2>6. k.pc = "decide" /\ k.op = "archive" /\ k.copies = cs
    BY <1>2 DEF Job
  <2> HIDE DEF k
  <2>7. JobOK(k, journal, archives)
    BY <2>3, <2>4, <2>6 DEF JobOK
  <2>8. /\ \A r \in kept.held : LeavesHeld(k, r, records[r])
        /\ \A r \in kept.cited : LeavesCited(k, r)
    BY <1>3, <2>3, <2>4, <2>6 DEF LeavesHeld, LeavesCited, Pending
  <2> QED BY <1>1, <2>2, <2>5, <2>7, <2>8, StartsKeepsLake
<1>8. CASE \E n \in DOMAIN archives : RestoreReads(o, n)
  <2>1. PICK n \in DOMAIN archives : RestoreReads(o, n)
    BY <1>8
  <2> DEFINE cs == archives[n].copies
             k  == [NoJob EXCEPT !.pc = "decide", !.op = "restore", !.copies = cs]
  <2>2. /\ Starts(o, k) /\ UNCHANGED <<records, quarantined, cited, journal, archives>>
        /\ kept' = [kept EXCEPT !.held = @ \ DOMAIN cs]
    BY <2>1 DEF RestoreReads
  <2>3. cs \in Copied /\ \A r \in DOMAIN cs : cs[r].stored /\ cs[r].state = "active"
    <3>1. archives[n] \in Archive
      BY <1>1, <2>1
    <3> QED BY <2>1, <3>1 DEF Archive, LakeInv, ArchivesOK
  <2> HIDE DEF cs
  <2>4. k \in Job
    BY <1>2, <2>3 DEF Job
  <2>5. k.pc = "decide" /\ k.op = "restore" /\ k.copies = cs
    BY <1>2 DEF Job
  <2> HIDE DEF k
  <2>6. JobOK(k, journal, archives)
    BY <2>3, <2>5 DEF JobOK
  <2>7. /\ kept' \in [held : SUBSET Record, cited : SUBSET Record]
        /\ kept'.held \subseteq kept.held /\ kept'.cited = kept.cited
        /\ kept'.held \cap DOMAIN cs = {}
    BY <1>1, <2>2
  <2>8. /\ \A r \in kept'.held : LeavesHeld(k, r, records[r])
        /\ \A r \in kept.cited : LeavesCited(k, r)
    BY <2>3, <2>5, <2>7 DEF LeavesHeld, LeavesCited, Pending
  <2> QED BY <2>2, <2>4, <2>6, <2>7, <2>8, StartsKeepsLake
<1>9. CASE \E rs \in SUBSET Record : IngestStarts(o, rs)
  <2>1. PICK rs \in SUBSET Record : IngestStarts(o, rs)
    BY <1>9
  <2> DEFINE k == [NoJob EXCEPT !.pc = "take", !.op = "ingest", !.left = rs]
  <2>2. Starts(o, k) /\ UNCHANGED <<records, quarantined, cited, journal, archives, kept>>
    BY <2>1 DEF IngestStarts
  <2>3. k \in Job
    BY <1>2 DEF Job
  <2>4. k.pc = "take" /\ k.op = "ingest" /\ k.copies = [r \in {} |-> Missing]
    BY DEF NoJob
  <2> HIDE DEF k
  <2>5. DOMAIN k.copies = {}
    BY <2>4
  <2>6. /\ JobOK(k, journal, archives)
        /\ \A r \in kept.held : LeavesHeld(k, r, records[r])
        /\ \A r \in kept.cited : LeavesCited(k, r)
    BY <2>4, <2>5 DEF JobOK, LeavesHeld, LeavesCited, Pending
  <2> QED BY <1>1, <2>2, <2>3, <2>6, StartsKeepsLake
<1> QED BY <1>5, <1>6, <1>7, <1>8, <1>9

\* The reference checks remember every record that was referred to all along.
LEMMA ChecksKeepLake ==
  ASSUME LakeInv, NEW o \in Operator, NEW r \in Record, ApplyChecks(o, r)
  PROVE  LakeInv'
<1> DEFINE left   == job[o].left \ {r}
           spared == IF r \in cited THEN job[o].spared \cup {r} ELSE job[o].spared
           k      == [job[o] EXCEPT !.left = left, !.spared = spared]
<1>1. /\ job[o].pc = "check" /\ job[o].op = "apply"
      /\ UNCHANGED <<records, quarantined, cited, journal, archives, calls, kept>>
  BY DEF ApplyChecks, InCall
<1>2. job' = [job EXCEPT ![o] = k]
  BY DEF ApplyChecks
<1>3. left \in SUBSET Record /\ spared \in SUBSET Record
  BY JobTypes
<1>4. \A q \in kept.cited : q \in cited /\ (q \in job[o].left \cup job[o].spared => q \in left \cup spared)
  BY DEF LakeInv, CitedOK
<1> HIDE DEF left, spared
<1>5. /\ k \in Job /\ k.pc = "check" /\ k.op = "apply" /\ k.copies = job[o].copies
      /\ k.left = left /\ k.spared = spared /\ k.alone = job[o].alone
  BY <1>1, <1>3, JobTypes DEF Job
<1> HIDE DEF k
<1>6. JobOK(k, journal, archives)
  BY <1>1, <1>5, JobTypes DEF JobOK
<1>7. \A q \in kept.held : LeavesHeld(k, q, records[q])
  BY <1>1, <1>5, JobTypes DEF LeavesHeld, Pending
<1>8. \A q \in kept.cited : LeavesCited(k, q)
  BY <1>1, <1>4, <1>5, JobTypes DEF LeavesCited, Pending
<1> QED BY <1>1, <1>2, <1>5, <1>6, <1>7, <1>8, LocalKeepsLake

\* A call that goes on to write what its evidence names
LEMMA ProceedsKeepsLake ==
  ASSUME LakeInv, NEW o \in Operator, job[o].pc \in {"check", "decide"},
         NEW e \in Entry, journal' = Append(journal, e),
         NEW rs \in SUBSET Record, rs \subseteq DOMAIN job[o].copies,
         Proceeds(o, rs),
         UNCHANGED <<records, quarantined, cited, archives, calls, kept>>,
         rs # {} =>
           /\ job[o].op \in {"apply", "hold", "restore"}
           /\ e.kind = Kind[job[o].op] /\ e.records = rs /\ (job[o].op = "hold" => e.flag = job[o].flag)
           /\ job[o].op = "apply" =>
                /\ \A r \in rs : ~ job[o].copies[r].hold /\ r \notin job[o].spared
                /\ job[o].left = {}
  PROVE  LakeInv'
<1> DEFINE k == [job[o] EXCEPT !.pc = "write", !.left = rs, !.evidence = Len(journal) + 1]
<1>1. journal \in Seq(Entry) /\ Len(journal) + 1 \in Nat
  BY DEF LakeInv, LakeTypeOK
<1>2. CASE rs = {}
  BY <1>2, EndKeepsLake DEF Proceeds
<1>3. CASE rs # {}
  <2>1. job' = [job EXCEPT ![o] = k]
    BY <1>3 DEF Proceeds
  <2>2. /\ Len(journal) + 1 \in DOMAIN journal' /\ journal'[Len(journal) + 1] = e
    BY <1>1, AddedEntries
  <2>3. /\ k \in Job /\ k.pc = "write" /\ k.op = job[o].op /\ k.copies = job[o].copies
        /\ k.left = rs /\ k.spared = job[o].spared /\ k.alone = job[o].alone
        /\ k.flag = job[o].flag /\ k.evidence = Len(journal) + 1
    BY <1>1, JobTypes DEF Job
  <2> HIDE DEF k
  <2>4. JobOK(k, journal', archives)
    BY <1>3, <2>2, <2>3, JobTypes DEF JobOK
  <2>5. \A q \in kept.held : LeavesHeld(k, q, records[q])
    BY <2>3, JobTypes DEF LeavesHeld, Pending
  <2>6. \A q \in kept.cited : LeavesCited(k, q)
    BY <1>3, <2>3, JobTypes DEF LeavesCited, Pending
  <2> QED BY <2>1, <2>3, <2>4, <2>5, <2>6, LocalKeepsLake
<1> QED BY <1>2, <1>3

LEMMA DecidesKeepLake ==
  ASSUME LakeInv, NEW o \in Operator, ApplyDecides(o) \/ HoldDecides(o) \/ RestoreDecides(o)
  PROVE  LakeInv'
<1>1. CASE ApplyDecides(o)
  <2> DEFINE kind == IF job[o].flag THEN "retention_dry_run" ELSE "retention"
             rs == IF job[o].flag THEN {} ELSE Selected(o)
             e == [kind |-> kind, records |-> Selected(o), flag |-> FALSE]
  <2>1. /\ job[o].op = "apply" /\ job[o].pc = "check" /\ job[o].left = {}
        /\ journal' = Append(journal, e) /\ Proceeds(o, rs)
        /\ UNCHANGED <<records, quarantined, cited, archives, calls, kept>>
    BY <1>1 DEF ApplyDecides, InCall, Journals
  <2>2. /\ Selected(o) \in SUBSET Record /\ Selected(o) \subseteq DOMAIN job[o].copies
        /\ \A r \in Selected(o) : ~ job[o].copies[r].hold /\ r \notin job[o].spared
    BY JobTypes DEF Selected
  <2>3. e \in Entry /\ e.records = Selected(o) /\ (~ job[o].flag => e.kind = Kind["apply"])
    BY <2>2, JobTypes DEF Entry, Kind
  <2>4. rs \in SUBSET Record /\ (rs # {} => ~ job[o].flag /\ rs = Selected(o))
        /\ rs \subseteq DOMAIN job[o].copies
    BY <2>2
  <2> HIDE DEF e, rs
  <2> QED BY <2>1, <2>2, <2>3, <2>4, ProceedsKeepsLake
<1>2. CASE HoldDecides(o)
  <2> DEFINE rs == DOMAIN job[o].copies
             e == [kind |-> "legal_hold", records |-> rs, flag |-> job[o].flag]
  <2>1. /\ job[o].op = "hold" /\ job[o].pc = "decide"
        /\ journal' = Append(journal, e) /\ Proceeds(o, rs)
        /\ UNCHANGED <<records, quarantined, cited, archives, calls, kept>>
    BY <1>2 DEF HoldDecides, InCall, Journals
  <2>2. e \in Entry /\ e.records = rs /\ e.kind = Kind["hold"] /\ e.flag = job[o].flag
    BY JobTypes DEF Entry, Kind
  <2> HIDE DEF e
  <2> QED BY <2>1, <2>2, JobTypes, ProceedsKeepsLake
<1>3. CASE RestoreDecides(o)
  <2> DEFINE rs == DOMAIN job[o].copies
             e == [kind |-> "restore", records |-> rs, flag |-> FALSE]
  <2>1. /\ job[o].op = "restore" /\ job[o].pc = "decide"
        /\ journal' = Append(journal, e) /\ Proceeds(o, rs)
        /\ UNCHANGED <<records, quarantined, cited, archives, calls, kept>>
    BY <1>3 DEF RestoreDecides, InCall, Journals
  <2>2. e \in Entry /\ e.records = rs /\ e.kind = Kind["restore"]
    BY JobTypes DEF Entry, Kind
  <2> HIDE DEF e
  <2> QED BY <2>1, <2>2, JobTypes, ProceedsKeepsLake
<1> QED BY <1>1, <1>2, <1>3

\* The evidence of an archive comes before the archive, and that before the records.
LEMMA ArchiveKeepsLake ==
  ASSUME LakeInv, NEW o \in Operator, ArchiveDecides(o) \/ ArchiveFiles(o)
  PROVE  LakeInv'
<1> DEFINE rs == DOMAIN job[o].copies
<1>1. CASE ArchiveDecides(o)
  <2> DEFINE e == [kind |-> "archive", records |-> rs, flag |-> FALSE]
             k == [job[o] EXCEPT !.pc = "file", !.evidence = Len(journal) + 1]
  <2>1. /\ job[o].op = "archive" /\ job[o].pc = "decide"
        /\ journal' = Append(journal, e) /\ job' = [job EXCEPT ![o] = k]
        /\ UNCHANGED <<records, quarantined, cited, archives, calls, kept>>
    BY <1>1 DEF ArchiveDecides, InCall, Journals
  <2>2. e \in Entry /\ e.records = rs /\ e.kind = "archive"
    BY JobTypes DEF Entry
  <2> HIDE DEF e
  <2>3. journal \in Seq(Entry) /\ Len(journal) + 1 \in Nat
    BY DEF LakeInv, LakeTypeOK
  <2>4. Len(journal) + 1 \in DOMAIN journal' /\ journal'[Len(journal) + 1] = e
    BY <2>1, <2>2, <2>3, AddedEntries
  <2>5. /\ k \in Job /\ k.pc = "file" /\ k.op = "archive" /\ k.copies = job[o].copies
        /\ k.alone = job[o].alone /\ k.evidence = Len(journal) + 1
    BY <2>1, <2>3, JobTypes DEF Job
  <2> HIDE DEF k
  <2>6. JobOK(k, journal', archives)
    BY <2>1, <2>2, <2>4, <2>5, JobTypes DEF JobOK
  <2>7. /\ \A q \in kept.held : LeavesHeld(k, q, records[q])
        /\ \A q \in kept.cited : LeavesCited(k, q)
    BY <2>1, <2>5, JobTypes DEF LeavesHeld, LeavesCited, Pending
  <2> QED BY <2>1, <2>2, <2>5, <2>6, <2>7, LocalKeepsLake
<1>2. CASE ArchiveFiles(o)
  <2> DEFINE a == [copies |-> job[o].copies, evidence |-> job[o].evidence]
             k == [job[o] EXCEPT !.pc = "write", !.left = rs]
  <2>1. /\ job[o].op = "archive" /\ job[o].pc = "file"
        /\ archives' = Append(archives, a)
        /\ job' = [job EXCEPT ![o] = IF rs = {} THEN NoJob ELSE k]
        /\ UNCHANGED <<records, quarantined, cited, journal, calls, kept>>
    BY <1>2 DEF ArchiveFiles, InCall
  <2>2. a \in Archive /\ a.copies = job[o].copies /\ a.evidence = job[o].evidence
        /\ \A r \in DOMAIN a.copies : a.copies[r].stored /\ a.copies[r].state = "active"
    BY <2>1, JobTypes DEF Archive, JobOK
  <2> HIDE DEF a
  <2>3. archives \in Seq(Archive)
    BY DEF LakeInv, LakeTypeOK
  <2>4. Len(archives) + 1 \in DOMAIN archives' /\ archives'[Len(archives) + 1] = a
    BY <2>1, <2>2, <2>3, AddedArchives
  <2>5. /\ k \in Job /\ k.pc = "write" /\ k.op = "archive" /\ k.copies = job[o].copies
        /\ k.alone = job[o].alone /\ k.evidence = job[o].evidence /\ k.left = rs
    BY <2>1, JobTypes DEF Job
  <2> HIDE DEF k
  <2>6. JobOK(k, journal, archives')
    <3>1. Filed(rs, k.evidence, archives')
      BY <2>2, <2>4, <2>5 DEF Filed
    <3> QED BY <2>1, <2>5, <3>1, JobTypes DEF JobOK, Kind
  <2>7. /\ \A q \in kept.held : LeavesHeld(k, q, records[q])
        /\ \A q \in kept.cited : LeavesCited(k, q)
    BY <2>1, <2>5, JobTypes DEF LeavesHeld, LeavesCited, Pending
  <2>8. CASE rs = {}
    BY <2>1, <2>2, <2>8, EndKeepsLake
  <2>9. CASE rs # {}
    BY <2>1, <2>2, <2>5, <2>6, <2>7, <2>9, LocalKeepsLake
  <2> QED BY <2>8, <2>9
<1> QED BY <1>1, <1>2

-----------------------------------------------------------------------------
(* The lake writes a record                                                *)

LEMMA RowStep ==
  ASSUME LakeInv, NEW o \in Operator, job[o].pc # "idle",
         NEW k \in Job, job' = [job EXCEPT ![o] = k], k.alone => job[o].alone,
         JobOK(k, journal, archives),
         NEW r \in Record, NEW row \in Row, records' = [records EXCEPT ![r] = row],
         RowOK(r, row, journal, archives),
         UNCHANGED <<cited, journal, archives, calls>>, quarantined' \in SUBSET Record,
         kept' \in [held : SUBSET Record, cited : SUBSET Record], kept'.cited = kept.cited,
         kept'.held \subseteq kept.held \cup {r},
         \A q \in kept'.held \ {r} : LeavesHeld(k, q, records[q]),
         \A q \in kept.cited \ {r} : LeavesCited(k, q),
         k.pc # "idle" => r \notin Pending(k),
         r \in kept'.held =>
           row.stored /\ row.hold /\ \A p \in Operator : p # o => LeavesHeld(job[p], r, row),
         r \in kept.cited => row.stored /\ row.state # "expired"
  PROVE  LakeInv'
<1>1. job \in [Operator -> Job] /\ records \in [Record -> Row]
  BY DEF LakeInv, LakeTypeOK
<1>2. job' \in [Operator -> Job] /\ job'[o] = k /\ \A p \in Operator : p # o => job'[p] = job[p]
  BY <1>1
<1>3. /\ records' \in [Record -> Row] /\ records'[r] = row
      /\ \A q \in Record : q # r => records'[q] = records[q]
  BY <1>1
<1>4. LakeTypeOK'
  BY <1>2, <1>3 DEF LakeInv, LakeTypeOK
<1>5. RowsOK'
  BY <1>3 DEF LakeInv, RowsOK
<1>6. JobsOK' /\ ArchivesOK' /\ AloneOK'
  BY <1>2 DEF LakeInv, JobsOK, ArchivesOK, AloneOK
<1>7. HeldOK'
  <2> SUFFICES ASSUME NEW q \in kept'.held
               PROVE  /\ records'[q].stored /\ records'[q].hold
                      /\ \A p \in Operator : LeavesHeld(job'[p], q, records'[q])
    BY DEF HeldOK
  <2>1. CASE q = r
    <3>1. LeavesHeld(k, r, row)
      BY DEF LeavesHeld
    <3> QED BY <1>2, <1>3, <2>1, <3>1
  <2>2. CASE q # r
    BY <1>2, <1>3, <2>2 DEF LakeInv, HeldOK
  <2> QED BY <2>1, <2>2
<1>8. CitedOK'
  <2> SUFFICES ASSUME NEW q \in kept.cited
               PROVE  /\ q \in cited /\ records'[q].stored /\ records'[q].state # "expired"
                      /\ \A p \in Operator : LeavesCited(job'[p], q)
    BY DEF CitedOK
  <2>1. LeavesCited(k, q)
    BY DEF LeavesCited
  <2>2. q \in Record
    BY DEF LakeInv, LakeTypeOK
  <2> QED BY <1>2, <1>3, <2>1, <2>2 DEF LakeInv, CitedOK
<1> QED BY <1>4, <1>5, <1>6, <1>7, <1>8 DEF LakeInv

\* What a call that is writing makes of its copy of record r
LEMMA RewrittenRow ==
  ASSUME LakeInv, NEW o \in Operator, job[o].pc = "write", NEW r \in job[o].left
  PROVE  LET row == Rewritten(o, r) IN
         /\ row \in Row /\ row.stored
         /\ RowOK(r, row, journal, archives)
         /\ job[o].op = "hold" => row.hold = job[o].flag /\ row.state = job[o].copies[r].state
         /\ job[o].op # "hold" => row.hold = job[o].copies[r].hold
         /\ job[o].op = "archive" => row.state = "archived"
         /\ job[o].op = "restore" => row.state = "active"
<1> DEFINE ev    == job[o].evidence
           copy  == [job[o].copies[r] EXCEPT !.evidence = ev]
           row   == Rewritten(o, r)
           state == IF Expires(o, r) THEN "expired" ELSE "archived"
<1>1. /\ job[o].op \in {"apply", "hold", "archive", "restore"}
      /\ r \in DOMAIN job[o].copies /\ job[o].copies[r].stored /\ job[o].copies[r] \in Row
      /\ ev \in DOMAIN journal /\ ev \in Nat
      /\ journal[ev].kind = Kind[job[o].op] /\ r \in journal[ev].records
      /\ job[o].op = "hold" => journal[ev].flag = job[o].flag
      /\ job[o].op = "archive" => Filed(job[o].left, ev, archives)
      /\ job[o].flag \in BOOLEAN
  BY JobTypes DEF JobOK
<1>2. /\ copy \in Row /\ copy.stored /\ copy.evidence = ev /\ copy.hold = job[o].copies[r].hold
      /\ copy.state = job[o].copies[r].state
  BY <1>1 DEF Row
<1> HIDE DEF copy
<1>3. row = CASE job[o].op = "apply"   -> [copy EXCEPT !.state = state]
              [] job[o].op = "hold"    -> [copy EXCEPT !.hold = job[o].flag]
              [] job[o].op = "archive" -> [copy EXCEPT !.state = "archived"]
              [] job[o].op = "restore" -> [copy EXCEPT !.state = "active"]
  BY DEF Rewritten, copy
<1>4. state \in {"expired", "archived"}
  OBVIOUS
<1> HIDE DEF row, state
<1>5. CASE job[o].op = "apply"
  <2>1. /\ row \in Row /\ row.stored /\ row.evidence = ev /\ row.hold = copy.hold
        /\ row.state \in {"expired", "archived"}
    BY <1>2, <1>3, <1>4, <1>5 DEF Row
  <2>2. RowOK(r, row, journal, archives)
    BY <1>1, <1>5, <2>1 DEF RowOK, Kind
  <2> QED BY <1>2, <1>5, <2>1, <2>2 DEF row
<1>6. CASE job[o].op = "hold"
  <2>1. /\ row \in Row /\ row.stored /\ row.evidence = ev /\ row.hold = job[o].flag
        /\ row.state = copy.state
    BY <1>1, <1>2, <1>3, <1>6 DEF Row
  <2>2. RowOK(r, row, journal, archives)
    BY <1>1, <1>6, <2>1 DEF RowOK, Kind
  <2> QED BY <1>2, <1>6, <2>1, <2>2 DEF row
<1>7. CASE job[o].op = "archive"
  <2>1. /\ row \in Row /\ row.stored /\ row.evidence = ev /\ row.hold = copy.hold
        /\ row.state = "archived"
    BY <1>2, <1>3, <1>7 DEF Row
  <2>2. Filed({r}, ev, archives)
    BY <1>1, <1>7 DEF Filed
  <2>3. RowOK(r, row, journal, archives)
    BY <1>1, <1>7, <2>1, <2>2 DEF RowOK, Kind
  <2> QED BY <1>2, <1>7, <2>1, <2>3 DEF row
<1>8. CASE job[o].op = "restore"
  <2>1. /\ row \in Row /\ row.stored /\ row.evidence = ev /\ row.hold = copy.hold
        /\ row.state = "active"
    BY <1>2, <1>3, <1>8 DEF Row
  <2>2. RowOK(r, row, journal, archives)
    BY <1>1, <1>8, <2>1 DEF RowOK, Kind
  <2> QED BY <1>2, <1>8, <2>1, <2>2 DEF row
<1> QED BY <1>1, <1>5, <1>6, <1>7, <1>8

\* What is left of a call when it has dealt with record r
LEMMA LeftOver ==
  ASSUME LakeInv, NEW o \in Operator, NEW r \in job[o].left, job[o].pc \in {"write", "take"},
         NEW k \in {NoJob, [job[o] EXCEPT !.left = @ \ {r}]}
  PROVE  /\ k \in Job /\ (k.alone => job[o].alone) /\ JobOK(k, journal, archives)
         /\ k.pc # "idle" => r \notin Pending(k)
         /\ \A q \in kept.held : LeavesHeld(k, q, records[q])
         /\ \A q \in kept.cited : LeavesCited(k, q)
<1>1. CASE k = NoJob
  BY <1>1, NoJobOK
<1>2. CASE k = [job[o] EXCEPT !.left = @ \ {r}]
  <2>1. /\ k \in Job /\ k.alone = job[o].alone /\ k.pc = job[o].pc /\ k.op = job[o].op
        /\ k.copies = job[o].copies /\ k.left = job[o].left \ {r} /\ k.spared = job[o].spared
        /\ k.flag = job[o].flag /\ k.evidence = job[o].evidence
    BY <1>2, JobTypes DEF Job
  <2>2. Filed(job[o].left, job[o].evidence, archives) => Filed(k.left, k.evidence, archives)
    BY <2>1 DEF Filed
  <2>3. JobOK(k, journal, archives)
    BY <2>1, <2>2, JobTypes DEF JobOK
  <2>4. k.pc # "idle" => r \notin Pending(k)
    BY <2>1, JobTypes DEF Pending, JobOK
  <2>5. Pending(k) \subseteq Pending(job[o])
    BY <2>1 DEF Pending
  <2>6. \A q \in kept.held : LeavesHeld(k, q, records[q])
    BY <2>1, <2>5, JobTypes DEF LeavesHeld
  <2>7. \A q \in kept.cited : LeavesCited(k, q)
    BY <2>1, <2>5, JobTypes DEF LeavesCited, JobOK, Pending
  <2> QED BY <2>1, <2>3, <2>4, <2>6, <2>7
<1> QED BY <1>1, <1>2

LEMMA WritesKeepLake ==
  ASSUME LakeInv, NEW o \in Operator, NEW r \in Record, Writes(o, r)
  PROVE  LakeInv' /\ Spares(records, records', kept.held)
<1> DEFINE row == Rewritten(o, r)
           k   == IF job[o].left = {r} THEN NoJob ELSE [job[o] EXCEPT !.left = @ \ {r}]
<1>1. /\ job[o].pc = "write" /\ r \in job[o].left
      /\ records' = [records EXCEPT ![r] = row] /\ job' = [job EXCEPT ![o] = k]
      /\ kept' = [kept EXCEPT !.held = IF job[o].op = "hold" /\ job[o].flag /\ job[o].alone
                                       THEN @ \cup {r} ELSE @]
      /\ UNCHANGED <<quarantined, cited, journal, archives, calls>>
  <2>1. /\ job[o].pc = "write" /\ r \in job[o].left
        /\ records' = [records EXCEPT ![r] = row]
        /\ kept' = [kept EXCEPT !.held = IF job[o].op = "hold" /\ job[o].flag /\ job[o].alone
                                         THEN @ \cup {r} ELSE @]
        /\ UNCHANGED <<quarantined, cited, journal, archives, calls>>
    BY Zenon DEF Writes
  <2>2. job' = [job EXCEPT ![o] = k]
    BY Zenon DEF Writes
  <2> QED BY <2>1, <2>2
<1>2. k \in {NoJob, [job[o] EXCEPT !.left = @ \ {r}]}
  OBVIOUS
<1>3. /\ row \in Row /\ row.stored
      /\ RowOK(r, row, journal, archives)
      /\ job[o].op = "hold" => row.hold = job[o].flag /\ row.state = job[o].copies[r].state
      /\ job[o].op # "hold" => row.hold = job[o].copies[r].hold
      /\ job[o].op = "archive" => row.state = "archived"
      /\ job[o].op = "restore" => row.state = "active"
  BY <1>1, RewrittenRow
<1> HIDE DEF row, k
<1>4. /\ k \in Job /\ (k.alone => job[o].alone) /\ JobOK(k, journal, archives)
      /\ k.pc # "idle" => r \notin Pending(k)
      /\ \A q \in kept.held : LeavesHeld(k, q, records[q])
      /\ \A q \in kept.cited : LeavesCited(k, q)
  BY <1>1, <1>2, LeftOver
<1>5. /\ kept \in [held : SUBSET Record, cited : SUBSET Record]
      /\ quarantined \in SUBSET Record /\ records \in [Record -> Row]
  BY DEF LakeInv, LakeTypeOK
<1>6. /\ kept' \in [held : SUBSET Record, cited : SUBSET Record] /\ kept'.cited = kept.cited
      /\ kept'.held \subseteq kept.held \cup {r}
      /\ r \in kept'.held \ kept.held => job[o].op = "hold" /\ job[o].flag /\ job[o].alone
  BY <1>1, <1>5
<1>7. /\ job[o].op \in {"apply", "hold", "archive", "restore"} /\ r \in DOMAIN job[o].copies
      /\ r \in Pending(job[o])
      /\ job[o].op = "apply" => ~ job[o].copies[r].hold
      /\ job[o].op = "archive" => job[o].copies[r].state = "active"
  BY <1>1, JobTypes DEF JobOK, Pending
<1>8. ASSUME r \in kept.held
      PROVE  row.hold /\ (row.state = "expired" <=> records[r].state = "expired")
  <2>1. /\ job[o].copies[r].hold /\ job[o].op # "restore" /\ (job[o].op = "hold" => job[o].flag)
        /\ job[o].copies[r].state = "expired" <=> records[r].state = "expired"
    BY <1>1, <1>7, <1>8, JobTypes DEF LeavesHeld
  <2> QED BY <1>3, <1>7, <2>1
<1>9. ASSUME r \in kept'.held, NEW p \in Operator, p # o
      PROVE  LeavesHeld(job[p], r, row)
  <2>1. CASE r \in kept.held
    <3>1. LeavesHeld(job[p], r, records[r])
      BY <2>1 DEF LakeInv, HeldOK
    <3> QED BY <1>8, <2>1, <3>1 DEF LeavesHeld
  <2>2. CASE r \notin kept.held
    <3>1. job[p].pc = "idle"
      BY <1>6, <1>9, <2>2 DEF LakeInv, AloneOK
    <3> QED BY <3>1 DEF LeavesHeld
  <2> QED BY <2>1, <2>2
<1>10. r \in kept'.held => row.hold
  BY <1>3, <1>6, <1>8
<1>11. r \in kept.cited => row.state # "expired"
  <2> SUFFICES ASSUME r \in kept.cited PROVE row.state # "expired"
    OBVIOUS
  <2>1. job[o].copies[r].state # "expired" /\ job[o].op # "apply"
    BY <1>1, <1>7, JobTypes DEF LeavesCited
  <2> QED BY <1>3, <1>7, <2>1
<1>12. LakeInv'
  BY <1>1, <1>3, <1>4, <1>5, <1>6, <1>9, <1>10, <1>11, RowStep
<1>13. Spares(records, records', kept.held)
  BY <1>1, <1>5, <1>8 DEF Spares
<1> QED BY <1>12, <1>13

LEMMA IngestKeepsLake ==
  ASSUME LakeInv, NEW o \in Operator, NEW r \in Record, IngestTakes(o, r)
  PROVE  LakeInv' /\ Spares(records, records', kept.held)
<1> DEFINE k   == IF job[o].left = {r} \/ (r \notin Malformed /\ r \in Stored) THEN NoJob
                  ELSE [job[o] EXCEPT !.left = @ \ {r}]
           row == IF r \in Malformed \/ records[r].stored THEN records[r] ELSE Fresh
<1>1. /\ job[o].pc = "take" /\ r \in job[o].left /\ job' = [job EXCEPT ![o] = k]
      /\ UNCHANGED <<cited, journal, archives, calls, kept>>
      /\ quarantined' \in {quarantined, quarantined \cup {r}}
  <2>1. /\ job[o].pc = "take" /\ r \in job[o].left
        /\ UNCHANGED <<cited, journal, archives, calls, kept>>
        /\ quarantined' \in {quarantined, quarantined \cup {r}}
    BY DEF IngestTakes, InCall
  <2>2. job' = [job EXCEPT ![o] = k]
    BY Zenon DEF IngestTakes
  <2> QED BY <2>1, <2>2
<1>2. /\ kept \in [held : SUBSET Record, cited : SUBSET Record]
      /\ quarantined \in SUBSET Record /\ records \in [Record -> Row]
      /\ RowOK(r, records[r], journal, archives)
  BY DEF LakeInv, LakeTypeOK, RowsOK
<1>3. records' = [records EXCEPT ![r] = row]
  <2>1. records = [records EXCEPT ![r] = records[r]]
    BY <1>2
  <2> QED BY <2>1 DEF IngestTakes, Fresh
<1>4. Fresh \in Row /\ Fresh.stored /\ RowOK(r, Fresh, journal, archives)
  <2>1. Fresh \in Row /\ Fresh.stored
    BY DEF Fresh, Missing, Row
  <2> QED BY <2>1 DEF RowOK
<1>5. row \in Row /\ RowOK(r, row, journal, archives) /\ (records[r].stored => row = records[r])
  BY <1>2, <1>4
<1>6. k \in {NoJob, [job[o] EXCEPT !.left = @ \ {r}]}
  OBVIOUS
<1> HIDE DEF row, k
<1>7. /\ k \in Job /\ (k.alone => job[o].alone) /\ JobOK(k, journal, archives)
      /\ k.pc # "idle" => r \notin Pending(k)
      /\ \A q \in kept.held : LeavesHeld(k, q, records[q])
      /\ \A q \in kept.cited : LeavesCited(k, q)
  BY <1>1, <1>6, LeftOver
<1>8. r \in kept.held => /\ row = records[r] /\ row.stored /\ row.hold
                         /\ \A p \in Operator : LeavesHeld(job[p], r, row)
  BY <1>5 DEF LakeInv, HeldOK
<1>9. r \in kept.cited => row = records[r] /\ row.stored /\ row.state # "expired"
  BY <1>5 DEF LakeInv, CitedOK
<1>10. kept' = kept /\ quarantined' \in SUBSET Record
  BY <1>1, <1>2
<1>11. LakeInv'
  BY <1>1, <1>2, <1>3, <1>5, <1>7, <1>8, <1>9, <1>10, RowStep
<1>12. Spares(records, records', kept.held)
  BY <1>2, <1>3, <1>8 DEF Spares
<1> QED BY <1>11, <1>12

LEMMA CiteKeepsLake ==
  ASSUME LakeInv, NEW r \in Record, Cite(r)
  PROVE  LakeInv'
<1>1. /\ r \in Stored /\ cited' = cited \cup {r}
      /\ UNCHANGED <<records, quarantined, journal, archives, job, calls>>
      /\ kept' = [kept EXCEPT !.cited = IF Quiet /\ records[r].state # "expired" THEN @ \cup {r} ELSE @]
      /\ kept \in [held : SUBSET Record, cited : SUBSET Record]
  BY DEF Cite, LakeInv, LakeTypeOK
<1>2. /\ kept' \in [held : SUBSET Record, cited : SUBSET Record] /\ kept'.held = kept.held
      /\ kept'.cited \subseteq kept.cited \cup {r}
      /\ r \in kept'.cited \ kept.cited => Quiet /\ records[r].state # "expired"
  BY <1>1
<1>3. LakeTypeOK' /\ RowsOK' /\ JobsOK' /\ ArchivesOK' /\ AloneOK'
  BY <1>1, <1>2 DEF LakeInv, LakeTypeOK, RowsOK, JobsOK, ArchivesOK, AloneOK
<1>4. HeldOK'
  BY <1>1, <1>2 DEF LakeInv, HeldOK
<1>5. CitedOK'
  <2> SUFFICES ASSUME NEW q \in kept'.cited
               PROVE  /\ q \in cited' /\ records[q].stored /\ records[q].state # "expired"
                      /\ \A o \in Operator : LeavesCited(job[o], q)
    BY <1>1 DEF CitedOK
  <2>1. CASE q \in kept.cited
    BY <1>1, <2>1 DEF LakeInv, CitedOK
  <2>2. CASE q \notin kept.cited
    BY <1>1, <1>2, <2>2 DEF Stored, Quiet, LeavesCited
  <2> QED BY <2>1, <2>2
<1> QED BY <1>3, <1>4, <1>5 DEF LakeInv

LEMMA LakeInitOK == LakeInit => LakeInv
<1> SUFFICES ASSUME LakeInit PROVE LakeInv
  OBVIOUS
<1>1. PICK rs \in SUBSET (Record \ Malformed) :
        records = [r \in Record |-> [Missing EXCEPT !.stored = r \in rs]]
  BY DEF LakeInit
<1>2. \A r \in Record : records[r] \in Row /\ records[r] \in {Missing, Fresh}
  <2> SUFFICES ASSUME NEW r \in Record
               PROVE  records[r] \in Row /\ records[r] \in {Missing, Fresh}
    OBVIOUS
  <2>1. Missing \in Row /\ Fresh \in Row
    BY DEF Row, Missing, Fresh
  <2>2. CASE r \in rs
    <3>1. records[r] = Fresh
      BY <1>1, <2>2 DEF Fresh, Missing
    <3> QED BY <2>1, <3>1
  <2>3. CASE r \notin rs
    <3>1. (r \in rs) = FALSE
      BY <2>3
    <3>2. records[r] = [Missing EXCEPT !.stored = FALSE]
      BY <1>1, <3>1, Zenon
    <3>3. records[r] = Missing
      BY <3>2 DEF Missing
    <3> QED BY <2>1, <3>3
  <2> QED BY <2>2, <2>3
<1>3. /\ quarantined = {} /\ cited = {} /\ journal = <<>> /\ archives = <<>>
      /\ calls = 0 /\ kept = [held |-> {}, cited |-> {}]
      /\ job \in [Operator -> Job] /\ \A o \in Operator : job[o] = NoJob
  BY NoJobOK DEF LakeInit
<1>4. LakeTypeOK
  BY <1>1, <1>2, <1>3 DEF LakeTypeOK
<1>5. RowsOK
  BY <1>2 DEF RowsOK, RowOK, Missing, Fresh
<1>6. JobsOK /\ AloneOK
  BY <1>3, NoJobOK DEF JobsOK, AloneOK
<1>7. ArchivesOK /\ HeldOK /\ CitedOK
  BY <1>3 DEF ArchivesOK, HeldOK, CitedOK
<1> QED BY <1>4, <1>5, <1>6, <1>7 DEF LakeInv

LEMMA LakeInterruptOK ==
  ASSUME LakeInv, NEW o \in Operator, LakeInterrupt(o)
  PROVE  LakeInv'
BY EndKeepsLake DEF LakeInterrupt

\* A step of the lake keeps the invariant, forgets no reference and expires
\* nothing that is on hold.
LEMMA LakeStep ==
  ASSUME LakeInv, [LakeNext]_lakeVars
  PROVE  /\ LakeInv' /\ kept.cited \subseteq kept'.cited
         /\ Spares(records, records', kept.held)
<1> kept \in [held : SUBSET Record, cited : SUBSET Record]
  BY DEF LakeInv, LakeTypeOK
<1>1. ASSUME records' = records PROVE Spares(records, records', kept.held)
  BY <1>1 DEF Spares
<1>2. ASSUME NEW o \in Operator,
             \/ \E p \in Policies, dry \in BOOLEAN : ApplyReads(o, p, dry)
             \/ \E rs \in SUBSET Record, hold \in BOOLEAN : HoldReads(o, rs, hold)
             \/ \E r \in Record : ArchiveReads(o, Occurred[r])
             \/ \E n \in DOMAIN archives : RestoreReads(o, n)
             \/ \E rs \in SUBSET Record : IngestStarts(o, rs)
      PROVE  LakeInv' /\ kept.cited \subseteq kept'.cited /\ Spares(records, records', kept.held)
  <2>1. LakeInv'
    BY <1>2, ReadsKeepLake
  <2>2. records' = records /\ kept.cited \subseteq kept'.cited
    BY <1>2 DEF ApplyReads, HoldReads, ArchiveReads, RestoreReads, IngestStarts
  <2> QED BY <1>1, <2>1, <2>2
<1>3. ASSUME NEW o \in Operator, \/ ApplyDecides(o) \/ HoldDecides(o) \/ RestoreDecides(o)
                                 \/ ArchiveDecides(o) \/ ArchiveFiles(o) \/ LakeInterrupt(o)
                                 \/ \E r \in Record : ApplyChecks(o, r)
      PROVE  LakeInv' /\ kept.cited \subseteq kept'.cited /\ Spares(records, records', kept.held)
  <2>1. LakeInv'
    BY <1>3, DecidesKeepLake, ArchiveKeepsLake, LakeInterruptOK, ChecksKeepLake
  <2>2. records' = records /\ kept' = kept
    BY <1>3 DEF ApplyDecides, HoldDecides, RestoreDecides, ArchiveDecides, ArchiveFiles, LakeInterrupt,
                ApplyChecks
  <2> QED BY <1>1, <2>1, <2>2
<1>4. ASSUME NEW o \in Operator, NEW r \in Record, Writes(o, r) \/ IngestTakes(o, r)
      PROVE  LakeInv' /\ kept.cited \subseteq kept'.cited /\ Spares(records, records', kept.held)
  <2>1. LakeInv' /\ Spares(records, records', kept.held)
    BY <1>4, WritesKeepLake, IngestKeepsLake
  <2>2. kept'.cited = kept.cited
    BY <1>4 DEF Writes, IngestTakes
  <2> QED BY <2>1, <2>2
<1>5. ASSUME NEW r \in Record, Cite(r)
      PROVE  LakeInv' /\ kept.cited \subseteq kept'.cited /\ Spares(records, records', kept.held)
  <2>1. records' = records /\ kept.cited \subseteq kept'.cited
    BY <1>5 DEF Cite
  <2> QED BY <1>1, <1>5, <2>1, CiteKeepsLake
<1>6. CASE UNCHANGED lakeVars
  <2>1. LakeInv' /\ records' = records /\ kept' = kept
    BY <1>6 DEF lakeVars, LakeInv, LakeTypeOK, RowsOK, JobsOK, ArchivesOK, AloneOK, HeldOK, CitedOK
  <2> QED BY <1>1, <2>1
<1>7. CASE LakeNext
  BY <1>2, <1>3, <1>4, <1>5, <1>7 DEF LakeNext
<1> QED BY <1>6, <1>7

(* Every state of the data lake satisfies the inductive invariant.         *)
THEOREM LakeInductive == LakeSpec => []LakeInv
<1>1. LakeInit => LakeInv
  BY LakeInitOK
<1>2. LakeInv /\ [LakeNext]_lakeVars => LakeInv'
  BY LakeStep
<1> QED BY <1>1, <1>2, PTL DEF LakeSpec

(* Whatever calls overlapped or were cut off, a record that was changed    *)
(* cites the evidence that says what was done to it, and one that archive  *)
(* has marked lies in an archive filed before (lake/retention.py).         *)
THEOREM ChangesAreTraceableTheorem == LakeSpec => []ChangesAreTraceable
<1>1. LakeInv => ChangesAreTraceable
  <2> SUFFICES ASSUME LakeInv, NEW r \in Record, records[r].stored
               PROVE  /\ records[r] # Fresh =>
                           LET e == journal[records[r].evidence]
                           IN  /\ records[r].evidence \in DOMAIN journal
                               /\ r \in e.records
                               /\ e.kind = "retention"  => records[r].state \in {"archived", "expired"}
                               /\ e.kind = "archive"    => records[r].state = "archived"
                               /\ e.kind = "restore"    => records[r].state = "active"
                               /\ e.kind = "legal_hold" => records[r].hold = e.flag
                               /\ e.kind # "retention_dry_run"
                      /\ (records[r].evidence > 0 /\ journal[records[r].evidence].kind = "archive") =>
                           \E k \in DOMAIN archives : /\ archives[k].evidence = records[r].evidence
                                                      /\ r \in DOMAIN archives[k].copies
    BY Zenon DEF ChangesAreTraceable, TrailTellsTheChange, ArchivedIsFiled, Stored, Fresh
  <2>1. RowOK(r, records[r], journal, archives)
    BY DEF LakeInv, RowsOK
  <2>2. records[r].evidence > 0 => records[r] # Fresh
    BY DEF Fresh, Missing
  <2> QED BY <2>1, <2>2 DEF RowOK, Filed
<1> QED BY <1>1, LakeInductive, PTL

(* A record held, or referred to before it expired, while no call was under *)
(* way keeps its hold until that is lifted or an archive restored, and is   *)
(* never expired: no copy read before can undo it (lake/retention.py).      *)
THEOREM ProtectedIsKeptTheorem == LakeSpec => ProtectedIsKept
<1> DEFINE Protected ==
      /\ \A r \in kept.held \cap kept'.held : records'[r].hold
      /\ \A r \in (kept.held \cap kept'.held) \cup kept.cited :
           records[r].state # "expired" => records'[r].state # "expired"
<1>1. ASSUME LakeInv, [LakeNext]_lakeVars PROVE Protected
  <2>1. LakeInv' /\ kept.cited \subseteq kept'.cited /\ Spares(records, records', kept.held)
    BY <1>1, LakeStep
  <2>2. \A r \in kept'.held : records'[r].hold
    BY <2>1 DEF LakeInv, HeldOK
  <2>3. \A r \in kept'.cited : records'[r].state # "expired"
    BY <2>1 DEF LakeInv, CitedOK
  <2> QED BY <2>1, <2>2, <2>3 DEF Spares
<1>2. LakeSpec => [][Protected]_lakeVars
  <2>1. LakeInv /\ [LakeNext]_lakeVars => [Protected]_lakeVars
    BY <1>1
  <2> QED BY <2>1, LakeInductive, PTL DEF LakeSpec
<1> QED BY <1>2 DEF ProtectedIsKept

-----------------------------------------------------------------------------
(* The inventory                                                           *)

\* Rows and calls are records of these fields.
IsAssetRow(row) ==
  /\ DOMAIN row = {"stored", "source", "fields", "state", "first", "last", "conflicts"}
  /\ row.stored \in BOOLEAN

IsTask(t) ==
  DOMAIN t = {"pc", "op", "rows", "left", "cursor", "owed", "input", "snapshots", "alone"}

\* A sweep t that is reading pages has every row it owes up to its cursor, and
\* room for more.
ReadSoFar(t) ==
  /\ IsFiniteSet(DOMAIN t.rows) /\ Cardinality(DOMAIN t.rows) < PageBudget
  /\ t.cursor \in Nat
  /\ \A a \in t.owed : a <= t.cursor => a \in DOMAIN t.rows

\* What holds of a call t while the assets known are stored and those of gone retired
TaskOK(t, known, gone) ==
  /\ IsTask(t)
  /\ \A a \in DOMAIN t.rows :
       /\ IsAssetRow(t.rows[a])
       /\ t.op # "ingest" => t.rows[a].stored
       /\ t.rows[a].state = "decommissioned" => a \in gone
  /\ t.pc \in {"idle", "read", "write"}
  /\ t.pc = "write" => /\ t.op \in {"ingest", "reconcile", "mark", "classify", "decommission", "sweep"}
                       /\ t.left \subseteq DOMAIN t.rows
  /\ t.pc = "read" => \/ t.op = "sweep"
                      \/ t.op = "reconcile" /\ t.left \subseteq DOMAIN t.rows
  /\ t.op = "sweep" => t.owed \subseteq known
  /\ t.op = "sweep" /\ t.pc = "read"  => ReadSoFar(t)
  /\ t.op = "sweep" /\ t.pc = "write" => t.owed \subseteq DOMAIN t.rows

InventoryRowsOK ==
  /\ DOMAIN assets = Asset
  /\ \A a \in Asset : /\ IsAssetRow(assets[a])
                      /\ assets[a].state = "decommissioned" => a \in retired
  /\ IsFiniteSet(KnownAssets)

TasksOK == DOMAIN task = Clerk /\ \A c \in Clerk : TaskOK(task[c], KnownAssets, retired)

InventoryInv == InventoryRowsOK /\ TasksOK

-----------------------------------------------------------------------------
\* Sets above and below an element shrink strictly with it: so a finite set of
\* numbers that is not empty has a largest element and a smallest one.
LEMMA LargestAndSmallest ==
  ASSUME NEW S \in SUBSET Nat, IsFiniteSet(S), S # {}
  PROVE  /\ \E m \in S : \A n \in S : n <= m
         /\ \E m \in S : \A n \in S : m <= n
<1> DEFINE Above(x) == {n \in S : n > x}
           Below(x) == {n \in S : n < x}
           As       == {Above(x) : x \in S}
           Bs       == {Below(x) : x \in S}
<1>1. IsWellFoundedOn(StrictSubsetOrdering(S), FiniteSubsetsOf(S)) /\ FiniteSubsetsOf(S) = SUBSET S
  BY FS_StrictSubsetOrderingWellFounded, FS_FiniteSubsetsOfFinite
<1>2. IsWellFoundedOn(StrictSubsetOrdering(S), SUBSET S)
  BY <1>1, Zenon
<1>3. As \subseteq SUBSET S /\ Bs \subseteq SUBSET S /\ As # {} /\ Bs # {}
  OBVIOUS
<1>4. PICK A \in As : \A T \in As : <<T, A>> \notin StrictSubsetOrdering(S)
  <2> HIDE DEF As
  <2> QED BY ONLY <1>2, <1>3, WFMin, Zenon
<1>5. PICK B \in Bs : \A T \in Bs : <<T, B>> \notin StrictSubsetOrdering(S)
  <2> HIDE DEF Bs
  <2> QED BY ONLY <1>2, <1>3, WFMin, Zenon
<1>6. \E m \in S : \A n \in S : n <= m
  <2>1. PICK m \in S : A = Above(m)
    BY <1>4
  <2>2. ASSUME NEW n \in S, ~ (n <= m) PROVE FALSE
    <3>1. n > m /\ n \in Nat /\ m \in Nat
      BY <2>2
    <3>2. Above(n) \subseteq Above(m) /\ Above(n) # Above(m)
      <4>1. n \in Above(m) /\ n \notin Above(n)
        BY <3>1
      <4>2. ASSUME NEW l \in S, l > n PROVE l > m
        BY <3>1, <4>2
      <4> QED BY <4>1, <4>2
    <3>3. Above(n) \in As /\ Above(n) \in SUBSET S /\ Above(m) \in SUBSET S
      OBVIOUS
    <3> HIDE DEF Above, As
    <3>4. <<Above(n), Above(m)>> \in StrictSubsetOrdering(S)
      BY <3>2, <3>3 DEF StrictSubsetOrdering
    <3> QED BY <1>4, <2>1, <3>3, <3>4
  <2> QED BY <2>2
<1>7. \E m \in S : \A n \in S : m <= n
  <2>1. PICK m \in S : B = Below(m)
    BY <1>5
  <2>2. ASSUME NEW n \in S, ~ (m <= n) PROVE FALSE
    <3>1. n < m /\ n \in Nat /\ m \in Nat
      BY <2>2
    <3>2. Below(n) \subseteq Below(m) /\ Below(n) # Below(m)
      <4>1. n \in Below(m) /\ n \notin Below(n)
        BY <3>1
      <4>2. ASSUME NEW l \in S, l < n PROVE l < m
        BY <3>1, <4>2
      <4> QED BY <4>1, <4>2
    <3>3. Below(n) \in Bs /\ Below(n) \in SUBSET S /\ Below(m) \in SUBSET S
      OBVIOUS
    <3> HIDE DEF Below, Bs
    <3>4. <<Below(n), Below(m)>> \in StrictSubsetOrdering(S)
      BY <3>2, <3>3 DEF StrictSubsetOrdering
    <3> QED BY <1>5, <2>1, <3>3, <3>4
  <2> QED BY <2>2
<1> QED BY <1>6, <1>7

\* The first elements of a finite set of numbers, at most size of them: they are
\* its elements up to the last of them, and there is one if there can be.
LEMMA FirstOf ==
  ASSUME NEW S \in SUBSET Nat, IsFiniteSet(S), NEW size \in Nat \ {0}
  PROVE  LET page == {a \in S : Cardinality({b \in S : b < a}) < size} IN
         /\ page \subseteq S /\ IsFiniteSet(page) /\ Cardinality(page) <= size
         /\ \A b \in page : \A a \in S : a <= b => a \in page
         /\ S # {} => \E m \in page : \A b \in page : b <= m
<1> DEFINE Before(a) == {b \in S : b < a}
           page      == {a \in S : Cardinality(Before(a)) < size}
<1>1. \A a \in S : IsFiniteSet(Before(a)) /\ Cardinality(Before(a)) \in Nat
  <2> SUFFICES ASSUME NEW a \in S PROVE IsFiniteSet(Before(a)) /\ Cardinality(Before(a)) \in Nat
    OBVIOUS
  <2>1. Before(a) \in SUBSET S
    OBVIOUS
  <2> QED BY <2>1, FS_Subset, FS_CardinalityType
<1>2. page \in SUBSET S
  OBVIOUS
<1>3. IsFiniteSet(page) /\ Cardinality(page) \in Nat
  BY <1>2, FS_Subset, FS_CardinalityType
<1>4. ASSUME NEW b \in page, NEW a \in S, a <= b PROVE a \in page
  <2>1. Before(a) \in SUBSET Before(b)
    <3>1. a \in Nat /\ b \in Nat
      BY <1>2
    <3>2. ASSUME NEW c \in S, c < a PROVE c < b
      BY <1>4, <3>1, <3>2
    <3> HIDE DEF page
    <3> QED BY <3>2
  <2>2. IsFiniteSet(Before(b)) /\ Cardinality(Before(b)) \in Nat /\ Cardinality(Before(a)) \in Nat
    BY <1>1, <1>2
  <2>3. Cardinality(Before(a)) <= Cardinality(Before(b))
    BY <2>1, <2>2, FS_Subset
  <2>4. Cardinality(Before(b)) < size
    OBVIOUS
  <2> HIDE DEF Before
  <2>5. Cardinality(Before(a)) < size
    BY <2>2, <2>3, <2>4
  <2> QED BY <2>5
<1>5. ASSUME page # {} PROVE \E m \in page : \A b \in page : b <= m
  <2>1. page \in SUBSET Nat
    BY <1>2
  <2> HIDE DEF page
  <2> QED BY <1>3, <1>5, <2>1, LargestAndSmallest
<1>6. ASSUME S # {} PROVE page # {}
  <2>1. PICK m \in S : \A n \in S : m <= n
    BY <1>6, LargestAndSmallest
  <2>2. Before(m) = {}
    <3>1. ASSUME NEW n \in S, n < m PROVE FALSE
      BY <2>1, <3>1
    <3> QED BY <3>1
  <2>3. Cardinality(Before(m)) = 0
    BY <2>2, FS_EmptySet
  <2>4. m \in page
    BY <2>3
  <2> QED BY <2>4
<1>7. Cardinality(page) <= size
  <2>1. CASE page = {}
    <3>1. Cardinality(page) = 0
      <4> HIDE DEF page
      <4> QED BY <2>1, FS_EmptySet
    <3> QED BY <3>1
  <2>2. CASE page # {}
    <3>1. PICK m \in page : \A b \in page : b <= m
      BY <1>5, <2>2
    <3>2. page \ {m} \in SUBSET Before(m)
      <4>1. ASSUME NEW b \in page, b # m PROVE b \in S /\ b < m
        <5>1. b <= m /\ b \in Nat /\ m \in Nat /\ b \in S
          BY <1>2, <3>1
        <5> HIDE DEF page
        <5> QED BY <4>1, <5>1
      <4> HIDE DEF page
      <4> QED BY <4>1
    <3>3. Cardinality(page \ {m}) = Cardinality(page) - 1
      BY <1>3, FS_RemoveElement
    <3>4. IsFiniteSet(Before(m)) /\ Cardinality(Before(m)) \in Nat /\ Cardinality(Before(m)) < size
      BY <1>1, <1>2
    <3>5. Cardinality(page \ {m}) <= Cardinality(Before(m))
      BY <3>2, <3>4, FS_Subset
    <3> HIDE DEF page, Before
    <3> QED BY <1>3, <3>3, <3>4, <3>5
  <2> QED BY <2>1, <2>2
<1> QED BY <1>2, <1>3, <1>4, <1>5, <1>6, <1>7

LEMMA NoTaskOK ==
  /\ IsTask(NoTask) /\ NoTask.pc = "idle"
  /\ \A known, gone : TaskOK(NoTask, known, gone)
<1>1. IsTask(NoTask) /\ NoTask.pc = "idle" /\ NoTask.op = "none" /\ DOMAIN NoTask.rows = {}
  BY DEF NoTask, IsTask
<1> QED BY <1>1 DEF TaskOK

\* What a call knows stays true when assets are added and others retired.
LEMMA TaskStays ==
  ASSUME NEW t, NEW known, NEW gone, NEW more, NEW others,
         known \subseteq more, gone \subseteq others, TaskOK(t, known, gone)
  PROVE  TaskOK(t, more, others)
BY DEF TaskOK

\* Nor does it matter to a call whether another one overlaps it.
LEMMA Overlapped ==
  ASSUME NEW t, IsTask(t), NEW b
  PROVE  LET u == [t EXCEPT !.alone = b] IN
         /\ u.pc = t.pc
         /\ \A known, gone : TaskOK(t, known, gone) => TaskOK(u, known, gone)
<1> DEFINE u == [t EXCEPT !.alone = b]
<1>1. /\ IsTask(u) /\ u.pc = t.pc /\ u.op = t.op /\ u.rows = t.rows /\ u.left = t.left
      /\ u.cursor = t.cursor /\ u.owed = t.owed
  BY DEF IsTask
<1> HIDE DEF u
<1>2. \A known, gone : TaskOK(t, known, gone) => TaskOK(u, known, gone)
  BY <1>1 DEF TaskOK, ReadSoFar
<1> QED BY <1>1, <1>2 DEF u

\* A step of one call that stores nothing
LEMMA LocalKeepsInventory ==
  ASSUME InventoryInv, NEW c \in Clerk, NEW t, task' = [task EXCEPT ![c] = t],
         UNCHANGED <<assets, retired>>, TaskOK(t, KnownAssets, retired)
  PROVE  InventoryInv'
<1>1. KnownAssets' = KnownAssets /\ InventoryRowsOK'
  BY DEF InventoryInv, InventoryRowsOK, KnownAssets
<1>2. DOMAIN task' = Clerk /\ \A d \in Clerk : task'[d] = IF d = c THEN t ELSE task[d]
  BY DEF InventoryInv, TasksOK
<1>3. TasksOK'
  BY <1>1, <1>2 DEF InventoryInv, TasksOK
<1> QED BY <1>1, <1>3 DEF InventoryInv

LEMMA BeginsKeepsInventory ==
  ASSUME InventoryInv, NEW c \in Clerk, NEW new, Begins(c, new),
         UNCHANGED <<assets, retired>>, TaskOK(new, KnownAssets, retired)
  PROVE  InventoryInv'
<1>1. KnownAssets' = KnownAssets /\ InventoryRowsOK'
  BY DEF InventoryInv, InventoryRowsOK, KnownAssets
<1> DEFINE quiet == \A d \in Clerk : task[d].pc = "idle"
<1>2. /\ DOMAIN task' = Clerk
      /\ \A d \in Clerk : task'[d] = IF d = c THEN [new EXCEPT !.alone = quiet]
                                     ELSE [task[d] EXCEPT !.alone = FALSE]
  BY DEF Begins
<1> HIDE DEF quiet
<1>3. ASSUME NEW d \in Clerk PROVE TaskOK(task'[d], KnownAssets, retired)
  <2>1. CASE d = c
    <3>1. IsTask(new)
      BY DEF TaskOK
    <3>2. TaskOK([new EXCEPT !.alone = quiet], KnownAssets, retired)
      BY <3>1, Overlapped
    <3> QED BY <1>2, <2>1, <3>2
  <2>2. CASE d # c
    <3>1. TaskOK(task[d], KnownAssets, retired) /\ IsTask(task[d])
      BY DEF InventoryInv, TasksOK, TaskOK
    <3>2. TaskOK([task[d] EXCEPT !.alone = FALSE], KnownAssets, retired)
      BY <3>1, Overlapped
    <3> QED BY <1>2, <2>2, <3>2
  <2> QED BY <2>1, <2>2
<1>4. TasksOK'
  BY <1>1, <1>2, <1>3 DEF TasksOK
<1> QED BY <1>1, <1>4 DEF InventoryInv

\* What each call but a sweep begins with
LEMMA GetsKeepsInventory ==
  ASSUME InventoryInv, NEW c \in Clerk, NEW op, NEW a \in Asset, NEW input, NEW pc,
         Gets(c, op, a, input, pc),
         \/ op \in {"ingest", "mark", "decommission", "classify"} /\ pc = "write"
         \/ op = "reconcile" /\ pc = "read"
  PROVE  InventoryInv'
<1> DEFINE rows == [b \in {a} |-> assets[a]]
           new  == [NoTask EXCEPT !.pc = pc, !.op = op, !.rows = rows, !.left = {a}, !.input = input]
<1>1. Begins(c, new) /\ UNCHANGED <<assets, retired>>
  BY DEF Gets
<1>2. a \in KnownAssets \/ op = "ingest"
  BY DEF Gets
<1>3. DOMAIN rows = {a} /\ rows[a] = assets[a]
  OBVIOUS
<1> HIDE DEF rows
<1>4. /\ IsTask(new) /\ new.pc = pc /\ new.op = op /\ new.rows = rows /\ new.left = {a}
  BY DEF NoTask, IsTask
<1> HIDE DEF new
<1>5. /\ IsAssetRow(assets[a]) /\ (op # "ingest" => assets[a].stored)
      /\ assets[a].state = "decommissioned" => a \in retired
  BY <1>2 DEF InventoryInv, InventoryRowsOK, KnownAssets
<1>6. TaskOK(new, KnownAssets, retired)
  BY <1>3, <1>4, <1>5 DEF TaskOK
<1> QED BY <1>1, <1>6, BeginsKeepsInventory

LEMMA SweepBeginsOK ==
  ASSUME InventoryInv, NEW c \in Clerk, NEW s, NEW at, SweepBegins(c, s, at)
  PROVE  InventoryInv'
<1> DEFINE new == [NoTask EXCEPT !.pc = "read", !.op = "sweep", !.owed = KnownAssets,
                                 !.input = [source |-> s, at |-> at]]
<1>1. Begins(c, new) /\ UNCHANGED <<assets, retired>>
  BY DEF SweepBegins
<1>2. /\ IsTask(new) /\ new.pc = "read" /\ new.op = "sweep" /\ new.owed = KnownAssets
      /\ DOMAIN new.rows = {} /\ new.cursor = 0
  <2> DEFINE none  == [a \in {} |-> Unknown]
             input == [source |-> s, at |-> at]
  <2>1. NoTask = [pc |-> "idle", op |-> "none", rows |-> none, left |-> {}, cursor |-> 0, owed |-> {},
                  input |-> Nothing, snapshots |-> <<>>, alone |-> FALSE]
    BY DEF NoTask
  <2>2. new = [NoTask EXCEPT !.pc = "read", !.op = "sweep", !.owed = KnownAssets, !.input = input]
    OBVIOUS
  <2>3. DOMAIN none = {}
    OBVIOUS
  <2> HIDE DEF new, none, input
  <2> QED BY <2>1, <2>2, <2>3 DEF IsTask
<1> HIDE DEF new
<1>3. \A a \in KnownAssets : ~ (a <= 0)
  BY InventoryAssumption DEF KnownAssets
<1>4. ReadSoFar(new)
  BY <1>2, <1>3, FS_EmptySet, InventoryAssumption DEF ReadSoFar
<1>5. TaskOK(new, KnownAssets, retired)
  BY <1>2, <1>4 DEF TaskOK
<1> QED BY <1>1, <1>5, BeginsKeepsInventory

LEMMA ReconcileReadsHistoryOK ==
  ASSUME InventoryInv, NEW c \in Clerk, NEW a, ReconcileReadsHistory(c, a)
  PROVE  InventoryInv'
<1> DEFINE t == [task[c] EXCEPT !.pc = "write", !.snapshots = history[a]]
<1>1. /\ DOMAIN task = Clerk /\ TaskOK(task[c], KnownAssets, retired)
      /\ task[c].op = "reconcile" /\ task[c].pc = "read"
  BY DEF InventoryInv, TasksOK, ReconcileReadsHistory, Doing
<1>2. task' = [task EXCEPT ![c] = t] /\ UNCHANGED <<assets, retired>>
  BY <1>1 DEF ReconcileReadsHistory
<1>3. IsTask(task[c])
  BY <1>1 DEF TaskOK
<1>4. /\ IsTask(t) /\ t.pc = "write" /\ t.op = "reconcile" /\ t.rows = task[c].rows
      /\ t.left = task[c].left
  BY <1>1, <1>3 DEF IsTask
<1> HIDE DEF t
<1>5. TaskOK(t, KnownAssets, retired)
  BY <1>1, <1>4 DEF TaskOK
<1> QED BY <1>2, <1>5, LocalKeepsInventory

LEMMA InventoryInterruptOK ==
  ASSUME InventoryInv, NEW c \in Clerk, InventoryInterrupt(c)
  PROVE  InventoryInv'
<1>1. TaskOK(NoTask, KnownAssets, retired)
  BY NoTaskOK
<1> QED BY <1>1, LocalKeepsInventory DEF InventoryInterrupt

\* A sweep reads every asset after its cursor in their order, so that the rows
\* it owes are behind it, also while others are stored.
LEMMA SweepReadsPageOK ==
  ASSUME InventoryInv, NEW c \in Clerk, SweepReadsPage(c)
  PROVE  InventoryInv'
<1> DEFINE t    == task[c]
           rest == After(t.cursor)
           room == PageBudget - Cardinality(DOMAIN t.rows)
           size == IF PageSize < room THEN PageSize ELSE room
           page == Page(c)
           rows == [a \in DOMAIN t.rows \cup page |-> IF a \in page THEN assets[a] ELSE t.rows[a]]
           more == rest \ page # {}
           last == CHOOSE a \in page : \A b \in page : b <= a
           next == [t EXCEPT !.rows = rows, !.cursor = last]
<1>1. /\ t.op = "sweep" /\ t.pc = "read" /\ DOMAIN task = Clerk
      /\ TaskOK(t, KnownAssets, retired) /\ UNCHANGED <<assets, retired>>
      /\ task' = [task EXCEPT ![c] = IF more /\ Cardinality(DOMAIN rows) = PageBudget THEN NoTask
                                     ELSE IF more THEN next ELSE SweepDecides(c, rows)]
  BY DEF SweepReadsPage, Doing, InventoryInv, TasksOK
<1>2. /\ IsFiniteSet(DOMAIN t.rows) /\ Cardinality(DOMAIN t.rows) \in Nat
      /\ Cardinality(DOMAIN t.rows) < PageBudget /\ t.cursor \in Nat
      /\ \A a \in t.owed : a <= t.cursor => a \in DOMAIN t.rows
      /\ t.owed \subseteq KnownAssets
  BY <1>1, FS_CardinalityType DEF TaskOK, ReadSoFar
<1>3. KnownAssets \in SUBSET Nat /\ IsFiniteSet(KnownAssets)
  BY InventoryAssumption DEF InventoryInv, InventoryRowsOK, KnownAssets
<1>4. rest \in SUBSET Nat /\ rest \in SUBSET KnownAssets /\ IsFiniteSet(rest)
  <2>1. rest \in SUBSET KnownAssets
    BY DEF After
  <2> QED BY <1>3, <2>1, FS_Subset
<1>5. room \in Nat \ {0} /\ size \in Nat \ {0} /\ size <= room
  BY <1>2, InventoryAssumption
<1>6. page = {a \in rest : Cardinality({b \in rest : b < a}) < size}
  BY DEF Page
<1> HIDE DEF rest, size, page
<1>7. /\ page \subseteq rest /\ IsFiniteSet(page) /\ Cardinality(page) <= size
      /\ \A b \in page : \A a \in rest : a <= b => a \in page
      /\ rest # {} => \E m \in page : \A b \in page : b <= m
  BY <1>4, <1>5, <1>6, FirstOf
<1>8. /\ DOMAIN rows = DOMAIN t.rows \cup page
      /\ \A a \in DOMAIN rows : /\ IsAssetRow(rows[a]) /\ rows[a].stored
                                /\ rows[a].state = "decommissioned" => a \in retired
  <2>1. ASSUME NEW a \in page
        PROVE  /\ rows[a] = assets[a] /\ IsAssetRow(assets[a]) /\ assets[a].stored
               /\ assets[a].state = "decommissioned" => a \in retired
    BY <1>4, <1>7 DEF InventoryInv, InventoryRowsOK, KnownAssets
  <2>2. ASSUME NEW a \in DOMAIN t.rows, a \notin page
        PROVE  /\ rows[a] = t.rows[a] /\ IsAssetRow(t.rows[a]) /\ t.rows[a].stored
               /\ t.rows[a].state = "decommissioned" => a \in retired
    BY <1>1, <2>2 DEF TaskOK
  <2> QED BY <2>1, <2>2
<1>9. IsFiniteSet(DOMAIN rows) /\ Cardinality(DOMAIN rows) \in Nat /\ Cardinality(DOMAIN rows) <= PageBudget
  <2> HIDE DEF rows
  <2>1. /\ IsFiniteSet(DOMAIN rows)
        /\ Cardinality(DOMAIN rows) =
             Cardinality(DOMAIN t.rows) + Cardinality(page) - Cardinality(DOMAIN t.rows \cap page)
    BY <1>2, <1>7, <1>8, FS_Union
  <2>2. Cardinality(page) \in Nat /\ Cardinality(DOMAIN t.rows \cap page) \in Nat
    BY <1>2, <1>7, FS_Intersection, FS_CardinalityType
  <2> HIDE DEF t
  <2> QED BY <1>2, <1>5, <1>7, <2>1, <2>2, FS_CardinalityType, InventoryAssumption
<1>10. ASSUME NEW a \in t.owed PROVE a \in DOMAIN t.rows \/ (a \in rest /\ a \in Nat)
  <2>1. a \in KnownAssets /\ a \in Nat /\ t.cursor \in Nat
    BY <1>2, <1>3
  <2>2. a <= t.cursor \/ a > t.cursor
    BY <2>1
  <2>3. a > t.cursor => a \in rest
    BY <2>1 DEF rest, After
  <2> QED BY <1>2, <2>1, <2>2, <2>3
<1> HIDE DEF rows
<1>11. CASE more /\ Cardinality(DOMAIN rows) = PageBudget
  <2>1. task' = [task EXCEPT ![c] = NoTask]
    BY <1>1, <1>11
  <2> QED BY <1>1, <2>1, NoTaskOK, LocalKeepsInventory
<1>12. CASE more /\ Cardinality(DOMAIN rows) # PageBudget
  <2>1. last \in page /\ \A b \in page : b <= last
    BY <1>7, <1>12
  <2> HIDE DEF last
  <2>2. last \in Nat /\ last \in rest
    BY <1>4, <1>7, <2>1
  <2>3. /\ IsTask(next) /\ next.pc = "read" /\ next.op = "sweep" /\ next.rows = rows
        /\ next.cursor = last /\ next.owed = t.owed
    BY <1>1 DEF TaskOK, IsTask
  <2> HIDE DEF next
  <2>4. ASSUME NEW a \in t.owed, a <= last PROVE a \in DOMAIN rows
    BY <1>7, <1>8, <1>10, <2>1, <2>4
  <2>5. ReadSoFar(next)
    BY <1>9, <1>12, <2>2, <2>3, <2>4, InventoryAssumption DEF ReadSoFar
  <2>6. TaskOK(next, KnownAssets, retired)
    BY <1>2, <1>8, <2>3, <2>5 DEF TaskOK
  <2>7. task' = [task EXCEPT ![c] = next]
    BY <1>1, <1>12
  <2> QED BY <1>1, <2>6, <2>7, LocalKeepsInventory
<1>13. CASE ~ more
  <2> DEFINE found == {a \in DOMAIN rows : Silent(rows[a], t.input)}
             ended == [t EXCEPT !.pc = "write", !.rows = rows, !.left = found]
  <2>1. /\ IsTask(ended) /\ ended.pc = "write" /\ ended.op = "sweep" /\ ended.rows = rows
        /\ ended.left = found /\ ended.owed = t.owed
    BY <1>1 DEF TaskOK, IsTask
  <2>2. SweepDecides(c, rows) \in {NoTask, ended}
    BY DEF SweepDecides
  <2>3. found \subseteq DOMAIN rows
    OBVIOUS
  <2> HIDE DEF found, ended
  <2>4. t.owed \subseteq DOMAIN rows
    BY <1>8, <1>10, <1>13
  <2>5. TaskOK(ended, KnownAssets, retired)
    BY <1>2, <1>8, <2>1, <2>3, <2>4 DEF TaskOK
  <2>6. task' = [task EXCEPT ![c] = SweepDecides(c, rows)]
    BY <1>1, <1>13
  <2>7. TaskOK(SweepDecides(c, rows), KnownAssets, retired)
    BY <2>2, <2>5, NoTaskOK, Zenon
  <2> QED BY <1>1, <2>6, <2>7, LocalKeepsInventory
<1> QED BY <1>11, <1>12, <1>13

\* What a call makes of a row it has read
LEMMA ChangedRow ==
  ASSUME InventoryInv, NEW c \in Clerk, task[c].pc = "write", NEW a \in task[c].left
  PROVE  LET row == Changed(c, task[c].rows[a]) IN
         /\ IsAssetRow(row) /\ row.stored
         /\ row.state = "decommissioned" =>
              \/ a \in retired
              \/ task[c].op = "decommission"
              \/ task[c].op = "ingest" /\ task[c].input.state = "decommissioned"
<1> DEFINE read == task[c].rows[a]
           row  == Changed(c, read)
           op   == task[c].op
<1>1. /\ op \in {"ingest", "reconcile", "mark", "classify", "decommission", "sweep"}
      /\ IsAssetRow(read) /\ (op # "ingest" => read.stored)
      /\ read.state = "decommissioned" => a \in retired
  BY DEF InventoryInv, TasksOK, TaskOK
<1> HIDE DEF read
<1>2. CASE op = "ingest"
  <2>1. row = Delivered(read, task[c].input)
    BY <1>2 DEF Changed
  <2>2. IsAssetRow(row) /\ row.stored /\ row.state = task[c].input.state
    <3> HIDE DEF row
    <3> QED BY <2>1 DEF Delivered, Unknown, IsAssetRow
  <2> QED BY <1>2, <2>2 DEF read
<1>3. CASE op = "reconcile"
  <2> DEFINE fields    == Resolved(read, task[c].snapshots)
             conflicts == Conflicts(task[c].snapshots)
  <2>1. row = [read EXCEPT !.fields = fields, !.conflicts = conflicts]
    BY <1>3 DEF Changed
  <2> HIDE DEF row, fields, conflicts
  <2>2. IsAssetRow(row) /\ row.stored /\ row.state = read.state
    BY <1>1, <1>3, <2>1 DEF IsAssetRow
  <2> QED BY <1>1, <2>2 DEF row, read
<1>4. CASE op = "classify"
  <2>1. row = [read EXCEPT !.fields.classification = task[c].input]
    BY <1>4 DEF Changed
  <2>2. IsAssetRow(row) /\ row.stored /\ row.state = read.state
    <3> HIDE DEF row
    <3> QED BY <1>1, <1>4, <2>1 DEF IsAssetRow
  <2> QED BY <1>1, <2>2 DEF read
<1>5. CASE op \in {"mark", "sweep", "decommission"}
  <2> DEFINE state == IF op = "decommission" THEN "decommissioned" ELSE "unreported"
  <2>1. row = [read EXCEPT !.state = state]
    BY <1>5 DEF Changed
  <2>2. IsAssetRow(row) /\ row.stored /\ row.state = state
    <3> HIDE DEF row, state
    <3> QED BY <1>1, <1>5, <2>1 DEF IsAssetRow
  <2> QED BY <2>2 DEF read
<1> QED BY <1>1, <1>2, <1>3, <1>4, <1>5

LEMMA PutsOK ==
  ASSUME InventoryInv, NEW c \in Clerk, NEW a \in Asset, Puts(c, a)
  PROVE  InventoryInv'
<1> DEFINE row == Changed(c, task[c].rows[a])
           t   == IF task[c].left = {a} THEN NoTask ELSE [task[c] EXCEPT !.left = @ \ {a}]
<1>1. /\ task[c].pc = "write" /\ a \in task[c].left
      /\ assets' = [assets EXCEPT ![a] = row] /\ task' = [task EXCEPT ![c] = t]
  BY Zenon DEF Puts
<1>2. /\ retired \subseteq retired'
      /\ (\/ task[c].op = "decommission"
          \/ task[c].op = "ingest" /\ task[c].input.state = "decommissioned") => a \in retired'
  BY DEF Puts
<1>3. IsAssetRow(row) /\ row.stored /\ (row.state = "decommissioned" => a \in retired')
  BY <1>1, <1>2, ChangedRow
<1>4. TaskOK(task[c], KnownAssets, retired) /\ DOMAIN task = Clerk /\ DOMAIN assets = Asset
  BY DEF InventoryInv, InventoryRowsOK, TasksOK
<1>5. TaskOK(t, KnownAssets, retired)
  <2> DEFINE u == [task[c] EXCEPT !.left = @ \ {a}]
  <2>1. /\ IsTask(u) /\ u.pc = task[c].pc /\ u.op = task[c].op /\ u.rows = task[c].rows
        /\ u.left = task[c].left \ {a} /\ u.cursor = task[c].cursor /\ u.owed = task[c].owed
    BY <1>4 DEF TaskOK, IsTask
  <2> HIDE DEF u
  <2>2. TaskOK(u, KnownAssets, retired)
    BY <1>4, <2>1 DEF TaskOK, ReadSoFar
  <2>3. t \in {NoTask, u}
    BY DEF u
  <2> HIDE DEF t
  <2> QED BY <2>2, <2>3, NoTaskOK, Zenon
<1> HIDE DEF row, t
<1>6. /\ DOMAIN assets' = Asset /\ assets'[a] = row
      /\ \A b \in Asset : b # a => assets'[b] = assets[b]
  BY <1>1, <1>4
<1>7. KnownAssets' = KnownAssets \cup {a} /\ IsFiniteSet(KnownAssets')
  <2>1. KnownAssets' = KnownAssets \cup {a}
    BY <1>3, <1>6 DEF KnownAssets
  <2>2. IsFiniteSet(KnownAssets)
    BY DEF InventoryInv, InventoryRowsOK
  <2>3. IsFiniteSet(KnownAssets \cup {a})
    BY <2>2, FS_AddElement
  <2> QED BY <2>1, <2>3
<1>8. InventoryRowsOK'
  <2>1. ASSUME NEW b \in Asset
        PROVE  IsAssetRow(assets'[b]) /\ (assets'[b].state = "decommissioned" => b \in retired')
    BY <1>2, <1>3, <1>6 DEF InventoryInv, InventoryRowsOK
  <2> QED BY <1>6, <1>7, <2>1 DEF InventoryRowsOK
<1>9. /\ DOMAIN task' = Clerk /\ task'[c] = t
      /\ \A d \in Clerk : d # c => task'[d] = task[d]
  BY <1>1, <1>4
<1>10. TasksOK'
  <2>1. ASSUME NEW d \in Clerk PROVE TaskOK(task'[d], KnownAssets, retired)
    BY <1>5, <1>9 DEF InventoryInv, TasksOK
  <2>2. \A d \in Clerk : TaskOK(task'[d], KnownAssets', retired')
    BY <1>2, <1>7, <2>1, TaskStays
  <2> QED BY <1>9, <2>2 DEF TasksOK
<1> QED BY <1>8, <1>10 DEF InventoryInv

LEMMA InventoryInitOK == InventoryInit => InventoryInv
<1> SUFFICES ASSUME InventoryInit PROVE InventoryInv
  OBVIOUS
<1>1. /\ DOMAIN assets = Asset /\ \A a \in Asset : assets[a] = Unknown
      /\ DOMAIN task = Clerk /\ \A c \in Clerk : task[c] = NoTask
  BY DEF InventoryInit
<1>2. KnownAssets = {} /\ IsFiniteSet({})
  BY <1>1, FS_EmptySet DEF KnownAssets, Unknown
<1>3. InventoryRowsOK
  <2>1. IsAssetRow(Unknown) /\ Unknown.state = "active"
    BY DEF Unknown, IsAssetRow
  <2>2. IsFiniteSet(KnownAssets)
    BY <1>2
  <2> QED BY <1>1, <2>1, <2>2 DEF InventoryRowsOK
<1>4. TasksOK
  BY <1>1, NoTaskOK DEF TasksOK
<1> QED BY <1>3, <1>4 DEF InventoryInv

(* Every state of the inventory satisfies the inductive invariant.         *)
THEOREM InventoryInductive == InventorySpec => []InventoryInv
<1>1. InventoryInit => InventoryInv
  BY InventoryInitOK
<1>2. InventoryInv /\ [InventoryNext]_inventoryVars => InventoryInv'
  <2> SUFFICES ASSUME InventoryInv, [InventoryNext]_inventoryVars PROVE InventoryInv'
    OBVIOUS
  <2>1. CASE UNCHANGED inventoryVars
    BY <2>1 DEF inventoryVars, InventoryInv, InventoryRowsOK, TasksOK, KnownAssets
  <2>2. ASSUME NEW c \in Clerk, NEW rep \in Reports, Gets(c, "ingest", rep.asset, rep, "write")
        PROVE  InventoryInv'
    BY <2>2, GetsKeepsInventory, InventoryAssumption
  <2>3. ASSUME NEW c \in Clerk, NEW a \in Asset,
               \/ Gets(c, "reconcile", a, Nothing, "read")
               \/ Gets(c, "mark", a, Nothing, "write")
               \/ Gets(c, "decommission", a, Nothing, "write")
               \/ \E v \in Classes : Gets(c, "classify", a, v, "write")
        PROVE  InventoryInv'
    BY <2>3, GetsKeepsInventory
  <2>4. ASSUME NEW c \in Clerk, NEW a \in Asset, ReconcileReadsHistory(c, a) \/ Puts(c, a)
        PROVE  InventoryInv'
    BY <2>4, ReconcileReadsHistoryOK, PutsOK
  <2>5. ASSUME NEW c \in Clerk,
               \/ \E rep \in Reports : SweepBegins(c, rep.source, rep.at)
               \/ SweepReadsPage(c) \/ InventoryInterrupt(c)
        PROVE  InventoryInv'
    BY <2>5, SweepBeginsOK, SweepReadsPageOK, InventoryInterruptOK
  <2>6. CASE InventoryNext
    BY <2>2, <2>3, <2>4, <2>5, <2>6 DEF InventoryNext
  <2> QED BY <2>1, <2>6
<1> QED BY <1>1, <1>2, PTL DEF InventorySpec

(* Whatever rows sweeps, reports and other calls read before they write     *)
(* them back, nothing is decommissioned that nobody has said is, and a     *)
(* sweep that marks assets has read all that were stored when it began,     *)
(* over any number of pages (inventory/engine.py).                         *)
THEOREM AbsenceIsNotRetirementTheorem == InventorySpec => []AbsenceIsNotRetirement
<1>1. InventoryInv => AbsenceIsNotRetirement
  BY DEF InventoryInv, InventoryRowsOK, TasksOK, TaskOK, AbsenceIsNotRetirement, RetirementIsDecided,
         SweepIsWhole, KnownAssets, Doing
<1> QED BY <1>1, InventoryInductive, PTL

-----------------------------------------------------------------------------
(* What reconciliation answers: the last snapshot of each source in the    *)
(* history of an asset has what the source said last, as long as nobody    *)
(* else has written its fields; a call that nobody overlaps writes from    *)
(* what is stored.                                                         *)

\* The rows that call t has still to write, or may have
ToWrite(t) == Asset \cap (IF t.pc = "write" THEN t.left ELSE DOMAIN t.rows)

\* What call t knows of the rows as and their histories hs
IsCurrent(t, as, hs) ==
  /\ t.op = "ingest" => t.input \in Reports
  /\ t.op = "reconcile" => \E x \in Asset : t.left = {x}
  /\ t.alone =>
       /\ \A a \in ToWrite(t) : t.rows[a] = as[a]
       /\ t.op = "reconcile" /\ t.pc = "write" => \A a \in t.left : t.snapshots = hs[a]

CallsAreCurrent ==
  \A c \in Clerk : /\ IsCurrent(task[c], assets, history)
                   /\ task[c].alone => \A d \in Clerk : d # c => task[d].pc = "idle"

Newest(h, i) == \A j \in DOMAIN h : j > i => h[j].source # h[i].source

TellsAll(h, says) ==
  /\ \A i \in DOMAIN h : /\ h[i].source \in Source
                         /\ Newest(h, i) => h[i].fields = says[h[i].source]
  /\ \A s \in Source : says[s].asset_type # Nothing <=> \E i \in DOMAIN h : h[i].source = s

EndsWith(h, row) == IF row.stored THEN h # <<>> /\ row = h[Len(h)] ELSE h = <<>>

HistoriesOK ==
  /\ DOMAIN history = Asset /\ DOMAIN said = Asset
  /\ \A a \in Asset : /\ DOMAIN said[a] = Source
                      /\ \E S : history[a] \in Seq(S)
                      /\ EndsWith(history[a], assets[a])
                      /\ a \notin edited => TellsAll(history[a], said[a])

ToldInv == CallsAreCurrent /\ HistoriesOK

LEMMA NoTaskIsCurrent ==
  /\ ~ NoTask.alone /\ NoTask.pc = "idle"
  /\ \A as, hs : IsCurrent(NoTask, as, hs)
<1>1. NoTask.alone = FALSE /\ NoTask.pc = "idle" /\ NoTask.op = "none"
  BY DEF NoTask
<1> QED BY <1>1 DEF IsCurrent

\* A step of one call that stores nothing
LEMMA LocalKeepsTold ==
  ASSUME InventoryInv, ToldInv, NEW c \in Clerk, NEW t, task' = [task EXCEPT ![c] = t],
         UNCHANGED <<assets, history, said, edited>>, IsCurrent(t, assets, history),
         t.alone => task[c].alone, t.pc = "idle" \/ task[c].pc # "idle"
  PROVE  ToldInv'
<1>1. DOMAIN task' = Clerk /\ \A d \in Clerk : task'[d] = IF d = c THEN t ELSE task[d]
  BY DEF InventoryInv, TasksOK
<1>2. HistoriesOK'
  BY DEF ToldInv, HistoriesOK
<1>3. CallsAreCurrent'
  <2> SUFFICES ASSUME NEW d \in Clerk
               PROVE  /\ IsCurrent(task'[d], assets, history)
                      /\ task'[d].alone => \A b \in Clerk : b # d => task'[b].pc = "idle"
    BY DEF CallsAreCurrent
  <2>1. IsCurrent(task'[d], assets, history)
    BY <1>1 DEF ToldInv, CallsAreCurrent
  <2>2. ASSUME task'[d].alone, NEW b \in Clerk, b # d PROVE task'[b].pc = "idle"
    <3>1. task[d].alone
      BY <1>1, <2>2
    <3>2. task[b].pc = "idle"
      BY <2>2, <3>1 DEF ToldInv, CallsAreCurrent
    <3> QED BY <1>1, <3>2
  <2> QED BY <2>1, <2>2
<1> QED BY <1>2, <1>3 DEF ToldInv

\* A call that begins knows what is stored.
LEMMA BeginsKeepsTold ==
  ASSUME InventoryInv, ToldInv, NEW c \in Clerk, NEW new, IsTask(new), Begins(c, new),
         UNCHANGED <<assets, history, said, edited>>,
         new.op = "ingest" => new.input \in Reports,
         new.op = "reconcile" => (new.pc = "read" /\ \E x \in Asset : new.left = {x}),
         \A a \in ToWrite(new) : new.rows[a] = assets[a]
  PROVE  ToldInv'
<1> DEFINE quiet == \A d \in Clerk : task[d].pc = "idle"
           mine  == [new EXCEPT !.alone = quiet]
           other(d) == [task[d] EXCEPT !.alone = FALSE]
<1>1. /\ \A d \in Clerk : task'[d] = IF d = c THEN mine ELSE other(d)
  BY DEF Begins
<1>2. /\ mine.pc = new.pc /\ mine.op = new.op /\ mine.rows = new.rows /\ mine.left = new.left
      /\ mine.input = new.input /\ mine.alone = quiet
  BY DEF IsTask
<1>3. \A d \in Clerk : /\ other(d).pc = task[d].pc /\ other(d).op = task[d].op
                       /\ other(d).left = task[d].left
                       /\ other(d).input = task[d].input /\ other(d).alone = FALSE
  BY DEF InventoryInv, TasksOK, TaskOK, IsTask
<1> HIDE DEF mine, other, quiet
<1>4. HistoriesOK'
  BY DEF ToldInv, HistoriesOK
<1>5. CallsAreCurrent'
  <2> SUFFICES ASSUME NEW d \in Clerk
               PROVE  /\ IsCurrent(task'[d], assets, history)
                      /\ task'[d].alone => \A b \in Clerk : b # d => task'[b].pc = "idle"
    BY DEF CallsAreCurrent
  <2>1. CASE d = c
    <3>1. task'[d] = mine
      BY <1>1, <2>1
    <3>2. IsCurrent(mine, assets, history)
      BY <1>2 DEF IsCurrent, ToWrite
    <3>3. ASSUME quiet, NEW b \in Clerk, b # d PROVE task'[b].pc = "idle"
      BY <1>1, <1>3, <2>1, <3>3 DEF quiet
    <3> QED BY <1>2, <3>1, <3>2, <3>3
  <2>2. CASE d # c
    <3>1. task'[d] = other(d) /\ ~ other(d).alone
      BY <1>1, <1>3, <2>2
    <3>2. IsCurrent(other(d), assets, history)
      BY <1>3, <3>1 DEF ToldInv, CallsAreCurrent, IsCurrent
    <3> QED BY <3>1, <3>2
  <2> QED BY <2>1, <2>2
<1> QED BY <1>4, <1>5 DEF ToldInv

LEMMA GetsKeepsTold ==
  ASSUME InventoryInv, ToldInv, NEW c \in Clerk, NEW op, NEW a \in Asset, NEW input, NEW pc,
         Gets(c, op, a, input, pc),
         \/ op = "ingest" /\ pc = "write" /\ input \in Reports
         \/ op \in {"mark", "decommission", "classify"} /\ pc = "write"
         \/ op = "reconcile" /\ pc = "read"
  PROVE  ToldInv'
<1> DEFINE rows == [b \in {a} |-> assets[a]]
           new  == [NoTask EXCEPT !.pc = pc, !.op = op, !.rows = rows, !.left = {a}, !.input = input]
<1>1. Begins(c, new) /\ UNCHANGED <<assets, history, said, edited>>
  BY DEF Gets
<1>2. DOMAIN rows = {a} /\ rows[a] = assets[a]
  OBVIOUS
<1> HIDE DEF rows
<1>3. /\ IsTask(new) /\ new.pc = pc /\ new.op = op /\ new.rows = rows /\ new.left = {a}
      /\ new.input = input
  BY DEF NoTask, IsTask
<1> HIDE DEF new
<1>4. \A b \in ToWrite(new) : new.rows[b] = assets[b]
  BY <1>2, <1>3 DEF ToWrite
<1> QED BY <1>1, <1>3, <1>4, BeginsKeepsTold

LEMMA SweepBeginsKeepsTold ==
  ASSUME InventoryInv, ToldInv, NEW c \in Clerk, NEW s, NEW at, SweepBegins(c, s, at)
  PROVE  ToldInv'
<1> DEFINE none  == [a \in {} |-> Unknown]
           input == [source |-> s, at |-> at]
           new   == [NoTask EXCEPT !.pc = "read", !.op = "sweep", !.owed = KnownAssets, !.input = input]
<1>1. Begins(c, new) /\ UNCHANGED <<assets, history, said, edited>>
  BY DEF SweepBegins
<1>2. NoTask = [pc |-> "idle", op |-> "none", rows |-> none, left |-> {}, cursor |-> 0, owed |-> {},
                input |-> Nothing, snapshots |-> <<>>, alone |-> FALSE]
  BY DEF NoTask
<1>3. DOMAIN none = {}
  OBVIOUS
<1> HIDE DEF none, input
<1>4. IsTask(new) /\ new.pc = "read" /\ new.op = "sweep" /\ DOMAIN new.rows = {}
  BY <1>2, <1>3 DEF IsTask
<1> HIDE DEF new
<1>5. \A b \in ToWrite(new) : new.rows[b] = assets[b]
  BY <1>4 DEF ToWrite
<1> QED BY <1>1, <1>4, <1>5, BeginsKeepsTold

LEMMA ReadsHistoryKeepsTold ==
  ASSUME InventoryInv, ToldInv, NEW c \in Clerk, NEW a, ReconcileReadsHistory(c, a)
  PROVE  ToldInv'
<1> DEFINE k == task[c]
           t == [k EXCEPT !.pc = "write", !.snapshots = history[a]]
<1>1. /\ TaskOK(k, KnownAssets, retired) /\ k.op = "reconcile" /\ k.pc = "read" /\ a \in k.left
      /\ IsCurrent(k, assets, history)
  BY DEF InventoryInv, TasksOK, ReconcileReadsHistory, Doing, ToldInv, CallsAreCurrent
<1>2. task' = [task EXCEPT ![c] = t] /\ UNCHANGED <<assets, history, said, edited>>
  BY DEF ReconcileReadsHistory
<1>3. IsTask(k) /\ k.left \subseteq DOMAIN k.rows
  BY <1>1 DEF TaskOK
<1>4. /\ IsTask(t) /\ t.pc = "write" /\ t.op = "reconcile" /\ t.rows = k.rows
      /\ t.left = k.left /\ t.snapshots = history[a] /\ t.alone = k.alone
  <2> HIDE DEF k
  <2> QED BY <1>1, <1>3 DEF IsTask
<1> HIDE DEF t, k
<1>5. t.left = {a}
  BY <1>1, <1>4 DEF IsCurrent
<1>6. IsCurrent(t, assets, history)
  BY <1>1, <1>3, <1>4, <1>5 DEF IsCurrent, ToWrite
<1> QED BY <1>1, <1>2, <1>4, <1>6, LocalKeepsTold DEF k

LEMMA InterruptKeepsTold ==
  ASSUME InventoryInv, ToldInv, NEW c \in Clerk, InventoryInterrupt(c)
  PROVE  ToldInv'
BY NoTaskIsCurrent, LocalKeepsTold DEF InventoryInterrupt

LEMMA SweepReadsKeepsTold ==
  ASSUME InventoryInv, ToldInv, NEW c \in Clerk, SweepReadsPage(c)
  PROVE  ToldInv'
<1> DEFINE t    == task[c]
           page == Page(c)
           rows == [a \in DOMAIN t.rows \cup page |-> IF a \in page THEN assets[a] ELSE t.rows[a]]
           more == After(t.cursor) \ page # {}
           last == CHOOSE a \in page : \A b \in page : b <= a
           next == [t EXCEPT !.rows = rows, !.cursor = last]
           found == {a \in DOMAIN rows : Silent(rows[a], t.input)}
           ended == [t EXCEPT !.pc = "write", !.rows = rows, !.left = found]
           new   == IF more /\ Cardinality(DOMAIN rows) = PageBudget THEN NoTask
                    ELSE IF more THEN next ELSE SweepDecides(c, rows)
<1>1. /\ t.op = "sweep" /\ t.pc = "read" /\ IsTask(t) /\ IsCurrent(t, assets, history)
      /\ UNCHANGED <<assets, history, said, edited>> /\ task' = [task EXCEPT ![c] = new]
  BY DEF SweepReadsPage, Doing, InventoryInv, TasksOK, TaskOK, ToldInv, CallsAreCurrent
<1>2. new \in {NoTask, next, ended}
  BY DEF SweepDecides
<1>3. /\ DOMAIN rows = DOMAIN t.rows \cup page
      /\ t.alone => \A a \in Asset \cap DOMAIN rows : rows[a] = assets[a]
  BY <1>1 DEF IsCurrent, ToWrite
<1>4. found \subseteq DOMAIN rows
  OBVIOUS
<1> HIDE DEF t, rows, last, found, new
<1>5. next.op = "sweep" /\ next.pc = "read" /\ next.rows = rows /\ next.alone = t.alone
  BY <1>1 DEF IsTask
<1>6. ended.op = "sweep" /\ ended.pc = "write" /\ ended.rows = rows /\ ended.left = found /\ ended.alone = t.alone
  BY <1>1 DEF IsTask
<1> HIDE DEF next, ended
<1>7. IsCurrent(next, assets, history) /\ IsCurrent(ended, assets, history)
  BY <1>3, <1>4, <1>5, <1>6 DEF IsCurrent, ToWrite
<1>8. IsCurrent(new, assets, history) /\ (new.alone => t.alone)
  <2>1. CASE new = NoTask
    BY <2>1, NoTaskIsCurrent
  <2>2. CASE new = next
    BY <1>5, <1>7, <2>2
  <2>3. CASE new = ended
    BY <1>6, <1>7, <2>3
  <2> QED BY <1>2, <2>1, <2>2, <2>3
<1> QED BY <1>1, <1>8, LocalKeepsTold DEF t

\* The history with one more snapshot: a report of its source, or the last
\* snapshot in another state
LEMMA OneMoreSnapshot ==
  ASSUME NEW S, NEW h \in Seq(S), NEW row
  PROVE  LET g == Append(h, row)  n == Len(h) IN
         /\ g \in Seq(S \cup {row}) /\ n \in Nat /\ DOMAIN h = 1 .. n /\ DOMAIN g = 1 .. n + 1
         /\ Len(g) = n + 1 /\ g[n + 1] = row /\ g # <<>> /\ (h # <<>> => n \in 1 .. n /\ n # 0)
         /\ \A i \in 1 .. n : g[i] = h[i] /\ i \in 1 .. n + 1
         /\ \A i \in 1 .. n + 1 : i \in 1 .. n \/ i = n + 1
<1> DEFINE R == S \cup {row}
<1>1. h \in Seq(R) /\ row \in R
  BY SeqMonotonic
<1> HIDE DEF R
<1>2. Append(h, row) \in Seq(R) /\ Len(h) \in Nat
  BY <1>1
<1> QED BY <1>1, <1>2, AppendProperties, EmptySeq DEF R

LEMMA ReportIsTold ==
  ASSUME NEW S, NEW h \in Seq(S), NEW says, DOMAIN says = Source, TellsAll(h, says),
         NEW row, row.source \in Source, row.fields.asset_type # Nothing
  PROVE  TellsAll(Append(h, row), [says EXCEPT ![row.source] = row.fields])
<1> DEFINE g == Append(h, row)
           n == Len(h)
           next == [says EXCEPT ![row.source] = row.fields]
<1>1. /\ n \in Nat /\ DOMAIN h = 1 .. n /\ DOMAIN g = 1 .. n + 1 /\ g[n + 1] = row
      /\ \A i \in 1 .. n : g[i] = h[i] /\ i \in 1 .. n + 1
      /\ \A i \in 1 .. n + 1 : i \in 1 .. n \/ i = n + 1
  BY OneMoreSnapshot
<1>2. next[row.source] = row.fields /\ \A s \in Source : s # row.source => next[s] = says[s]
  OBVIOUS
<1> HIDE DEF g, n, next
<1>3. n + 1 \in 1 .. n + 1 /\ \A i \in 1 .. n : n + 1 > i
  BY <1>1
<1>4. ASSUME NEW i \in 1 .. n + 1
      PROVE  g[i].source \in Source /\ (Newest(g, i) => g[i].fields = next[g[i].source])
  <2>1. CASE i = n + 1
    BY <1>1, <1>2, <2>1
  <2>2. CASE i \in 1 .. n
    <3>1. g[i] = h[i] /\ h[i].source \in Source
      BY <1>1, <2>2 DEF TellsAll
    <3>2. ASSUME Newest(g, i) PROVE g[i].fields = next[g[i].source]
      <4>1. g[i].source # row.source
        BY <1>1, <1>3, <2>2, <3>2 DEF Newest
      <4>2. Newest(h, i)
        BY <1>1, <2>2, <3>2 DEF Newest
      <4> QED BY <1>1, <1>2, <2>2, <3>1, <4>1, <4>2 DEF TellsAll
    <3> QED BY <3>1, <3>2
  <2> QED BY <1>1, <2>1, <2>2
<1>5. ASSUME NEW s \in Source
      PROVE  next[s].asset_type # Nothing <=> \E i \in 1 .. n + 1 : g[i].source = s
  <2>1. CASE s = row.source
    BY <1>1, <1>2, <1>3, <2>1
  <2>2. CASE s # row.source
    BY <1>1, <1>2, <2>2 DEF TellsAll
  <2> QED BY <2>1, <2>2
<1> QED BY <1>1, <1>4, <1>5 DEF TellsAll, g, next

LEMMA StateIsNotTold ==
  ASSUME NEW S, NEW h \in Seq(S), h # <<>>, NEW says, TellsAll(h, says),
         NEW row, row.source = h[Len(h)].source, row.fields = h[Len(h)].fields
  PROVE  TellsAll(Append(h, row), says)
<1> DEFINE g == Append(h, row)
           n == Len(h)
<1>1. /\ n \in Nat /\ n # 0 /\ n \in 1 .. n /\ DOMAIN h = 1 .. n /\ DOMAIN g = 1 .. n + 1 /\ g[n + 1] = row
      /\ \A i \in 1 .. n : g[i] = h[i] /\ i \in 1 .. n + 1
      /\ \A i \in 1 .. n + 1 : i \in 1 .. n \/ i = n + 1
  BY OneMoreSnapshot
<1> HIDE DEF g
<1>2. n + 1 \in 1 .. n + 1 /\ \A i \in 1 .. n : n + 1 > i /\ ~ (i > n)
  BY <1>1
<1>3. Newest(h, n)
  BY <1>1, <1>2 DEF Newest
<1>4. row.source \in Source /\ row.fields = says[row.source]
  BY <1>1, <1>3 DEF TellsAll
<1> HIDE DEF n
<1>5. ASSUME NEW i \in 1 .. n + 1
      PROVE  g[i].source \in Source /\ (Newest(g, i) => g[i].fields = says[g[i].source])
  <2>1. CASE i = n + 1
    BY <1>1, <1>4, <2>1
  <2>2. CASE i \in 1 .. n
    <3>1. g[i] = h[i] /\ h[i].source \in Source
      BY <1>1, <2>2 DEF TellsAll
    <3>2. ASSUME Newest(g, i) PROVE g[i].fields = says[g[i].source]
      <4>1. Newest(h, i)
        BY <1>1, <2>2, <3>2 DEF Newest
      <4> QED BY <1>1, <2>2, <3>1, <4>1 DEF TellsAll
    <3> QED BY <3>1, <3>2
  <2> QED BY <1>1, <2>1, <2>2
<1>6. ASSUME NEW s \in Source
      PROVE  says[s].asset_type # Nothing <=> \E i \in 1 .. n + 1 : g[i].source = s
  <2>1. says[s].asset_type # Nothing <=> \E i \in 1 .. n : h[i].source = s
    BY <1>1 DEF TellsAll
  <2>2. row.source = h[n].source
    BY DEF n
  <2> QED BY <1>1, <2>1, <2>2
<1> QED BY <1>1, <1>5, <1>6 DEF TellsAll, g

\* The row that a call writes when only sources have written the fields
LEMMA WrittenRow ==
  ASSUME InventoryInv, ToldInv, NEW c \in Clerk, NEW a \in Asset,
         task[c].pc = "write", a \in task[c].left, task[c].alone,
         task[c].op \in {"ingest", "mark", "sweep", "decommission"}
  PROVE  LET row == Changed(c, task[c].rows[a]) IN
         IF task[c].op = "ingest"
         THEN /\ row.source = task[c].input.source /\ row.fields = task[c].input.fields
              /\ row.source \in Source /\ row.fields.asset_type # Nothing
         ELSE /\ assets[a].stored /\ row.source = assets[a].source /\ row.fields = assets[a].fields
<1> DEFINE t == task[c]
           row == Changed(c, t.rows[a])
<1>1. /\ TaskOK(t, KnownAssets, retired) /\ IsCurrent(t, assets, history)
  BY DEF InventoryInv, TasksOK, ToldInv, CallsAreCurrent
<1>2. t.rows[a] = assets[a] /\ IsAssetRow(assets[a]) /\ (t.op # "ingest" => assets[a].stored)
  BY <1>1 DEF TaskOK, IsCurrent, ToWrite, InventoryInv, InventoryRowsOK
<1>3. CASE t.op = "ingest"
  <2>1. row = Delivered(t.rows[a], t.input)
    BY <1>3 DEF Changed
  <2>2. t.input \in Reports /\ t.input.source \in Source /\ t.input.fields.asset_type # Nothing
    BY <1>1, <1>3, InventoryAssumption DEF IsCurrent
  <2> DEFINE rep == t.input
             in  == t.rows[a]
  <2> HIDE DEF row, rep, in
  <2>3. row.source = rep.source /\ row.fields = rep.fields
    BY <2>1 DEF Delivered, Unknown, rep, in
  <2> QED BY <1>3, <2>2, <2>3 DEF row, rep
<1>4. CASE t.op # "ingest"
  <2> DEFINE state == IF t.op = "decommission" THEN "decommissioned" ELSE "unreported"
  <2>1. row = [assets[a] EXCEPT !.state = state]
    BY <1>2, <1>4 DEF Changed
  <2>2. row.source = assets[a].source /\ row.fields = assets[a].fields
    <3> HIDE DEF row, state
    <3> QED BY <1>2, <2>1 DEF IsAssetRow
  <2> QED BY <1>2, <1>4, <2>2
<1> QED BY <1>3, <1>4

LEMMA PutsKeepsTold ==
  ASSUME InventoryInv, ToldInv, NEW c \in Clerk, NEW a \in Asset, Puts(c, a)
  PROVE  ToldInv'
<1> DEFINE k   == task[c]
           row == Changed(c, k.rows[a])
           u   == [k EXCEPT !.left = @ \ {a}]
           t   == IF k.left = {a} THEN NoTask ELSE u
<1>1. /\ k.pc = "write" /\ a \in k.left
      /\ assets' = [assets EXCEPT ![a] = row] /\ history' = [history EXCEPT ![a] = Append(history[a], row)]
      /\ task' = [task EXCEPT ![c] = t]
  BY Zenon DEF Puts
<1>2. /\ said' = IF k.op = "ingest"
                 THEN [said EXCEPT ![a][k.input.source] = k.input.fields] ELSE said
      /\ edited' = IF k.op \in {"reconcile", "classify"} \/ ~ k.alone THEN edited \cup {a} ELSE edited
  BY DEF Puts
<1>3. /\ TaskOK(k, KnownAssets, retired) /\ DOMAIN task = Clerk /\ DOMAIN assets = Asset
      /\ IsCurrent(k, assets, history) /\ DOMAIN history = Asset /\ DOMAIN said = Asset
  BY DEF InventoryInv, InventoryRowsOK, TasksOK, ToldInv, CallsAreCurrent, HistoriesOK
<1>4. IsAssetRow(row) /\ row.stored
  BY <1>1, ChangedRow
<1>5. /\ k.alone => \A d \in Clerk : d # c => task[d].pc = "idle"
      /\ \A d \in Clerk : d # c => ~ task[d].alone
  BY <1>1 DEF ToldInv, CallsAreCurrent
<1>6. /\ DOMAIN assets' = Asset /\ assets'[a] = row /\ DOMAIN history' = Asset
      /\ history'[a] = Append(history[a], row)
      /\ \A b \in Asset : b # a => assets'[b] = assets[b] /\ history'[b] = history[b]
      /\ DOMAIN task' = Clerk /\ task'[c] = t /\ \A d \in Clerk : d # c => task'[d] = task[d]
  <2> HIDE DEF row, t
  <2> QED BY <1>1, <1>3
<1>7. CallsAreCurrent'
  <2>1. /\ IsTask(k) /\ u.pc = "write" /\ u.op = k.op /\ u.rows = k.rows /\ u.left = k.left \ {a}
        /\ u.input = k.input /\ u.alone = k.alone
    <3>1. IsTask(k)
      BY <1>3 DEF TaskOK
    <3> HIDE DEF k
    <3> QED BY <1>1, <3>1 DEF IsTask
  <2> HIDE DEF u, row
  <2>2. ASSUME k.left # {a} PROVE IsCurrent(u, assets', history')
    <3>1. k.op # "reconcile"
      BY <1>1, <1>3, <2>2 DEF IsCurrent
    <3>2. k.alone => \A b \in Asset \cap k.left : k.rows[b] = assets[b]
      BY <1>1, <1>3 DEF IsCurrent, ToWrite
    <3>3. k.alone => \A b \in Asset \cap u.left : u.rows[b] = assets'[b]
      BY <1>6, <2>1, <3>2
    <3> QED BY <1>3, <2>1, <3>1, <3>3 DEF IsCurrent, ToWrite
  <2>3. IsCurrent(t, assets', history') /\ (t.alone => k.alone)
    BY <2>1, <2>2, NoTaskIsCurrent
  <2> SUFFICES ASSUME NEW d \in Clerk
               PROVE  /\ IsCurrent(task'[d], assets', history')
                      /\ task'[d].alone => \A b \in Clerk : b # d => task'[b].pc = "idle"
    BY DEF CallsAreCurrent
  <2> HIDE DEF t
  <2>4. CASE d = c
    BY <1>5, <1>6, <2>3, <2>4
  <2>5. CASE d # c
    <3>1. task'[d] = task[d] /\ ~ task[d].alone /\ IsCurrent(task[d], assets, history)
      BY <1>5, <1>6, <2>5 DEF ToldInv, CallsAreCurrent
    <3> QED BY <3>1 DEF IsCurrent
  <2> QED BY <2>4, <2>5
<1>8. /\ DOMAIN said' = Asset
      /\ \A b \in Asset : DOMAIN said'[b] = Source
      /\ \A b \in Asset : b # a => said'[b] = said[b]
  BY <1>2, <1>3 DEF ToldInv, HistoriesOK
<1>9. PICK S : history[a] \in Seq(S)
  BY DEF ToldInv, HistoriesOK
<1>10. (\E R : history'[a] \in Seq(R)) /\ EndsWith(history'[a], assets'[a])
  <2> DEFINE h == history[a]
             g == Append(h, row)
  <2> HIDE DEF row
  <2>1. /\ g \in Seq(S \cup {row}) /\ g # <<>> /\ g[Len(g)] = row
    BY <1>9, OneMoreSnapshot
  <2> QED BY <1>4, <1>6, <2>1 DEF EndsWith
<1>11. ASSUME a \notin edited' PROVE TellsAll(history'[a], said'[a])
  <2>1. k.op \in {"ingest", "mark", "sweep", "decommission"} /\ k.alone /\ a \notin edited
    BY <1>1, <1>2, <1>3, <1>11 DEF TaskOK
  <2>2. TellsAll(history[a], said[a]) /\ EndsWith(history[a], assets[a]) /\ DOMAIN said[a] = Source
    BY <2>1 DEF ToldInv, HistoriesOK
  <2>3. CASE k.op = "ingest"
    <3>1. /\ row.source = k.input.source /\ row.fields = k.input.fields
          /\ row.source \in Source /\ row.fields.asset_type # Nothing
      BY <1>1, <2>1, <2>3, WrittenRow
    <3> HIDE DEF row, k
    <3>2. said'[a] = [said[a] EXCEPT ![row.source] = row.fields]
      BY <1>2, <1>3, <2>3, <3>1
    <3>3. TellsAll(Append(history[a], row), [said[a] EXCEPT ![row.source] = row.fields])
      BY <1>9, <2>2, <3>1, ReportIsTold
    <3> QED BY <1>6, <3>2, <3>3
  <2>4. CASE k.op # "ingest"
    <3>1. assets[a].stored /\ row.source = assets[a].source /\ row.fields = assets[a].fields
      BY <1>1, <2>1, <2>4, WrittenRow
    <3> HIDE DEF row, k
    <3>2. history[a] # <<>> /\ assets[a] = history[a][Len(history[a])]
      BY <2>2, <3>1 DEF EndsWith
    <3>3. TellsAll(Append(history[a], row), said[a])
      BY <1>9, <2>2, <3>1, <3>2, StateIsNotTold
    <3> QED BY <1>2, <1>6, <2>4, <3>3
  <2> QED BY <2>3, <2>4
<1>12. HistoriesOK'
  <2>1. ASSUME NEW b \in Asset
        PROVE  /\ DOMAIN said'[b] = Source
               /\ \E R : history'[b] \in Seq(R)
               /\ EndsWith(history'[b], assets'[b])
               /\ b \notin edited' => TellsAll(history'[b], said'[b])
    <3>1. CASE b = a
      BY <1>8, <1>10, <1>11, <3>1
    <3>2. CASE b # a
      BY <1>2, <1>6, <1>8, <3>2 DEF ToldInv, HistoriesOK
    <3> QED BY <3>1, <3>2
  <2> HIDE DEF k, row, u, t
  <2>2. DOMAIN history' = Asset /\ DOMAIN said' = Asset
    BY <1>6, <1>8
  <2> QED BY <2>1, <2>2, Zenon DEF HistoriesOK
<1> QED BY <1>7, <1>12 DEF ToldInv

LEMMA ToldAtFirst == InventoryInit => ToldInv
<1> SUFFICES ASSUME InventoryInit PROVE ToldInv
  OBVIOUS
<1>1. CallsAreCurrent
  <2>1. \A c \in Clerk : task[c] = NoTask
    BY DEF InventoryInit
  <2> QED BY <2>1, NoTaskIsCurrent DEF CallsAreCurrent
<1>2. /\ DOMAIN history = Asset /\ DOMAIN said = Asset
      /\ \A a \in Asset : /\ history[a] = <<>> /\ ~ assets[a].stored /\ DOMAIN said[a] = Source
                          /\ \A s \in Source : said[a][s].asset_type = Nothing
  BY DEF InventoryInit, Unknown, Blank, Field
<1>3. <<>> \in Seq(Asset) /\ DOMAIN <<>> = {}
  OBVIOUS
<1>4. HistoriesOK
  BY <1>2, <1>3 DEF HistoriesOK, EndsWith, TellsAll
<1> QED BY <1>1, <1>4 DEF ToldInv

LEMMA ToldInductive == InventorySpec => []ToldInv
<1>1. InventoryInit => ToldInv
  BY ToldAtFirst
<1>2. InventoryInv /\ ToldInv /\ [InventoryNext]_inventoryVars => ToldInv'
  <2> SUFFICES ASSUME InventoryInv, ToldInv, [InventoryNext]_inventoryVars PROVE ToldInv'
    OBVIOUS
  <2>1. CASE UNCHANGED inventoryVars
    BY <2>1 DEF inventoryVars, ToldInv, CallsAreCurrent, HistoriesOK
  <2>2. ASSUME NEW c \in Clerk, NEW rep \in Reports, Gets(c, "ingest", rep.asset, rep, "write")
        PROVE  ToldInv'
    BY <2>2, GetsKeepsTold, InventoryAssumption
  <2>3. ASSUME NEW c \in Clerk, NEW a \in Asset,
               \/ Gets(c, "reconcile", a, Nothing, "read")
               \/ Gets(c, "mark", a, Nothing, "write")
               \/ Gets(c, "decommission", a, Nothing, "write")
               \/ \E v \in Classes : Gets(c, "classify", a, v, "write")
        PROVE  ToldInv'
    BY <2>3, GetsKeepsTold
  <2>4. ASSUME NEW c \in Clerk, NEW a \in Asset, ReconcileReadsHistory(c, a) \/ Puts(c, a)
        PROVE  ToldInv'
    BY <2>4, ReadsHistoryKeepsTold, PutsKeepsTold
  <2>5. ASSUME NEW c \in Clerk,
               \/ \E rep \in Reports : SweepBegins(c, rep.source, rep.at)
               \/ SweepReadsPage(c) \/ InventoryInterrupt(c)
        PROVE  ToldInv'
    BY <2>5, SweepBeginsKeepsTold, SweepReadsKeepsTold, InterruptKeepsTold
  <2>6. CASE InventoryNext
    BY <2>2, <2>3, <2>4, <2>5, <2>6 DEF InventoryNext
  <2> QED BY <2>1, <2>6
<1> QED BY <1>1, <1>2, InventoryInductive, PTL DEF InventorySpec

-----------------------------------------------------------------------------
\* More than one is two that differ.
LEMMA MoreThanOne ==
  ASSUME NEW S, IsFiniteSet(S)
  PROVE  Cardinality(S) > 1 <=> \E x, y \in S : x # y
<1>1. Cardinality(S) \in Nat /\ (Cardinality(S) = 0 <=> S = {}) /\ (Cardinality(S) = 1 <=> \E x : S = {x})
  BY FS_CardinalityType, FS_EmptySet, FS_Singleton
<1>2. (\E x, y \in S : x # y) <=> S # {} /\ ~ \E x : S = {x}
  OBVIOUS
<1> QED BY <1>1, <1>2

LEMMA ImageIsFinite ==
  ASSUME NEW S, IsFiniteSet(S), NEW g
  PROVE  IsFiniteSet({g[x] : x \in S})
<1> DEFINE T == {g[x] : x \in S}
           F == [x \in S |-> g[x]]
<1>1. F \in Surjection(S, T)
  BY DEF Surjection
<1> HIDE DEF F, T
<1>2. IsFiniteSet(T)
  BY <1>1, FS_Surjection
<1> QED BY <1>2 DEF T

LEMMA NewestExists ==
  ASSUME NEW S, NEW h \in Seq(S), NEW i \in DOMAIN h
  PROVE  \E j \in DOMAIN h : Newest(h, j) /\ h[j].source = h[i].source
<1> DEFINE same == {j \in 1 .. Len(h) : h[j].source = h[i].source}
<1>1. DOMAIN h = 1 .. Len(h) /\ Len(h) \in Nat
  OBVIOUS
<1>2. same \subseteq Nat /\ i \in same
  BY <1>1
<1>3. IsFiniteSet(same)
  <2>1. IsFiniteSet(1 .. Len(h)) /\ same \subseteq 1 .. Len(h)
    BY <1>1, FS_Interval
  <2> QED BY <2>1, FS_Subset
<1>4. PICK j \in same : \A k \in same : k <= j
  <2> HIDE DEF same
  <2> QED BY <1>2, <1>3, LargestAndSmallest
<1>5. Newest(h, j)
  <2> SUFFICES ASSUME NEW k \in 1 .. Len(h), k > j, h[k].source = h[j].source PROVE FALSE
    BY <1>1 DEF Newest
  <2>1. k \in same /\ j \in Nat /\ k \in Nat
    BY <1>1
  <2> QED BY <1>4, <2>1
<1> QED BY <1>1, <1>5

\* Who has said anything of field f, and which of them count most
Said(says, f) ==
  {s \in Source : says[s].asset_type # Nothing /\ (f = "owner" => says[s][f] # Nothing)}
Top(says, f) == {s \in Said(says, f) : \A t \in Said(says, f) : Rate[t] <= Rate[s]}

\* The rows are one for each source, with what it says.
SpeakFor(rows, sources, says) ==
  /\ \A row \in rows : row.source \in sources /\ row.fields = says[row.source]
  /\ \A s \in sources : \E row \in rows : row.source = s

LEMMA CandidatesSpeak ==
  ASSUME NEW S, NEW h \in Seq(S), NEW says, TellsAll(h, says), NEW f
  PROVE  /\ SpeakFor(Candidates(h, f), Said(says, f), says)
         /\ IsFiniteSet(Candidates(h, f))
<1> DEFINE newest == {i \in DOMAIN h : Newest(h, i)}
<1>1. LatestBySource(h) = {h[i] : i \in newest}
  BY DEF LatestBySource, Newest
<1>2. ASSUME NEW row \in Candidates(h, f)
      PROVE  row.source \in Said(says, f) /\ row.fields = says[row.source]
  <2>1. PICK i \in newest : row = h[i]
    BY <1>1 DEF Candidates
  <2>2. row.source \in Source /\ row.fields = says[row.source] /\ says[row.source].asset_type # Nothing
    BY <2>1 DEF TellsAll
  <2> QED BY <2>2 DEF Candidates, Said
<1>3. ASSUME NEW s \in Said(says, f) PROVE \E row \in Candidates(h, f) : row.source = s
  <2>1. PICK i \in DOMAIN h : h[i].source = s
    BY DEF Said, TellsAll
  <2>2. PICK j \in DOMAIN h : Newest(h, j) /\ h[j].source = s
    BY <2>1, NewestExists
  <2>3. h[j].fields = says[s] /\ h[j] \in LatestBySource(h)
    BY <1>1, <2>2 DEF TellsAll
  <2> QED BY <2>2, <2>3 DEF Said, Candidates
<1>4. IsFiniteSet(Candidates(h, f))
  <2>1. IsFiniteSet(1 .. Len(h)) /\ newest \subseteq 1 .. Len(h)
    BY FS_Interval
  <2>2. IsFiniteSet({h[i] : i \in newest})
    <3>1. IsFiniteSet(newest)
      BY <2>1, FS_Subset
    <3> HIDE DEF newest
    <3> QED BY <3>1, ImageIsFinite
  <2>3. Candidates(h, f) \subseteq LatestBySource(h)
    BY DEF Candidates
  <2> QED BY <1>1, <2>2, <2>3, FS_Subset
<1> QED BY <1>2, <1>3, <1>4 DEF SpeakFor

LEMMA LeadersSpeak ==
  ASSUME NEW rows, NEW says, NEW f, SpeakFor(rows, Said(says, f), says)
  PROVE  SpeakFor(Leaders(rows), Top(says, f), says)
BY DEF SpeakFor, Leaders, Top

LEMMA ValuesOfSpeakers ==
  ASSUME NEW rows, IsFiniteSet(rows), NEW sources, NEW says, SpeakFor(rows, sources, says), NEW f
  PROVE  /\ ValuesOf(rows, f) = {says[s][f] : s \in sources}
         /\ Cardinality(ValuesOf(rows, f)) > 1 <=> \E s, t \in sources : says[s][f] # says[t][f]
<1>1. ValuesOf(rows, f) = {says[s][f] : s \in sources}
  BY DEF ValuesOf, SpeakFor
<1>2. IsFiniteSet(ValuesOf(rows, f))
  <2> DEFINE value == [row \in rows |-> row.fields[f]]
  <2>1. ValuesOf(rows, f) = {value[row] : row \in rows}
    BY DEF ValuesOf
  <2> HIDE DEF value
  <2> QED BY <2>1, ImageIsFinite
<1>3. Cardinality(ValuesOf(rows, f)) > 1 <=> \E x, y \in ValuesOf(rows, f) : x # y
  BY <1>2, MoreThanOne
<1> QED BY <1>1, <1>3

\* What a reconciliation makes of a history that tells all: by the sources
LEMMA ResolutionIsTold ==
  ASSUME NEW S, NEW h \in Seq(S), NEW says, TellsAll(h, says), NEW row, NEW f \in Field
  PROVE  /\ \A s \in Top(says, f) :
              IF \E t \in Top(says, f) : says[t][f] # says[s][f]
              THEN f # "asset_type" => Resolved(row, h)[f] = Nothing
              ELSE Resolved(row, h)[f] = says[s][f]
         /\ (\E s, t \in Said(says, f) : says[s][f] # says[t][f])
              <=> \E e \in Conflicts(h) : e.field = f
<1> DEFINE rows == Candidates(h, f)
           loud == Leaders(rows)
<1>1. /\ SpeakFor(rows, Said(says, f), says) /\ SpeakFor(loud, Top(says, f), says)
      /\ IsFiniteSet(rows) /\ IsFiniteSet(loud)
  <2>1. SpeakFor(rows, Said(says, f), says) /\ IsFiniteSet(rows) /\ loud \subseteq rows
    BY CandidatesSpeak DEF Leaders
  <2> QED BY <2>1, LeadersSpeak, FS_Subset
<1>2. /\ ValuesOf(loud, f) = {says[s][f] : s \in Top(says, f)}
      /\ Tied(h, f) <=> \E s, t \in Top(says, f) : says[s][f] # says[t][f]
  BY <1>1, ValuesOfSpeakers DEF Tied
<1>3. Cardinality(ValuesOf(rows, f)) > 1 <=> \E s, t \in Said(says, f) : says[s][f] # says[t][f]
  BY <1>1, ValuesOfSpeakers
<1>4. ASSUME NEW s \in Top(says, f)
      PROVE  IF \E t \in Top(says, f) : says[t][f] # says[s][f]
             THEN f # "asset_type" => Resolved(row, h)[f] = Nothing
             ELSE Resolved(row, h)[f] = says[s][f]
  <2>1. CASE \E t \in Top(says, f) : says[t][f] # says[s][f]
    BY <1>2, <2>1 DEF Resolved
  <2>2. CASE \A t \in Top(says, f) : says[t][f] = says[s][f]
    <3>1. ~ Tied(h, f) /\ ValuesOf(loud, f) = {says[s][f]}
      BY <1>2, <2>2
    <3>2. rows # {}
      BY <1>1 DEF SpeakFor, Top
    <3>3. Resolved(row, h)[f] = CHOOSE v \in ValuesOf(loud, f) : TRUE
      BY <3>1, <3>2 DEF Resolved
    <3> QED BY <2>2, <3>1, <3>3
  <2> QED BY <2>1, <2>2
<1>5. Cardinality(ValuesOf(rows, f)) > 1 <=> \E e \in Conflicts(h) : e.field = f
  <2> DEFINE disputed == {g \in Field : Cardinality(ValuesOf(Candidates(h, g), g)) > 1}
             entry(g) == [field |-> g, unresolved |-> Tied(h, g)]
  <2>1. Conflicts(h) = {entry(g) : g \in disputed} /\ \A g : entry(g).field = g
    BY DEF Conflicts
  <2>2. f \in disputed <=> Cardinality(ValuesOf(rows, f)) > 1
    OBVIOUS
  <2> HIDE DEF disputed, entry
  <2> QED BY <2>1, <2>2
<1> QED BY <1>3, <1>4, <1>5

(* The first reconciliation of an asset that nobody overlaps answers with    *)
(* what each source said last and with nothing else: reports that came in    *)
(* another order give the same fields and the same list of disputes          *)
(* (inventory/engine.py).                                                    *)
THEOREM ReconcileIgnoresOrderTheorem == InventorySpec => ReconcileIgnoresOrder
<1> DEFINE Settles(a) ==
             \A f \in Field :
               /\ \A s \in Loudest(a, f) :
                    IF \E t \in Loudest(a, f) : said[a][t][f] # said[a][s][f]
                    THEN f # "asset_type" => assets'[a].fields[f] = Nothing
                    ELSE assets'[a].fields[f] = said[a][s][f]
               /\ Disputed(a, f) <=> \E e \in assets'[a].conflicts : e.field = f
           Obeys == \A c \in Clerk, a \in KnownAssets :
                        (ReconcileWrites(c, a) /\ a \notin edited /\ task[c].alone) => Settles(a)
<1>1. ASSUME InventoryInv, ToldInv, [InventoryNext]_inventoryVars PROVE Obeys
  <2> SUFFICES ASSUME NEW c \in Clerk, NEW a \in KnownAssets, ReconcileWrites(c, a),
                      a \notin edited, task[c].alone
               PROVE  Settles(a)
    OBVIOUS
  <2> HIDE DEF Settles
  <2> DEFINE k == task[c]
             row == k.rows[a]
             h   == history[a]
  <2>1. /\ a \in Asset /\ k.op = "reconcile" /\ k.pc = "write" /\ a \in k.left /\ assets'[a] # assets[a]
        /\ \A d \in Clerk : d # c => task[d].pc = "idle"
    <3>1. a \in Asset
      BY DEF KnownAssets
    <3>2. k.op = "reconcile" /\ k.pc = "write" /\ a \in k.left /\ assets'[a] # assets[a]
      BY DEF ReconcileWrites
    <3>3. \A d \in Clerk : d # c => task[d].pc = "idle"
      BY <1>1 DEF ToldInv, CallsAreCurrent
    <3> QED BY <3>1, <3>2, <3>3
  <2>2. Puts(c, a)
    <3>1. PICK d \in Clerk, b \in Asset : Puts(d, b)
      <4>1. assets' # assets /\ InventoryNext
        BY <1>1, <2>1 DEF inventoryVars
      <4>2. \A d, op, b, input, pc : ~ Gets(d, op, b, input, pc)
        BY <4>1 DEF Gets
      <4>3. \A d, b : ~ ReconcileReadsHistory(d, b)
        BY <4>1 DEF ReconcileReadsHistory
      <4>4. \A d, s, at : ~ SweepBegins(d, s, at)
        BY <4>1 DEF SweepBegins
      <4>5. \A d : ~ SweepReadsPage(d) /\ ~ InventoryInterrupt(d)
        BY <4>1 DEF SweepReadsPage, InventoryInterrupt
      <4> QED BY <4>1, <4>2, <4>3, <4>4, <4>5 DEF InventoryNext
    <3>2. d = c
      BY <2>1, <3>1 DEF Puts
    <3>3. b = a
      BY <2>1, <3>1 DEF Puts
    <3> QED BY <3>1, <3>2, <3>3
  <2>3. /\ TaskOK(k, KnownAssets, retired) /\ IsCurrent(k, assets, history) /\ DOMAIN assets = Asset
        /\ TellsAll(h, said[a]) /\ \E S : h \in Seq(S)
    <3>1. TaskOK(k, KnownAssets, retired) /\ IsCurrent(k, assets, history) /\ DOMAIN assets = Asset
      BY <1>1 DEF InventoryInv, InventoryRowsOK, TasksOK, ToldInv, CallsAreCurrent
    <3>2. TellsAll(h, said[a]) /\ \E S : h \in Seq(S)
      BY <1>1, <2>1 DEF ToldInv, HistoriesOK
    <3> QED BY <3>1, <3>2
  <2>4. k.snapshots = h /\ IsAssetRow(row)
    BY <2>1, <2>3 DEF IsCurrent, TaskOK
  <2>5. assets'[a] = [row EXCEPT !.fields = Resolved(row, h), !.conflicts = Conflicts(h)]
    BY <2>1, <2>2, <2>3, <2>4 DEF Puts, Changed
  <2>6. assets'[a].fields = Resolved(row, h) /\ assets'[a].conflicts = Conflicts(h)
    <3> HIDE DEF row, h
    <3> QED BY <2>4, <2>5 DEF IsAssetRow
  <2>7. \A f : /\ Speakers(a, f) = Said(said[a], f) /\ Loudest(a, f) = Top(said[a], f)
               /\ Disputed(a, f) <=> \E s, t \in Said(said[a], f) : said[a][s][f] # said[a][t][f]
    BY DEF Speakers, Loudest, Disputed, Said, Top
  <2> HIDE DEF row, h, k
  <2>8. ASSUME NEW f \in Field
        PROVE  /\ \A s \in Loudest(a, f) :
                    IF \E t \in Loudest(a, f) : said[a][t][f] # said[a][s][f]
                    THEN f # "asset_type" => assets'[a].fields[f] = Nothing
                    ELSE assets'[a].fields[f] = said[a][s][f]
               /\ Disputed(a, f) <=> \E e \in assets'[a].conflicts : e.field = f
    BY <2>3, <2>6, <2>7, ResolutionIsTold
  <2> QED BY <2>8 DEF Settles
<1>2. InventorySpec => [][Obeys]_inventoryVars
  <2>1. InventoryInv /\ ToldInv /\ [InventoryNext]_inventoryVars => [Obeys]_inventoryVars
    BY <1>1
  <2> QED BY <2>1, InventoryInductive, ToldInductive, PTL DEF InventorySpec
<1> QED BY <1>2 DEF ReconcileIgnoresOrder

-----------------------------------------------------------------------------
(***************************************************************************)
(* The portal.  Accounts, consents, evidence and subjects are only ever    *)
(* added to, so that what a request has read of them holds until it        *)
(* writes; a tenant is taken from the session, a session's from the        *)
(* account, an account's from the invite.                                  *)
(***************************************************************************)

Posture  == UNION {{d[n] : n \in DOMAIN d} : d \in Documents}
Subjects == {o.subject : o \in Posture}
Checks   == {o.check : o \in Posture}

Account == [email : Email, tenant : Tenant]
Consent == [tenant : Tenant, account : Nat, revoked : BOOLEAN]
Proof   == [tenant : Tenant, account : Nat, upload : Nat, subject : Subjects, check : Checks]
Concern == [tenant : Tenant, subject : Subjects, check : Checks, evidence : SUBSET Nat]
Call    == [pc : {"idle", "start", "check", "object", "evidence", "finding", "audit"},
            op : {"none", "login", "consent", "upload"}, account : Nat, tenant : Tenant \cup {Anyone},
            left : Seq(Posture), upload : Nat, evidence : Nat]

PortalTypeOK ==
  /\ now \in Nat /\ requests \in Nat /\ revokes \in Nat
  /\ redeemed \in [DOMAIN Invites -> Nat]
  /\ accounts \in Seq(Account)
  /\ sessions \in SUBSET [account : Nat, tenant : Tenant, expires : Nat, id : Nat]
  /\ consents \in Seq(Consent)
  /\ auditLog \in Seq([tenant : Tenant, account : Nat, upload : Nat,
                       action : {"consent_granted", "scan_ingested"}])
  /\ subjects \in SUBSET [tenant : Tenant, subject : Subjects]
  /\ observed \in Seq(Proof)
  /\ concerns \in SUBSET Concern
  /\ request \in [Request -> Call]

\* Each account comes from one invite of its tenant.
InvitesOK ==
  /\ \A t \in DOMAIN Invites :
       redeemed[t] # 0 => /\ redeemed[t] \in DOMAIN accounts
                          /\ Invites[t].tenant = accounts[redeemed[t]].tenant
  /\ \A t, u \in DOMAIN Invites : redeemed[t] # 0 /\ redeemed[t] = redeemed[u] => t = u
  /\ \A a \in DOMAIN accounts : \E t \in DOMAIN Invites : redeemed[t] = a
  /\ \A a, b \in DOMAIN accounts : accounts[a].email = accounts[b].email => a = b

\* s is a session, a consent, an observation or a request: of an account of its tenant
Owned(s, as) == s.account \in DOMAIN as /\ s.tenant = as[s.account].tenant

HasConsented(tenant, cs) == \E j \in DOMAIN cs : cs[j].tenant = tenant

\* Evidence i is of this check of this subject of the tenant.
Backs(i, tenant, subject, check, os) ==
  i \in DOMAIN os /\ os[i].tenant = tenant /\ os[i].subject = subject /\ os[i].check = check

SessionsOK == \A s \in sessions : Owned(s, accounts)
ConsentsOK == \A j \in DOMAIN consents : Owned(consents[j], accounts)
ObservedOK ==
  \A i \in DOMAIN observed : Owned(observed[i], accounts) /\ HasConsented(observed[i].tenant, consents)
ConcernsOK ==
  \A f \in concerns : /\ [tenant |-> f.tenant, subject |-> f.subject] \in subjects
                      /\ \A i \in f.evidence : Backs(i, f.tenant, f.subject, f.check, observed)

\* What a request r in flight knows of accounts, consents, observations and subjects
RequestOK(r, as, cs, os, ss) ==
  /\ r.pc # "idle" => r.op # "none" /\ r.account \in DOMAIN as
  /\ r.pc = "start" => r.op = "login"
  /\ r.pc \notin {"idle", "start"} => r.op # "login" /\ Owned(r, as)
  /\ r.pc \in {"object", "evidence", "finding"} => r.left # <<>> /\ HasConsented(r.tenant, cs)
  /\ r.pc \in {"evidence", "finding"} => [tenant |-> r.tenant, subject |-> Head(r.left).subject] \in ss
  /\ r.pc = "finding" => Backs(r.evidence, r.tenant, Head(r.left).subject, Head(r.left).check, os)

RequestsOK == \A q \in Request : RequestOK(request[q], accounts, consents, observed, subjects)

PortalInv ==
  PortalTypeOK /\ InvitesOK /\ SessionsOK /\ ConsentsOK /\ ObservedOK /\ ConcernsOK /\ RequestsOK

-----------------------------------------------------------------------------
(* What is only ever added to                                              *)

Grows ==
  /\ \A a \in DOMAIN accounts : a \in DOMAIN accounts' /\ accounts'[a] = accounts[a]
  /\ \A j \in DOMAIN consents : /\ j \in DOMAIN consents' /\ consents'[j].tenant = consents[j].tenant
                                /\ consents'[j].account = consents[j].account
  /\ \A i \in DOMAIN observed : i \in DOMAIN observed' /\ observed'[i] = observed[i]
  /\ subjects \subseteq subjects'

LEMMA AppendIs ==
  ASSUME NEW S, NEW s \in Seq(S), NEW e \in S
  PROVE  /\ Append(s, e) \in Seq(S) /\ DOMAIN Append(s, e) = DOMAIN s \cup {Len(s) + 1}
         /\ \A i \in DOMAIN s : i # Len(s) + 1 /\ Append(s, e)[i] = s[i]
         /\ Append(s, e)[Len(s) + 1] = e /\ Len(s) + 1 \in Nat
OBVIOUS

LEMMA RequestKept ==
  ASSUME Grows, NEW r, RequestOK(r, accounts, consents, observed, subjects)
  PROVE  RequestOK(r, accounts', consents', observed', subjects')
<1>1. r.pc # "idle" => r.account \in DOMAIN accounts'
  BY DEF Grows, RequestOK
<1>2. Owned(r, accounts) => Owned(r, accounts')
  BY DEF Grows, Owned
<1>3. HasConsented(r.tenant, consents) => HasConsented(r.tenant, consents')
  BY DEF Grows, HasConsented
<1>4. \A t, o, c : Backs(r.evidence, t, o, c, observed) => Backs(r.evidence, t, o, c, observed')
  BY DEF Grows, Backs
<1>5. subjects \subseteq subjects'
  BY DEF Grows
<1> QED BY <1>1, <1>2, <1>3, <1>4, <1>5 DEF RequestOK

(* A step in which request q becomes r, and the stores only grow.          *)
LEMMA RequestsStep ==
  ASSUME RequestsOK, Grows, request \in [Request -> Call], NEW q \in Request, NEW r,
         request' = [request EXCEPT ![q] = r], RequestOK(r, accounts', consents', observed', subjects')
  PROVE  RequestsOK'
<1> SUFFICES ASSUME NEW p \in Request
             PROVE  RequestOK(request'[p], accounts', consents', observed', subjects')
  BY DEF RequestsOK
<1>1. CASE p = q
  BY <1>1
<1>2. CASE p # q
  <2>1. request'[p] = request[p] /\ RequestOK(request[p], accounts, consents, observed, subjects)
    BY <1>2 DEF RequestsOK
  <2> QED BY <2>1, RequestKept
<1> QED BY <1>1, <1>2

(* What was there stays right as long as the stores only grow.             *)
LEMMA RecordsStep ==
  ASSUME PortalTypeOK, SessionsOK, ConsentsOK, ObservedOK, ConcernsOK, Grows
  PROVE  /\ \A s \in sessions : Owned(s, accounts')
         /\ \A j \in DOMAIN consents : Owned(consents[j], accounts') /\ Owned(consents'[j], accounts')
         /\ \A i \in DOMAIN observed : /\ Owned(observed[i], accounts')
                                       /\ HasConsented(observed[i].tenant, consents')
                                       /\ observed'[i] = observed[i]
         /\ \A f \in concerns : /\ [tenant |-> f.tenant, subject |-> f.subject] \in subjects'
                                /\ \A i \in f.evidence : Backs(i, f.tenant, f.subject, f.check, observed')
<1>1. \A s : Owned(s, accounts) => Owned(s, accounts')
  BY DEF Grows, Owned
<1>2. \A t : HasConsented(t, consents) => HasConsented(t, consents')
  BY DEF Grows, HasConsented
<1>3. \A i, t, o, c : Backs(i, t, o, c, observed) => Backs(i, t, o, c, observed')
  BY DEF Grows, Backs
<1>4. \A j \in DOMAIN consents : Owned(consents'[j], accounts')
  BY <1>1 DEF Grows, ConsentsOK, Owned
<1> QED BY <1>1, <1>2, <1>3, <1>4 DEF SessionsOK, ConsentsOK, ObservedOK, ConcernsOK, Grows

(* A step that adds no account, consent, observation or finding.           *)
LEMMA QuietStep ==
  ASSUME PortalInv, PortalTypeOK', NEW q \in Request, NEW r, request' = [request EXCEPT ![q] = r],
         UNCHANGED <<redeemed, accounts, consents, observed, concerns>>, subjects \subseteq subjects',
         \A s \in sessions' : Owned(s, accounts), RequestOK(r, accounts, consents, observed, subjects')
  PROVE  PortalInv'
<1>1. Grows
  BY DEF Grows
<1>2. RequestsOK'
  BY <1>1, RequestsStep DEF PortalInv, PortalTypeOK
<1>3. InvitesOK' /\ SessionsOK' /\ ConsentsOK' /\ ObservedOK'
  BY DEF PortalInv, InvitesOK, SessionsOK, ConsentsOK, ObservedOK
<1>4. ConcernsOK'
  BY DEF PortalInv, ConcernsOK
<1> QED BY <1>2, <1>3, <1>4 DEF PortalInv

-----------------------------------------------------------------------------
(* register, login and logout                                              *)

LEMMA NoRequestIs ==
  /\ NoRequest \in Call /\ NoRequest.pc = "idle"
  /\ \A as, cs, os, ss : RequestOK(NoRequest, as, cs, os, ss)
<1>1. <<>> \in Seq(Posture)
  OBVIOUS
<1>2. NoRequest \in Call
  BY <1>1 DEF NoRequest, Call
<1> QED BY <1>2 DEF NoRequest, RequestOK

\* What a request is when it has arrived
LEMMA ArrivesIs ==
  ASSUME PortalTypeOK, NEW q \in Request, NEW r \in Call, Arrives(q, r)
  PROVE  LET n == [r EXCEPT !.upload = requests + 1]
         IN  /\ request' = [request EXCEPT ![q] = n] /\ requests' \in Nat /\ n \in Call
             /\ n.pc = r.pc /\ n.op = r.op /\ n.account = r.account /\ n.tenant = r.tenant
             /\ n.left = r.left /\ n.evidence = r.evidence
<1>1. requests + 1 \in Nat
  BY DEF PortalTypeOK
<1> QED BY <1>1 DEF Arrives, Call

LEMMA LoginCall ==
  ASSUME NEW a \in Nat
  PROVE  LET r == [NoRequest EXCEPT !.pc = "start", !.op = "login", !.account = a]
         IN  r \in Call /\ r.pc = "start" /\ r.op = "login" /\ r.account = a
BY NoRequestIs DEF Call

LEMMA InviteIs ==
  ASSUME NEW t \in DOMAIN Invites
  PROVE  Invites[t].tenant \in Tenant
<1> DEFINE Invite == [tenant : Tenant, email : Email \cup {Anyone}, expires : Nat]
<1>1. Invites[t] \in Invite
  <2> HIDE DEF Invite
  <2>1. Invites \in Seq(Invite)
    BY PortalAssumption DEF Invite
  <2> QED BY <2>1
<1> QED BY <1>1

LEMMA RedeemsOK ==
  ASSUME PortalInv, NEW q \in Request, NEW t \in DOMAIN Invites, NEW email \in Email, Redeems(q, t, email)
  PROVE  PortalInv'
<1> DEFINE new == [email |-> email, tenant |-> Invites[t].tenant]
           r   == [NoRequest EXCEPT !.pc = "start", !.op = "login", !.account = Len(accounts) + 1]
           n   == [r EXCEPT !.upload = requests + 1]
<1>1. /\ PortalTypeOK /\ accounts \in Seq(Account) /\ accounts' = Append(accounts, new)
      /\ redeemed[t] = 0 /\ redeemed' = [redeemed EXCEPT ![t] = Len(accounts) + 1]
      /\ Arrives(q, r) /\ ~ Taken(email)
      /\ UNCHANGED <<now, sessions, consents, auditLog, subjects, observed, concerns, revokes>>
  BY DEF PortalInv, PortalTypeOK, Redeems, consentVars, scanVars
<1>2. new \in Account /\ new.tenant = Invites[t].tenant /\ new.email = email
  BY InviteIs DEF Account
<1> HIDE DEF new
<1>3. /\ accounts' \in Seq(Account) /\ DOMAIN accounts' = DOMAIN accounts \cup {Len(accounts) + 1}
      /\ \A a \in DOMAIN accounts : a # Len(accounts) + 1 /\ accounts'[a] = accounts[a]
      /\ accounts'[Len(accounts) + 1] = new /\ Len(accounts) + 1 \in Nat /\ Len(accounts) + 1 # 0
  <2>1. Len(accounts) \in Nat
    BY <1>1
  <2> QED BY <1>1, <1>2, <2>1, AppendIs
<1>4. r \in Call /\ r.pc = "start" /\ r.op = "login" /\ r.account = Len(accounts) + 1
  BY <1>3, LoginCall
<1> HIDE DEF r
<1>5. /\ request' = [request EXCEPT ![q] = n] /\ requests' \in Nat /\ n \in Call
      /\ n.pc = "start" /\ n.op = "login" /\ n.account = Len(accounts) + 1
  BY <1>1, <1>4, ArrivesIs
<1> HIDE DEF n
<1>6. PortalTypeOK'
  <2>1. request' \in [Request -> Call] /\ redeemed' \in [DOMAIN Invites -> Nat]
    BY <1>1, <1>3, <1>5 DEF PortalTypeOK
  <2> QED BY <1>1, <1>3, <1>5, <2>1 DEF PortalTypeOK
<1>7. Grows
  BY <1>1, <1>3 DEF Grows
<1>8. RequestsOK'
  <2>1. RequestOK(n, accounts', consents', observed', subjects')
    BY <1>3, <1>5 DEF RequestOK
  <2>2. RequestsOK /\ request \in [Request -> Call]
    BY DEF PortalInv, PortalTypeOK
  <2> QED BY <1>5, <1>7, <2>1, <2>2, RequestsStep
<1>9. InvitesOK'
  <2>1. InvitesOK /\ redeemed \in [DOMAIN Invites -> Nat]
    BY DEF PortalInv, PortalTypeOK
  <2>2. /\ redeemed'[t] = Len(accounts) + 1
        /\ \A u \in DOMAIN Invites : u # t => redeemed'[u] = redeemed[u]
        /\ \A u \in DOMAIN Invites : redeemed[u] # Len(accounts) + 1
    <3>1. \A u \in DOMAIN Invites : redeemed[u] # Len(accounts) + 1
      BY <1>3, <2>1 DEF InvitesOK
    <3> QED BY <1>1, <2>1, <3>1
  <2>3. \A u \in DOMAIN Invites : redeemed'[u] # 0 =>
          redeemed'[u] \in DOMAIN accounts' /\ Invites[u].tenant = accounts'[redeemed'[u]].tenant
    BY <1>2, <1>3, <2>1, <2>2 DEF InvitesOK
  <2>4. \A u, v \in DOMAIN Invites : redeemed'[u] # 0 /\ redeemed'[u] = redeemed'[v] => u = v
    BY <2>1, <2>2 DEF InvitesOK
  <2>5. \A a \in DOMAIN accounts' : \E u \in DOMAIN Invites : redeemed'[u] = a
    <3>1. \A a \in DOMAIN accounts : a # 0
      BY <1>1
    <3> QED BY <1>1, <1>3, <2>1, <2>2, <3>1 DEF InvitesOK
  <2>6. \A a, b \in DOMAIN accounts' : accounts'[a].email = accounts'[b].email => a = b
    <3>1. \A a \in DOMAIN accounts : accounts[a].email # email
      BY <1>1 DEF Taken
    <3> QED BY <1>2, <1>3, <2>1, <3>1 DEF InvitesOK
  <2> QED BY <2>3, <2>4, <2>5, <2>6 DEF InvitesOK
<1>10. SessionsOK' /\ ConsentsOK' /\ ObservedOK' /\ ConcernsOK'
  <2>1. SessionsOK /\ ConsentsOK /\ ObservedOK /\ ConcernsOK
    BY DEF PortalInv
  <2> QED BY <1>1, <1>7, <2>1, RecordsStep DEF SessionsOK, ConsentsOK, ObservedOK, ConcernsOK
<1> QED BY <1>6, <1>8, <1>9, <1>10 DEF PortalInv

LEMMA LogsInOK ==
  ASSUME PortalInv, NEW q \in Request, NEW a \in DOMAIN accounts, LogsIn(q, a)
  PROVE  PortalInv'
<1> DEFINE r == [NoRequest EXCEPT !.pc = "start", !.op = "login", !.account = a]
           n == [r EXCEPT !.upload = requests + 1]
<1>1. /\ PortalTypeOK /\ Arrives(q, r) /\ a \in Nat
      /\ UNCHANGED <<now, redeemed, accounts, sessions, consents, auditLog, subjects, observed, concerns, revokes>>
  BY DEF PortalInv, PortalTypeOK, LogsIn, identityVars, consentVars, scanVars
<1>2. r \in Call /\ r.pc = "start" /\ r.op = "login" /\ r.account = a
  BY <1>1, LoginCall
<1> HIDE DEF r
<1>3. /\ request' = [request EXCEPT ![q] = n] /\ requests' \in Nat /\ n \in Call
      /\ n.pc = "start" /\ n.op = "login" /\ n.account = a
  BY <1>1, <1>2, ArrivesIs
<1> HIDE DEF n
<1>4. PortalTypeOK'
  BY <1>1, <1>3 DEF PortalTypeOK
<1>5. RequestOK(n, accounts, consents, observed, subjects')
  BY <1>3 DEF RequestOK
<1> QED BY <1>1, <1>3, <1>4, <1>5, QuietStep DEF PortalInv, SessionsOK

LEMMA StartsSessionOK ==
  ASSUME PortalInv, NEW q \in Request, NEW reap \in BOOLEAN, StartsSession(q, reap)
  PROVE  PortalInv'
<1> DEFINE a == request[q].account
           s == [account |-> a, tenant |-> accounts[a].tenant, expires |-> now + SessionTtl,
                 id |-> request[q].upload]
<1>1. /\ PortalTypeOK /\ request[q] \in Call /\ request[q].pc = "start" /\ accounts \in Seq(Account)
      /\ RequestOK(request[q], accounts, consents, observed, subjects)
      /\ sessions' = {x \in sessions : reap => x.expires > now} \cup {s}
      /\ request' = [request EXCEPT ![q] = NoRequest]
      /\ UNCHANGED <<now, redeemed, accounts, consents, auditLog, subjects, observed, concerns, requests, revokes>>
  BY DEF PortalInv, PortalTypeOK, RequestsOK, StartsSession, At, Answers, consentVars, scanVars
<1>2. a \in DOMAIN accounts /\ a \in Nat /\ accounts[a] \in Account /\ now + SessionTtl \in Nat
      /\ request[q].upload \in Nat
  BY <1>1, PortalAssumption DEF RequestOK, PortalTypeOK, Call
<1> HIDE DEF a
<1>3. s \in [account : Nat, tenant : Tenant, expires : Nat, id : Nat] /\ Owned(s, accounts)
  BY <1>2 DEF Account, Owned
<1> HIDE DEF s
<1>4. PortalTypeOK'
  BY <1>1, <1>3, NoRequestIs DEF PortalTypeOK
<1>5. \A x \in sessions' : Owned(x, accounts)
  BY <1>1, <1>3 DEF PortalInv, SessionsOK
<1> QED BY <1>1, <1>4, <1>5, NoRequestIs, QuietStep

(* Sessions that go leave the rest as it was.                              *)
LEMMA SessionsShrink ==
  ASSUME PortalInv, sessions' \subseteq sessions,
         UNCHANGED <<now, redeemed, accounts, consents, auditLog, subjects, observed, concerns, request,
                     requests, revokes>>
  PROVE  PortalInv'
<1>1. PortalTypeOK' /\ SessionsOK'
  BY DEF PortalInv, PortalTypeOK, SessionsOK
<1>2. InvitesOK' /\ ConsentsOK' /\ ObservedOK' /\ ConcernsOK' /\ RequestsOK'
  BY DEF PortalInv, InvitesOK, ConsentsOK, ObservedOK, ConcernsOK, RequestsOK
<1> QED BY <1>1, <1>2 DEF PortalInv

-----------------------------------------------------------------------------
(* consent and uploads                                                     *)

LEMMA ResolvesOK ==
  ASSUME PortalInv, NEW q \in Request, NEW op \in {"consent", "upload"}, NEW s \in sessions,
         NEW document \in Seq(Posture), Resolves(q, op, s, document)
  PROVE  PortalInv'
<1> DEFINE r == [NoRequest EXCEPT !.pc = "check", !.op = op, !.account = s.account,
                                  !.tenant = s.tenant, !.left = document]
           n == [r EXCEPT !.upload = requests + 1]
<1>1. /\ PortalTypeOK /\ UNCHANGED <<now, redeemed, accounts, consents, auditLog, subjects, observed, concerns, revokes>>
      /\ Owned(s, accounts) /\ s.account \in Nat /\ s.tenant \in Tenant
  BY DEF PortalInv, PortalTypeOK, SessionsOK, Resolves, consentVars, scanVars
<1>2. CASE sessions' = sessions \ {s} /\ UNCHANGED <<request, requests>>
  BY <1>1, <1>2, SessionsShrink
<1>3. CASE Arrives(q, r) /\ UNCHANGED sessions
  <2>1. /\ r \in Call /\ r.pc = "check" /\ r.op = op /\ r.account = s.account /\ r.tenant = s.tenant
    BY <1>1, NoRequestIs DEF Call
  <2> HIDE DEF r
  <2>2. /\ request' = [request EXCEPT ![q] = n] /\ requests' \in Nat /\ n \in Call
        /\ n.pc = "check" /\ n.op = op /\ n.account = s.account /\ n.tenant = s.tenant
    BY <1>1, <1>3, <2>1, ArrivesIs
  <2> HIDE DEF n
  <2>3. PortalTypeOK'
    BY <1>1, <1>3, <2>2 DEF PortalTypeOK
  <2>4. RequestOK(n, accounts, consents, observed, subjects')
    BY <1>1, <2>2 DEF RequestOK, Owned
  <2> QED BY <1>1, <1>3, <2>2, <2>3, <2>4, QuietStep DEF PortalInv, SessionsOK
<1> QED BY <1>2, <1>3 DEF Resolves

(* A request moves on, with the same account, tenant and observations.     *)
LEMMA MovesIs ==
  ASSUME PortalTypeOK, NEW q \in Request, NEW pc \in {"object", "evidence", "audit"}
  PROVE  LET r == request[q]
             n == [r EXCEPT !.pc = pc]
         IN  /\ n \in Call /\ n.pc = pc /\ n.op = r.op /\ n.account = r.account /\ n.tenant = r.tenant
             /\ n.left = r.left /\ n.evidence = r.evidence /\ n.upload = r.upload
<1>1. request[q] \in Call
  BY DEF PortalTypeOK
<1> QED BY <1>1 DEF Call

LEMMA ConsentsStepOK ==
  ASSUME PortalInv, NEW q \in Request, Consents(q)
  PROVE  PortalInv'
<1> DEFINE r   == request[q]
           n   == [r EXCEPT !.pc = "audit"]
           new == [tenant |-> r.tenant, account |-> r.account, revoked |-> FALSE]
<1>1. /\ PortalTypeOK /\ r \in Call /\ r.pc = "check" /\ request \in [Request -> Call]
      /\ RequestOK(r, accounts, consents, observed, subjects) /\ RequestsOK
      /\ consents \in Seq(Consent) /\ consents' = Append(consents, new)
      /\ request' = [request EXCEPT ![q] = n]
      /\ UNCHANGED <<now, redeemed, accounts, sessions, auditLog, subjects, observed, concerns, requests, revokes>>
  BY DEF PortalInv, PortalTypeOK, RequestsOK, Consents, At, GoesTo, identityVars, scanVars
<1>2. /\ n \in Call /\ n.pc = "audit" /\ n.op = r.op /\ n.account = r.account /\ n.tenant = r.tenant
  BY <1>1, MovesIs
<1>3. r.op \notin {"none", "login"} /\ Owned(r, accounts)
  BY <1>1 DEF RequestOK
<1>4. r.tenant \in Tenant /\ r.account \in Nat
  <2>1. accounts[r.account] \in Account
    BY <1>1, <1>3 DEF Owned, PortalTypeOK
  <2> QED BY <1>1, <1>3, <2>1 DEF Owned, Account, Call
<1> HIDE DEF n, r
<1>5. new \in Consent /\ Owned(new, accounts)
  BY <1>3, <1>4 DEF Consent, Owned
<1> HIDE DEF new
<1>6. /\ consents' \in Seq(Consent) /\ DOMAIN consents' = DOMAIN consents \cup {Len(consents) + 1}
      /\ \A j \in DOMAIN consents : consents'[j] = consents[j]
      /\ consents'[Len(consents) + 1] = new
  BY <1>1, <1>5, AppendIs
<1>7. PortalTypeOK'
  BY <1>1, <1>2, <1>6 DEF PortalTypeOK
<1>8. Grows
  BY <1>1, <1>6 DEF Grows
<1>9. RequestsOK'
  <2>1. RequestOK(n, accounts', consents', observed', subjects')
    BY <1>1, <1>2, <1>3 DEF RequestOK, Owned
  <2> QED BY <1>1, <1>8, <2>1, RequestsStep
<1>10. SessionsOK /\ ConsentsOK /\ ObservedOK /\ ConcernsOK /\ InvitesOK
  BY DEF PortalInv
<1>11. ConsentsOK'
  BY <1>1, <1>5, <1>6, <1>10 DEF ConsentsOK
<1>12. SessionsOK' /\ ObservedOK' /\ ConcernsOK' /\ InvitesOK'
  BY <1>1, <1>8, <1>10, RecordsStep DEF SessionsOK, ObservedOK, ConcernsOK, InvitesOK
<1> QED BY <1>7, <1>9, <1>11, <1>12 DEF PortalInv

(* A withdrawn consent is still a record of who gave it.                   *)
LEMMA RevokesOK ==
  ASSUME PortalInv, NEW t \in Tenant, Revokes(t)
  PROVE  PortalInv'
<1>1. /\ PortalTypeOK /\ consents \in Seq(Consent)
      /\ consents' = [i \in DOMAIN consents |->
                        [consents[i] EXCEPT !.revoked = @ \/ consents[i].tenant = t]]
      /\ UNCHANGED <<now, redeemed, accounts, sessions, auditLog, subjects, observed, concerns, request, requests>>
      /\ revokes' \in Nat
  BY DEF PortalInv, PortalTypeOK, Revokes, identityVars, scanVars
<1>2. \A i \in DOMAIN consents : /\ consents'[i] \in Consent /\ consents'[i].tenant = consents[i].tenant
                                 /\ consents'[i].account = consents[i].account
  <2> SUFFICES ASSUME NEW i \in DOMAIN consents
               PROVE  /\ consents'[i] \in Consent /\ consents'[i].tenant = consents[i].tenant
                      /\ consents'[i].account = consents[i].account
    OBVIOUS
  <2> DEFINE c == consents[i]
             v == c.revoked \/ c.tenant = t
  <2>1. c \in Consent /\ consents'[i] = [c EXCEPT !.revoked = v] /\ v \in BOOLEAN
    BY <1>1
  <2> HIDE DEF c, v
  <2>2. [c EXCEPT !.revoked = v] \in Consent /\ [c EXCEPT !.revoked = v].tenant = c.tenant
        /\ [c EXCEPT !.revoked = v].account = c.account
    BY <2>1 DEF Consent
  <2> QED BY <2>1, <2>2 DEF c
<1>3. DOMAIN consents' = DOMAIN consents /\ consents' \in Seq(Consent)
  <2>1. DOMAIN consents = 1 .. Len(consents) /\ Len(consents) \in Nat
    BY <1>1
  <2>2. DOMAIN consents' = 1 .. Len(consents) /\ consents' \in [1 .. Len(consents) -> Consent]
    BY <1>1, <1>2, <2>1
  <2> QED BY <2>1, <2>2
<1>4. PortalTypeOK'
  BY <1>1, <1>3 DEF PortalTypeOK
<1>5. Grows
  BY <1>1, <1>2, <1>3 DEF Grows
<1>6. RequestsOK'
  <2>1. \A q \in Request : RequestOK(request[q], accounts, consents, observed, subjects)
    BY DEF PortalInv, RequestsOK
  <2>2. \A q \in Request : RequestOK(request[q], accounts', consents', observed', subjects')
    BY <1>5, <2>1, RequestKept
  <2> QED BY <1>1, <2>2 DEF RequestsOK
<1>7. SessionsOK /\ ConsentsOK /\ ObservedOK /\ ConcernsOK /\ InvitesOK
  BY DEF PortalInv
<1>8. ConsentsOK'
  BY <1>1, <1>2, <1>3, <1>7 DEF ConsentsOK, Owned
<1>9. SessionsOK' /\ ObservedOK' /\ ConcernsOK' /\ InvitesOK'
  BY <1>1, <1>5, <1>7, RecordsStep DEF SessionsOK, ObservedOK, ConcernsOK, InvitesOK
<1> QED BY <1>4, <1>6, <1>8, <1>9 DEF PortalInv

LEMMA AnswersOK ==
  ASSUME PortalInv, NEW q \in Request, Answers(q), auditLog' = auditLog,
         UNCHANGED <<now, redeemed, accounts, sessions, consents, subjects, observed, concerns, requests, revokes>>
  PROVE  PortalInv'
<1>1. PortalTypeOK'
  BY NoRequestIs DEF PortalInv, PortalTypeOK, Answers
<1> QED BY <1>1, NoRequestIs, QuietStep DEF PortalInv, SessionsOK, Answers

LEMMA ChecksUploadOK ==
  ASSUME PortalInv, NEW q \in Request, ChecksUpload(q)
  PROVE  PortalInv'
<1> DEFINE r == request[q]
           n == [r EXCEPT !.pc = "object"]
<1>1. /\ PortalTypeOK /\ r \in Call /\ r.pc = "check"
      /\ RequestOK(r, accounts, consents, observed, subjects)
      /\ UNCHANGED <<now, redeemed, accounts, sessions, consents, auditLog, subjects, observed, concerns, requests,
                     revokes>>
  BY DEF PortalInv, PortalTypeOK, RequestsOK, ChecksUpload, At, identityVars, consentVars, scanVars
<1>2. CASE Answers(q)
  BY <1>1, <1>2, AnswersOK
<1>3. CASE Active(r.tenant) /\ r.left # <<>> /\ GoesTo(q, "object")
  <2>1. n \in Call /\ n.pc = "object" /\ n.op = r.op /\ n.account = r.account /\ n.tenant = r.tenant
        /\ n.left = r.left
    BY <1>1, MovesIs
  <2>2. request' = [request EXCEPT ![q] = n]
    BY <1>3 DEF GoesTo
  <2> HIDE DEF n
  <2>3. PortalTypeOK'
    BY <1>1, <2>1, <2>2 DEF PortalTypeOK
  <2>4. HasConsented(r.tenant, consents)
    BY <1>3 DEF Active, HasConsented
  <2>5. RequestOK(n, accounts, consents, observed, subjects')
    BY <1>1, <1>3, <2>1, <2>4 DEF RequestOK, Owned
  <2> QED BY <1>1, <2>2, <2>3, <2>5, QuietStep DEF PortalInv, SessionsOK
<1> QED BY <1>2, <1>3 DEF ChecksUpload

\* The observation that an upload is at
LEMMA ObservationIs ==
  ASSUME PortalInv, NEW q \in Request, request[q].pc \in {"object", "evidence", "finding"}
  PROVE  LET r == request[q]
             o == Observation(q)
         IN  /\ r \in Call /\ RequestOK(r, accounts, consents, observed, subjects)
             /\ o = Head(r.left) /\ o \in Posture /\ o.subject \in Subjects /\ o.check \in Checks
             /\ r.tenant \in Tenant /\ r.left # <<>> /\ HasConsented(r.tenant, consents)
             /\ r.op \notin {"none", "login"} /\ Owned(r, accounts)
<1> DEFINE r == request[q]
<1>1. r \in Call /\ RequestOK(r, accounts, consents, observed, subjects) /\ accounts \in Seq(Account)
  BY DEF PortalInv, PortalTypeOK, RequestsOK
<1>2. /\ r.left # <<>> /\ HasConsented(r.tenant, consents) /\ Owned(r, accounts)
      /\ r.op \notin {"none", "login"}
  BY <1>1 DEF RequestOK
<1>3. r.tenant \in Tenant
  <2>1. accounts[r.account] \in Account
    BY <1>1, <1>2 DEF Owned
  <2> QED BY <1>2, <2>1 DEF Owned, Account
<1>4. Observation(q) = Head(r.left)
  BY DEF Observation
<1>5. Head(r.left) \in Posture
  BY <1>1, <1>2 DEF Call
<1> HIDE DEF r
<1> QED BY <1>1, <1>2, <1>3, <1>4, <1>5 DEF Subjects, Checks, r

LEMMA UpsertsSubjectOK ==
  ASSUME PortalInv, NEW q \in Request, UpsertsSubject(q)
  PROVE  PortalInv'
<1> DEFINE r == request[q]
           o == Observation(q)
           n == [r EXCEPT !.pc = "evidence"]
<1>1. /\ PortalTypeOK /\ r.pc = "object" /\ request' = [request EXCEPT ![q] = n]
      /\ subjects' = subjects \cup {[tenant |-> r.tenant, subject |-> o.subject]}
      /\ UNCHANGED <<now, redeemed, accounts, sessions, consents, auditLog, observed, concerns, requests, revokes>>
  BY DEF PortalInv, UpsertsSubject, At, GoesTo, identityVars, consentVars
<1>2. /\ r \in Call /\ RequestOK(r, accounts, consents, observed, subjects)
      /\ o = Head(r.left) /\ o.subject \in Subjects /\ r.tenant \in Tenant
  BY <1>1, ObservationIs
<1>3. n \in Call /\ n.pc = "evidence" /\ n.op = r.op /\ n.account = r.account /\ n.tenant = r.tenant
      /\ n.left = r.left
  BY <1>1, MovesIs
<1> HIDE DEF n, o
<1>4. PortalTypeOK'
  <2>1. subjects' \in SUBSET [tenant : Tenant, subject : Subjects]
    BY <1>1, <1>2 DEF PortalTypeOK
  <2> QED BY <1>1, <1>3, <2>1 DEF PortalTypeOK
<1>5. RequestOK(n, accounts, consents, observed, subjects')
  BY <1>1, <1>2, <1>3 DEF RequestOK, Owned
<1> QED BY <1>1, <1>4, <1>5, QuietStep DEF PortalInv, SessionsOK

LEMMA AddsEvidenceOK ==
  ASSUME PortalInv, NEW q \in Request, AddsEvidence(q)
  PROVE  PortalInv'
<1> DEFINE r   == request[q]
           o   == Observation(q)
           new == [tenant |-> r.tenant, account |-> r.account, upload |-> r.upload,
                   subject |-> o.subject, check |-> o.check]
           n   == [r EXCEPT !.pc = "finding", !.evidence = Len(observed) + 1]
<1>1. /\ PortalTypeOK /\ r.pc = "evidence" /\ observed \in Seq(Proof) /\ observed' = Append(observed, new)
      /\ request \in [Request -> Call] /\ RequestsOK /\ request' = [request EXCEPT ![q] = n]
      /\ UNCHANGED <<now, redeemed, accounts, sessions, consents, auditLog, subjects, concerns, requests, revokes>>
  BY DEF PortalInv, PortalTypeOK, AddsEvidence, At, identityVars, consentVars
<1>2. /\ r \in Call /\ RequestOK(r, accounts, consents, observed, subjects)
      /\ o = Head(r.left) /\ o.subject \in Subjects /\ o.check \in Checks /\ r.tenant \in Tenant
      /\ Owned(r, accounts) /\ HasConsented(r.tenant, consents)
  BY <1>1, ObservationIs
<1>3. /\ new \in Proof /\ new.tenant = r.tenant /\ new.account = r.account
      /\ new.subject = o.subject /\ new.check = o.check
  BY <1>2 DEF Call, Proof
<1> HIDE DEF new, o
<1>4. /\ observed' \in Seq(Proof) /\ DOMAIN observed' = DOMAIN observed \cup {Len(observed) + 1}
      /\ \A i \in DOMAIN observed : observed'[i] = observed[i]
      /\ observed'[Len(observed) + 1] = new /\ Len(observed) + 1 \in Nat
  BY <1>1, <1>3, AppendIs
<1>5. n \in Call /\ n.pc = "finding" /\ n.op = r.op /\ n.account = r.account /\ n.tenant = r.tenant
      /\ n.left = r.left /\ n.evidence = Len(observed) + 1
  BY <1>2, <1>4 DEF Call
<1> HIDE DEF n, r
<1>6. PortalTypeOK'
  BY <1>1, <1>4, <1>5 DEF PortalTypeOK
<1>7. Grows
  BY <1>1, <1>4 DEF Grows
<1>8. RequestsOK'
  <2>1. Backs(n.evidence, n.tenant, o.subject, o.check, observed')
    BY <1>3, <1>4, <1>5 DEF Backs
  <2>2. RequestOK(n, accounts', consents', observed', subjects')
    BY <1>1, <1>2, <1>5, <2>1 DEF RequestOK, Owned
  <2> QED BY <1>1, <1>7, <2>2, RequestsStep
<1>9. SessionsOK /\ ConsentsOK /\ ObservedOK /\ ConcernsOK /\ InvitesOK
  BY DEF PortalInv
<1>10. ObservedOK'
  <2>1. Owned(new, accounts) /\ HasConsented(new.tenant, consents)
    BY <1>2, <1>3 DEF Owned
  <2> QED BY <1>1, <1>4, <1>9, <2>1 DEF ObservedOK
<1>11. ConcernsOK'
  <2>1. \A f \in concerns : /\ [tenant |-> f.tenant, subject |-> f.subject] \in subjects'
                            /\ \A i \in f.evidence : Backs(i, f.tenant, f.subject, f.check, observed')
    BY <1>1, <1>7, <1>9, RecordsStep
  <2> QED BY <1>1, <2>1 DEF ConcernsOK
<1>12. SessionsOK' /\ ConsentsOK' /\ InvitesOK'
  BY <1>1, <1>9 DEF SessionsOK, ConsentsOK, InvitesOK
<1> QED BY <1>6, <1>8, <1>10, <1>11, <1>12 DEF PortalInv

LEMMA RaisesFindingOK ==
  ASSUME PortalInv, NEW q \in Request, RaisesFinding(q)
  PROVE  PortalInv'
<1> DEFINE r    == request[q]
           t    == r.tenant
           o    == Observation(q)
           old  == {f \in concerns : SameConcern(f, t, o)}
           base == IF old = {} THEN [tenant |-> t, subject |-> o.subject, check |-> o.check, evidence |-> {}]
                   ELSE CHOOSE f \in old : TRUE
           new  == [base EXCEPT !.evidence = @ \cup {r.evidence}]
           pc   == IF Len(r.left) > 1 THEN "object" ELSE "audit"
           n    == [r EXCEPT !.left = Tail(@), !.pc = pc]
<1>1. /\ PortalTypeOK /\ r.pc = "finding" /\ concerns \in SUBSET Concern
      /\ concerns' = (concerns \ old) \cup {new} /\ request \in [Request -> Call]
      /\ UNCHANGED <<now, redeemed, accounts, sessions, consents, auditLog, subjects, observed, requests, revokes>>
  BY DEF PortalInv, PortalTypeOK, RaisesFinding, At, identityVars, consentVars
<1>2. request' = [request EXCEPT ![q] = n]
  BY <1>1 DEF RaisesFinding
<1>3. /\ r \in Call /\ RequestOK(r, accounts, consents, observed, subjects)
      /\ o = Head(r.left) /\ o.subject \in Subjects /\ o.check \in Checks /\ t \in Tenant /\ r.left # <<>>
      /\ HasConsented(t, consents) /\ Owned(r, accounts) /\ r.op \notin {"none", "login"}
  BY <1>1, ObservationIs
<1>4. /\ [tenant |-> t, subject |-> o.subject] \in subjects
      /\ Backs(r.evidence, t, o.subject, o.check, observed) /\ r.evidence \in Nat
  BY <1>1, <1>3 DEF RequestOK, Call
<1>5. \/ old # {} /\ base \in old
      \/ base = [tenant |-> t, subject |-> o.subject, check |-> o.check, evidence |-> {}]
  OBVIOUS
<1> HIDE DEF o, t
<1>6. /\ base \in Concern /\ base.tenant = t /\ base.subject = o.subject /\ base.check = o.check
      /\ \A i \in base.evidence : Backs(i, t, o.subject, o.check, observed)
  <2>1. CASE base \in old
    <3> HIDE DEF base
    <3>1. base \in concerns /\ base \in Concern /\ base.tenant = t /\ base.subject = o.subject /\ base.check = o.check
      BY <1>1, <2>1 DEF SameConcern
    <3> QED BY <3>1 DEF PortalInv, ConcernsOK
  <2>2. CASE base = [tenant |-> t, subject |-> o.subject, check |-> o.check, evidence |-> {}]
    <3> HIDE DEF base
    <3> QED BY <1>3, <2>2 DEF Concern
  <2> QED BY <1>5, <2>1, <2>2
<1> HIDE DEF base
<1>7. /\ new \in Concern /\ new.tenant = t /\ new.subject = o.subject /\ new.check = o.check
      /\ new.evidence = base.evidence \cup {r.evidence}
  BY <1>4, <1>6 DEF Concern
<1> HIDE DEF new
<1>8. Tail(r.left) \in Seq(Posture) /\ Len(Tail(r.left)) = Len(r.left) - 1 /\ Len(r.left) \in Nat
  BY <1>3 DEF Call
<1>9. /\ n \in Call /\ n.pc = pc /\ n.left = Tail(r.left) /\ n.op = r.op /\ n.account = r.account
      /\ n.tenant = r.tenant
  BY <1>3, <1>8 DEF Call
<1> HIDE DEF n
<1>10. PortalTypeOK'
  <2>1. concerns' \in SUBSET Concern
    BY <1>1, <1>7
  <2>2. request' \in [Request -> Call]
    BY <1>1, <1>2, <1>9
  <2> QED BY <1>1, <2>1, <2>2 DEF PortalTypeOK
<1>11. RequestsOK'
  <2>1. pc = "object" => Tail(r.left) # <<>>
    <3> DEFINE tail == Tail(r.left)
    <3>1. pc = "object" => Len(tail) > 0
      BY <1>8
    <3> HIDE DEF tail, pc
    <3>2. tail = <<>> => Len(tail) = 0
      OBVIOUS
    <3>3. pc = "object" => tail # <<>>
      BY <3>1, <3>2
    <3> QED BY <3>3 DEF tail
  <2>2. RequestOK(n, accounts', consents', observed', subjects')
    BY <1>1, <1>3, <1>9, <2>1 DEF RequestOK, Owned, t
  <2>3. Grows /\ RequestsOK
    BY <1>1 DEF Grows, PortalInv
  <2> QED BY <1>1, <1>2, <2>2, <2>3, RequestsStep
<1>12. ConcernsOK'
  <2>1. ConcernsOK
    BY DEF PortalInv
  <2>2. \A i \in new.evidence : Backs(i, new.tenant, new.subject, new.check, observed)
    BY <1>4, <1>6, <1>7
  <2>3. [tenant |-> new.tenant, subject |-> new.subject] \in subjects
    BY <1>4, <1>7
  <2> HIDE DEF old
  <2> QED BY <1>1, <2>1, <2>2, <2>3 DEF ConcernsOK
<1>13. SessionsOK' /\ ConsentsOK' /\ ObservedOK' /\ InvitesOK'
  BY <1>1 DEF PortalInv, SessionsOK, ConsentsOK, ObservedOK, InvitesOK
<1> QED BY <1>10, <1>11, <1>12, <1>13 DEF PortalInv

LEMMA AuditsOK ==
  ASSUME PortalInv, NEW q \in Request, Audits(q)
  PROVE  PortalInv'
<1> DEFINE r     == request[q]
           entry == [tenant |-> r.tenant, account |-> r.account, upload |-> r.upload,
                     action |-> IF r.op = "upload" THEN "scan_ingested" ELSE "consent_granted"]
<1>1. /\ PortalTypeOK /\ r \in Call /\ r.pc = "audit" /\ Answers(q)
      /\ RequestOK(r, accounts, consents, observed, subjects)
      /\ auditLog' = Append(auditLog, entry) /\ accounts \in Seq(Account)
      /\ UNCHANGED <<now, redeemed, accounts, sessions, consents, subjects, observed, concerns, requests, revokes>>
  BY DEF PortalInv, PortalTypeOK, RequestsOK, Audits, identityVars, scanVars
<1>2. r.tenant \in Tenant
  <2>1. r.account \in DOMAIN accounts /\ r.tenant = accounts[r.account].tenant
    BY <1>1 DEF RequestOK, Owned
  <2>2. accounts[r.account] \in Account
    BY <1>1, <2>1
  <2> QED BY <2>1, <2>2 DEF Account
<1>3. entry \in [tenant : Tenant, account : Nat, upload : Nat, action : {"consent_granted", "scan_ingested"}]
  BY <1>1, <1>2 DEF Call
<1> HIDE DEF entry
<1>4. PortalTypeOK'
  BY <1>1, <1>3, NoRequestIs DEF PortalTypeOK, Answers
<1> QED BY <1>1, <1>4, NoRequestIs, QuietStep DEF PortalInv, SessionsOK, Answers

-----------------------------------------------------------------------------
LEMMA PortalStep == PortalInv /\ [PortalNext]_portalVars => PortalInv'
<1> SUFFICES ASSUME PortalInv, [PortalNext]_portalVars PROVE PortalInv'
  OBVIOUS
<1>1. ASSUME NEW q \in Request, NEW t \in DOMAIN Invites, NEW email \in Email, Redeems(q, t, email)
      PROVE  PortalInv'
  BY <1>1, RedeemsOK
<1>2. ASSUME NEW q \in Request, NEW a \in DOMAIN accounts, LogsIn(q, a) PROVE PortalInv'
  BY <1>2, LogsInOK
<1>3. ASSUME NEW q \in Request, NEW reap \in BOOLEAN, StartsSession(q, reap) PROVE PortalInv'
  BY <1>3, StartsSessionOK
<1>4. ASSUME NEW q \in Request, NEW s \in sessions, Resolves(q, "consent", s, <<>>) PROVE PortalInv'
  <2>1. <<>> \in Seq(Posture)
    OBVIOUS
  <2> QED BY <1>4, <2>1, ResolvesOK
<1>5. ASSUME NEW q \in Request, NEW s \in sessions, NEW d \in Documents, Resolves(q, "upload", s, d)
      PROVE  PortalInv'
  <2>1. d \in Seq({d[n] : n \in DOMAIN d})
    BY PortalAssumption
  <2>2. {d[n] : n \in DOMAIN d} \subseteq Posture
    BY Zenon DEF Posture
  <2>3. d \in Seq(Posture)
    <3> DEFINE S == {d[n] : n \in DOMAIN d}
    <3> HIDE DEF S
    <3> SUFFICES ASSUME d \in Seq(S), S \subseteq Posture PROVE d \in Seq(Posture)
      BY <2>1, <2>2 DEF S
    <3> QED OBVIOUS
  <2> QED BY <1>5, <2>3, ResolvesOK
<1>6. ASSUME NEW q \in Request, Consents(q) PROVE PortalInv'
  BY <1>6, ConsentsStepOK
<1>7. ASSUME NEW q \in Request, ChecksUpload(q) PROVE PortalInv'
  BY <1>7, ChecksUploadOK
<1>8. ASSUME NEW q \in Request, UpsertsSubject(q) PROVE PortalInv'
  BY <1>8, UpsertsSubjectOK
<1>9. ASSUME NEW q \in Request, AddsEvidence(q) PROVE PortalInv'
  BY <1>9, AddsEvidenceOK
<1>10. ASSUME NEW q \in Request, RaisesFinding(q) PROVE PortalInv'
  BY <1>10, RaisesFindingOK
<1>11. ASSUME NEW q \in Request, Audits(q) PROVE PortalInv'
  BY <1>11, AuditsOK
<1>12. ASSUME NEW q \in Request, PortalInterrupt(q) PROVE PortalInv'
  BY <1>12, AnswersOK DEF PortalInterrupt, identityVars, consentVars, scanVars
<1>13. ASSUME NEW s \in sessions, LogsOut(s) PROVE PortalInv'
  BY <1>13, SessionsShrink DEF LogsOut, consentVars, scanVars
<1>14. ASSUME NEW t \in Tenant, Revokes(t) PROVE PortalInv'
  BY <1>14, RevokesOK
<1>15. CASE Passes
  <2>1. PortalTypeOK' /\ UNCHANGED <<redeemed, accounts, sessions, consents, subjects, observed, concerns, request>>
    BY <1>15 DEF Passes, PortalInv, PortalTypeOK, identityVars, consentVars, scanVars
  <2> QED BY <2>1 DEF PortalInv, InvitesOK, SessionsOK, ConsentsOK, ObservedOK, ConcernsOK, RequestsOK
<1>16. CASE UNCHANGED portalVars
  BY <1>16 DEF portalVars, identityVars, consentVars, scanVars, PortalInv, PortalTypeOK, InvitesOK, SessionsOK,
               ConsentsOK, ObservedOK, ConcernsOK, RequestsOK
<1> QED BY <1>1, <1>2, <1>3, <1>4, <1>5, <1>6, <1>7, <1>8, <1>9, <1>10, <1>11, <1>12, <1>13, <1>14, <1>15, <1>16
        DEF PortalNext

(* The first customers have accounts, sessions and consents of their own.  *)
LEMMA PortalStart == PortalInit => PortalInv
<1> SUFFICES ASSUME PortalInit PROVE PortalInv
  OBVIOUS
<1>1. PICK n \in 0 .. Len(Invites) :
        /\ accounts \in Joined(n)
        /\ redeemed = [t \in DOMAIN Invites |-> IF t <= n THEN t ELSE 0]
        /\ sessions = {[account |-> a, tenant |-> Invites[a].tenant, expires |-> SessionTtl, id |-> 0] :
                         a \in 1 .. n}
        /\ consents = [a \in 1 .. n |-> [tenant |-> Invites[a].tenant, account |-> a, revoked |-> FALSE]]
        /\ auditLog = [a \in 1 .. n |-> [tenant |-> Invites[a].tenant, account |-> a, upload |-> 0,
                                         action |-> "consent_granted"]]
  BY DEF PortalInit
<1>2. Len(Invites) \in Nat /\ DOMAIN Invites = 1 .. Len(Invites) /\ n \in Nat /\ SessionTtl \in Nat
  BY PortalAssumption
<1>3. 1 .. n \subseteq DOMAIN Invites /\ \A a \in 1 .. n : Invites[a].tenant \in Tenant /\ a \in Nat /\ a # 0
  BY <1>2, InviteIs
<1>4. /\ accounts \in [1 .. n -> Account] /\ accounts \in Seq(Account) /\ DOMAIN accounts = 1 .. n
      /\ \A a \in 1 .. n : accounts[a].tenant = Invites[a].tenant
      /\ \A a, b \in 1 .. n : accounts[a].email = accounts[b].email => a = b
  <2>1. /\ accounts \in [1 .. n -> Account]
        /\ \A a \in 1 .. n : accounts[a].tenant = Invites[a].tenant
        /\ \A a, b \in 1 .. n : accounts[a].email = accounts[b].email => a = b
    BY <1>1 DEF Joined, Account
  <2> QED BY <1>2, <2>1
<1>5. /\ observed = <<>> /\ concerns = {} /\ subjects = {} /\ now = 0 /\ requests = 0 /\ revokes = 0
      /\ request = [q \in Request |-> NoRequest]
  BY DEF PortalInit
<1>6. PortalTypeOK
  <2>1. redeemed \in [DOMAIN Invites -> Nat]
    BY <1>1, <1>2
  <2>2. sessions \in SUBSET [account : Nat, tenant : Tenant, expires : Nat, id : Nat]
    BY <1>1, <1>2, <1>3
  <2>3. consents \in Seq(Consent)
    <3>1. consents \in [1 .. n -> Consent]
      BY <1>1, <1>3 DEF Consent
    <3> QED BY <1>2, <3>1
  <2>4. auditLog \in Seq([tenant : Tenant, account : Nat, upload : Nat,
                          action : {"consent_granted", "scan_ingested"}])
    <3> DEFINE AuditEntry == [tenant : Tenant, account : Nat, upload : Nat,
                         action : {"consent_granted", "scan_ingested"}]
    <3>1. auditLog \in [1 .. n -> AuditEntry]
      BY <1>1, <1>3
    <3> HIDE DEF AuditEntry
    <3>2. auditLog \in Seq(AuditEntry)
      BY <1>2, <3>1
    <3> QED BY <3>2 DEF AuditEntry
  <2>5. observed \in Seq(Proof) /\ request \in [Request -> Call]
    BY <1>5, NoRequestIs
  <2> QED BY <1>4, <1>5, <2>1, <2>2, <2>3, <2>4, <2>5 DEF PortalTypeOK
<1>7. InvitesOK
  <2>1. \A t \in DOMAIN Invites : /\ t \in 1 .. n => redeemed[t] = t
                                  /\ t \notin 1 .. n => redeemed[t] = 0
    BY <1>1, <1>2
  <2> QED BY <1>2, <1>3, <1>4, <2>1 DEF InvitesOK
<1>8. SessionsOK
  BY <1>1, <1>4 DEF SessionsOK, Owned
<1>9. ConsentsOK
  BY <1>1, <1>4 DEF ConsentsOK, Owned
<1>10. ObservedOK /\ ConcernsOK /\ RequestsOK
  BY <1>5, NoRequestIs DEF ObservedOK, ConcernsOK, RequestsOK
<1> QED BY <1>6, <1>7, <1>8, <1>9, <1>10 DEF PortalInv

(* Every state satisfies the invariant of the portal.                      *)
THEOREM PortalInductive == PortalSpec => []PortalInv
BY PortalStart, PortalStep, PTL DEF PortalSpec

(* What a tenant holds came through an account that redeemed an invite of  *)
(* that tenant, and a finding, its evidence and its subject are of one     *)
(* tenant, however requests overlap (portal/app.py, portal/ingest.py).     *)
THEOREM TenantsHoldTheirOwnTheorem == PortalSpec => []TenantsHoldTheirOwn
<1>1. PortalInv => TenantsHoldTheirOwn
  <2> SUFFICES ASSUME PortalInv PROVE TenantsHoldTheirOwn
    OBVIOUS
  <2>1. ASSUME NEW i \in DOMAIN observed
        PROVE  \E t \in DOMAIN Invites : /\ redeemed[t] = observed[i].account
                                         /\ Invites[t].tenant = observed[i].tenant
    <3>1. Owned(observed[i], accounts)
      BY DEF PortalInv, ObservedOK
    <3>2. PICK t \in DOMAIN Invites : redeemed[t] = observed[i].account
      BY <3>1 DEF PortalInv, InvitesOK, Owned
    <3>3. redeemed[t] # 0
      BY <3>1, <3>2 DEF PortalInv, PortalTypeOK, Owned
    <3> QED BY <3>1, <3>2, <3>3 DEF PortalInv, InvitesOK, Owned
  <2>2. \A f \in concerns :
          /\ [tenant |-> f.tenant, subject |-> f.subject] \in subjects
          /\ \A i \in f.evidence : /\ observed[i].tenant = f.tenant
                                   /\ observed[i].subject = f.subject
                                   /\ observed[i].check = f.check
    BY DEF PortalInv, ConcernsOK, Backs
  <2> QED BY <2>1, <2>2 DEF TenantsHoldTheirOwn
<1> QED BY <1>1, PortalInductive, PTL

(* Whatever an upload has stored, an account of the tenant had consented   *)
(* before, also when the consent is withdrawn while the upload runs.       *)
THEOREM WritesWereConsentedTheorem == PortalSpec => []WritesWereConsented
<1>1. PortalInv => WritesWereConsented
  BY DEF PortalInv, ObservedOK, ConsentsOK, HasConsented, Owned, WritesWereConsented
<1> QED BY <1>1, PortalInductive, PTL

(* An invite makes one account and an account comes from one invite, when  *)
(* requests race for it or a registration is cut off (portal/app.py).      *)
THEOREM OneAccountPerInviteTheorem == PortalSpec => []OneAccountPerInvite
<1>1. PortalInv => OneAccountPerInvite
  <2> SUFFICES ASSUME PortalInv, NEW a \in DOMAIN accounts
               PROVE  /\ Cardinality({t \in DOMAIN Invites : redeemed[t] = a}) = 1
                      /\ \A b \in DOMAIN accounts : accounts[a].email = accounts[b].email => a = b
    BY DEF OneAccountPerInvite
  <2>1. InvitesOK /\ a # 0
    BY DEF PortalInv, PortalTypeOK
  <2>2. PICK t \in DOMAIN Invites : redeemed[t] = a
    BY <2>1 DEF InvitesOK
  <2>3. {u \in DOMAIN Invites : redeemed[u] = a} = {t}
    BY <2>1, <2>2 DEF InvitesOK
  <2>4. Cardinality({t}) = 1
    BY FS_Singleton
  <2> QED BY <2>1, <2>3, <2>4 DEF InvitesOK
<1> QED BY <1>1, PortalInductive, PTL
=============================================================================
