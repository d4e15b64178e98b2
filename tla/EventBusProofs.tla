---------------------------- MODULE EventBusProofs ----------------------------
(***************************************************************************)
(* The bus in memory, for any publishers, events, subscriptions that come  *)
(* and go and handlers that fail: what an event was dispatched to is       *)
(* settled or still awaited, by every broadcast and one member of each     *)
(* group, and a publisher awaits its last event only.                      *)
(***************************************************************************)
EXTENDS EventBus, FiniteSetTheorems, SequenceTheorems, WellFoundedInduction, TLAPS

\* A publisher still has to hand event e to subscription s.
Awaits(s, e) == \E p \in Publisher : Serving(p) /\ call[p].event = e /\ s \in ToSet(call[p].targets)
Chosen(s, e) == Settled(s.id, e) \/ Awaits(s, e)

Known == subs \cup UNION {due[e] : e \in DOMAIN due}

SubsOK == IsFiniteSet(subs) /\ \A s \in Known : s.id <= counter

\* Every broadcast, and exactly one member of each group.
Covered(e) ==
  \A s \in due[e] : IF s.group = None THEN Chosen(s, e)
                    ELSE \E t \in due[e] : t.group = s.group /\ Chosen(t, e)
OneOfEach(e) ==
  \A s, t \in due[e] : s.group = t.group /\ s.group # None /\ Chosen(s, e) /\ Chosen(t, e) => s = t

DispatchOK ==
  /\ Len(due) = Len(log)
  /\ \A e \in DOMAIN due : Covered(e) /\ OneOfEach(e)
  /\ \A s \in SubId, e \in Nat : Settled(s, e) => e \in DOMAIN log
  /\ \A s \in SubId : IsInjective(got[s])

\* What publisher p is serving is the last event it has published.
CallOK(p) == LET c == call[p] IN
  /\ calls[p] = c.attempt /\ c.attempt < MaxAttempts
  /\ ~ Serving(p) => c.attempt = 0
  /\ Serving(p) =>
       /\ c.event \in DOMAIN log /\ log[c.event].by = p
       /\ \A e \in DOMAIN log : log[e].by = p => e <= c.event
       /\ ToSet(c.targets) \subseteq due[c.event] /\ IsInjective(c.targets)
       /\ \A s \in ToSet(c.targets) : ~ Settled(s.id, c.event)

\* The events of a publisher are numbered in the order of the log, before
\* those it has still to publish.
NumbersOK ==
  /\ \A i, j \in DOMAIN log : i < j /\ log[i].by = log[j].by => log[i].nth < log[j].nth
  /\ \A i \in DOMAIN log : log[i].nth <= published[log[i].by]
  /\ \A p \in Publisher : \A k \in DOMAIN call[p].todo :
       /\ call[p].todo[k].by = p /\ call[p].todo[k].nth <= published[p]
       /\ \A l \in DOMAIN call[p].todo : k < l => call[p].todo[k].nth < call[p].todo[l].nth
       /\ \A i \in DOMAIN log : log[i].by = p => log[i].nth < call[p].todo[k].nth

IInv ==
  /\ TypeOK /\ SubsOK /\ DispatchOK /\ NumbersOK
  /\ \A p \in Publisher : CallOK(p)
  /\ \A k \in DOMAIN dlq : dlq[k].calls = MaxAttempts /\ ~ Handled(dlq[k].sub, dlq[k].event)
  /\ PublisherOrder

-----------------------------------------------------------------------------
(* The order of subscription                                                *)
Ids(S)     == \A s \in S : s.id \in Nat
Unique(S)  == \A s, t \in S : s.id = t.id => s = t
Below(S, s) == {t \in S : t.id < s.id}

LEMMA LeastNat ==
  ASSUME NEW N \in SUBSET Nat, N # {}
  PROVE  \E n \in N : \A m \in N : n <= m
<1>1. PICK n \in N : \A m \in N : ~ (<<m, n>> \in OpToRel(<, Nat))
  BY NatLessThanWellFounded, WFMin
<1>2. \A m \in Nat : m < n => <<m, n>> \in OpToRel(<, Nat)
  BY DEF OpToRel
<1>3. \A m \in N : ~ (m < n)
  BY <1>1, <1>2
<1> QED BY <1>3

LEMMA LeastId ==
  ASSUME NEW S, S # {}, Ids(S)
  PROVE  \E s \in S : \A t \in S : s.id <= t.id
<1> DEFINE N == {s.id : s \in S}
<1>1. N \in SUBSET Nat /\ N # {}
  BY DEF Ids
<1>2. PICK n \in N : \A m \in N : n <= m
  <2> HIDE DEF N
  <2> QED BY <1>1, LeastNat
<1> QED BY <1>2

LEMMA BelowFinite ==
  ASSUME NEW S, IsFiniteSet(S), NEW s \in S, Ids(S)
  PROVE  /\ IsFiniteSet(Below(S, s)) /\ Cardinality(Below(S, s)) \in Nat
         /\ Cardinality(Below(S, s)) < Cardinality(S)
<1>1. Below(S, s) \in SUBSET S /\ s \notin Below(S, s)
  BY DEF Below, Ids
<1>2. /\ IsFiniteSet(Below(S, s)) /\ Cardinality(Below(S, s)) \in Nat /\ Cardinality(S) \in Nat
      /\ Cardinality(Below(S, s)) <= Cardinality(S)
      /\ Cardinality(S) = Cardinality(Below(S, s)) => S = Below(S, s)
  BY <1>1, FS_Subset, FS_CardinalityType
<1> QED BY <1>1, <1>2

\* Who subscribed later has more before it.
LEMMA BelowGrows ==
  ASSUME NEW S, IsFiniteSet(S), Ids(S), NEW s \in S, NEW t \in S, s.id < t.id
  PROVE  Cardinality(Below(S, s)) < Cardinality(Below(S, t))
<1>1. IsFiniteSet(Below(S, t)) /\ Cardinality(Below(S, t)) \in Nat
  BY BelowFinite
<1>2. Below(S, s) \in SUBSET Below(S, t) /\ s \in Below(S, t) /\ s \notin Below(S, s)
  BY DEF Below, Ids
<1>3. /\ Cardinality(Below(S, s)) \in Nat /\ Cardinality(Below(S, s)) <= Cardinality(Below(S, t))
      /\ Cardinality(Below(S, t)) = Cardinality(Below(S, s)) => Below(S, t) = Below(S, s)
  BY <1>1, <1>2, FS_Subset, FS_CardinalityType
<1> QED BY <1>1, <1>2, <1>3

\* After the subscription with n before it comes one with n + 1 before it.
LEMMA BelowNext ==
  ASSUME NEW S, IsFiniteSet(S), Ids(S), Unique(S), NEW s \in S,
         Cardinality(Below(S, s)) + 1 < Cardinality(S)
  PROVE  \E t \in S : Cardinality(Below(S, t)) = Cardinality(Below(S, s)) + 1
<1> DEFINE Later == {t \in S : s.id < t.id}
           B     == Below(S, s)
<1>1. IsFiniteSet(B) /\ Cardinality(B) \in Nat /\ s \notin B
  BY BelowFinite DEF Below, Ids
<1>2. IsFiniteSet(B \cup {s}) /\ Cardinality(B \cup {s}) = Cardinality(B) + 1
  BY <1>1, FS_AddElement
<1>3. \A t \in S : t \in B \cup {s} \/ t \in Later
  BY DEF Below, Ids, Unique
<1>4. Later # {}
  <2>1. ASSUME Later = {} PROVE FALSE
    <3>1. S = B \cup {s}
      BY <1>3, <2>1 DEF Below
    <3>2. Cardinality(S) = Cardinality(B) + 1
      BY ONLY <1>2, <3>1, Zenon
    <3> QED BY <1>1, <3>2
  <2> QED BY <2>1
<1>5. PICK t \in Later : \A u \in Later : t.id <= u.id
  BY <1>4, LeastId DEF Ids
<1>6. Below(S, t) = B \cup {s}
  <2>1. ASSUME NEW u \in S, u.id < t.id PROVE u \in B \cup {s}
    BY <1>3, <1>5, <2>1 DEF Ids
  <2>2. ASSUME NEW u \in B \cup {s} PROVE u \in S /\ u.id < t.id
    BY <1>5, <2>2 DEF Below, Ids
  <2> QED BY <2>1, <2>2 DEF Below
<1> QED BY <1>2, <1>5, <1>6

LEMMA NthExists ==
  ASSUME NEW S, IsFiniteSet(S), Ids(S), Unique(S), NEW n \in Nat, n < Cardinality(S)
  PROVE  Nth(S, n) \in S /\ Cardinality(Below(S, Nth(S, n))) = n
<1> DEFINE Has(m) == \E s \in S : Cardinality(Below(S, s)) = m
           Missing == {m \in Nat : m < Cardinality(S) /\ ~ Has(m)}
<1>1. Cardinality(S) \in Nat
  BY FS_CardinalityType
<1>2. Missing = {}
  <2> SUFFICES ASSUME Missing # {} PROVE FALSE
    OBVIOUS
  <2>1. PICK m \in Missing : \A l \in Missing : m <= l
    <3>1. Missing \in SUBSET Nat
      OBVIOUS
    <3> HIDE DEF Missing
    <3> QED BY <3>1, LeastNat
  <2>2. m \in Nat /\ m < Cardinality(S) /\ ~ Has(m)
    OBVIOUS
  <2>3. CASE m = 0
    <3>1. S # {}
      BY <1>1, <2>2, FS_EmptySet
    <3>2. PICK s \in S : \A t \in S : s.id <= t.id
      BY <3>1, LeastId
    <3>3. Below(S, s) = {}
      BY <3>2 DEF Below, Ids
    <3> QED BY <2>2, <2>3, <3>3, FS_EmptySet
  <2>4. CASE m # 0
    <3>1. m - 1 \in Nat /\ m - 1 < Cardinality(S) /\ m - 1 \notin Missing
      BY <1>1, <2>1, <2>2, <2>4
    <3>2. PICK s \in S : Cardinality(Below(S, s)) = m - 1
      BY <3>1
    <3>3. Has(m)
      <4>1. Cardinality(Below(S, s)) + 1 = m
        BY <2>2, <3>2
      <4> QED BY <2>2, <4>1, BelowNext
    <3> QED BY <2>2, <3>3
  <2> QED BY <2>3, <2>4
<1>3. \E s \in S : Cardinality(Below(S, s)) = n
  BY <1>2
<1> QED BY <1>3, Zenon DEF Nth, Below

\* InOrder(S) is all of S, each once.
LEMMA InOrderIs ==
  ASSUME NEW S, IsFiniteSet(S), Ids(S), Unique(S)
  PROVE  /\ InOrder(S) \in Seq(S) /\ Len(InOrder(S)) = Cardinality(S)
         /\ ToSet(InOrder(S)) = S /\ IsInjective(InOrder(S))
<1> DEFINE n == Cardinality(S)
           q == InOrder(S)
<1>1. n \in Nat
  BY FS_CardinalityType
<1>2. \A k \in 1 .. n : Nth(S, k - 1) \in S /\ Cardinality(Below(S, Nth(S, k - 1))) = k - 1
  BY <1>1, NthExists
<1>3. q \in [1 .. n -> S] /\ \A k \in 1 .. n : q[k] = Nth(S, k - 1)
  BY <1>2 DEF InOrder
<1>4. q \in Seq(S) /\ Len(q) = n /\ DOMAIN q = 1 .. n
  BY <1>1, <1>3
<1>5. IsInjective(q)
  <2> SUFFICES ASSUME NEW j \in 1 .. n, NEW k \in 1 .. n, q[j] = q[k] PROVE j = k
    BY <1>4 DEF IsInjective
  <2>1. j - 1 = k - 1
    BY <1>2, <1>3
  <2> QED BY <1>1, <2>1
<1>6. ASSUME NEW s \in S PROVE \E k \in 1 .. n : q[k] = s
  <2> DEFINE m == Cardinality(Below(S, s))
             t == Nth(S, m)
  <2>1. m \in Nat /\ m < n
    BY BelowFinite
  <2>2. t \in S /\ Cardinality(Below(S, t)) = m
    BY <2>1, NthExists
  <2> HIDE DEF t
  <2>3. t = s
    <3>1. ~ (t.id < s.id) /\ ~ (s.id < t.id)
      BY <2>1, <2>2, BelowGrows
    <3> QED BY <2>2, <3>1 DEF Ids, Unique
  <2>4. m + 1 \in 1 .. n /\ (m + 1) - 1 = m
    BY <1>1, <2>1
  <2> QED BY <1>3, <2>3, <2>4 DEF t
<1>7. ToSet(q) = S
  BY <1>3, <1>4, <1>6 DEF ToSet
<1> QED BY <1>4, <1>5, <1>7

-----------------------------------------------------------------------------
(* The targets of an event: every broadcast, and one member of each group   *)
LEMMA MatchingIs ==
  ASSUME TypeOK, SubsOK, NEW type, NEW S \in SUBSET Matching(type)
  PROVE  S \subseteq Sub /\ IsFiniteSet(S) /\ Ids(S) /\ Unique(S)
<1>1. S \in SUBSET subs
  BY DEF Matching
<1>2. S \subseteq Sub /\ IsFiniteSet(S)
  BY <1>1, FS_Subset DEF TypeOK, SubsOK
<1>3. Ids(S)
  BY <1>2 DEF Ids, Sub, SubId
<1>4. Unique(S)
  BY <1>1 DEF TypeOK, Unique
<1> QED BY <1>2, <1>3, <1>4

LEMMA ChosenMember ==
  ASSUME TypeOK, SubsOK, NEW type, NEW key \in PartitionKey, NEW g \in GroupsOf(type)
  PROVE  /\ Nth(Members(type, g), 0) \in Members(type, g)
         /\ Nth(Members(type, g), Turn(type, key, g)) \in Members(type, g)
<1> DEFINE M == Members(type, g)
           n == Cardinality(M)
<1>1. M \in SUBSET Matching(type) /\ M # {}
  BY DEF GroupsOf, Members
<1>2. IsFiniteSet(M) /\ Ids(M) /\ Unique(M)
  BY <1>1, MatchingIs
<1>3. n \in Nat /\ n # 0
  BY <1>1, <1>2, FS_CardinalityType, FS_EmptySet
<1>4. g \in Group
  <2>1. Matching(type) \subseteq Sub
    BY MatchingIs
  <2>2. PICK s \in Matching(type) : g = s.group /\ g # None
    BY DEF GroupsOf
  <2> QED BY <2>1, <2>2 DEF Sub
<1>5. rr[<<g, key>>] \in Nat
  BY <1>4 DEF TypeOK
<1>6. Turn(type, key, g) \in Nat /\ Turn(type, key, g) < n
  <2> DEFINE r == rr[<<g, key>>]
  <2>1. r \in Nat
    BY <1>5
  <2> HIDE DEF r, n
  <2>2. r % n \in Nat /\ r % n < n
    BY <1>3, <2>1
  <2> QED BY <2>2 DEF Turn, r, n
<1>7. 0 \in Nat /\ 0 < n
  BY <1>3
<1> HIDE DEF M, n
<1>8. Nth(M, 0) \in M /\ Nth(M, Turn(type, key, g)) \in M
  BY <1>2, <1>6, <1>7, NthExists DEF n
<1> QED BY <1>8 DEF M

LEMMA TargetsAre ==
  ASSUME TypeOK, SubsOK, NEW type, NEW key \in PartitionKey
  PROVE  LET T == Targets(type, key) IN
         /\ T \in Seq(Sub) /\ ToSet(T) \subseteq Matching(type) /\ IsInjective(T)
         /\ \A s \in Matching(type) : IF s.group = None THEN s \in ToSet(T)
                                        ELSE \E t \in ToSet(T) : t.group = s.group
         /\ \A s, t \in ToSet(T) : s.group = t.group /\ s.group # None => s = t
<1> DEFINE all       == InOrder(Members(type, None))
           Firsts    == {Nth(Members(type, g), 0) : g \in GroupsOf(type)}
           firsts    == InOrder(Firsts)
           chosen(g) == Nth(Members(type, g), Turn(type, key, g))
           one       == [k \in DOMAIN firsts |-> chosen(firsts[k].group)]
<1>1. /\ all \in Seq(Members(type, None)) /\ ToSet(all) = Members(type, None) /\ IsInjective(all)
      /\ all \in Seq(Sub)
  <2>1. Members(type, None) \in SUBSET Matching(type)
    BY DEF Members
  <2>2. /\ Members(type, None) \subseteq Sub /\ IsFiniteSet(Members(type, None))
        /\ Ids(Members(type, None)) /\ Unique(Members(type, None))
    BY <2>1, MatchingIs
  <2>3. /\ all \in Seq(Members(type, None)) /\ ToSet(all) = Members(type, None) /\ IsInjective(all)
    BY <2>2, InOrderIs
  <2> HIDE DEF all
  <2> QED BY <2>2, <2>3, SeqMonotonic
<1>2. \A g \in GroupsOf(type) : /\ Nth(Members(type, g), 0) \in Members(type, g)
                                 /\ chosen(g) \in Members(type, g)
  BY ChosenMember
<1>3. \A s \in Firsts : /\ s \in Matching(type) /\ s.group \in GroupsOf(type)
                         /\ s = Nth(Members(type, s.group), 0)
  BY <1>2 DEF Members
<1>4. \A g \in GroupsOf(type) : \E s \in Firsts : s.group = g
  BY <1>2 DEF Members
<1> HIDE DEF Firsts
<1>5. /\ firsts \in Seq(Firsts) /\ ToSet(firsts) = Firsts /\ IsInjective(firsts)
  <2>1. Firsts \in SUBSET Matching(type)
    BY <1>3
  <2>2. IsFiniteSet(Firsts) /\ Ids(Firsts) /\ Unique(Firsts)
    BY <2>1, MatchingIs
  <2> QED BY <2>2, InOrderIs
<1> HIDE DEF all, firsts
<1> DEFINE n == Len(firsts)
<1>6. n \in Nat /\ DOMAIN firsts = 1 .. n /\ \A k \in 1 .. n : firsts[k] \in Firsts
  BY <1>5
<1>7. \A k \in 1 .. n : firsts[k].group \in GroupsOf(type) /\ chosen(firsts[k].group) \in Members(type, firsts[k].group)
  BY <1>2, <1>3, <1>6
<1>8. \A k \in 1 .. n : /\ chosen(firsts[k].group) \in Matching(type)
                         /\ chosen(firsts[k].group).group = firsts[k].group
                         /\ firsts[k].group # None
  BY <1>7 DEF Members, GroupsOf
<1> HIDE DEF chosen
<1>9. one \in [1 .. n -> Matching(type)] /\ \A k \in 1 .. n : one[k].group = firsts[k].group
  BY <1>6, <1>8
<1>10. Matching(type) \subseteq Sub
  BY MatchingIs
<1>11. one \in Seq(Sub) /\ Len(one) = n /\ \A k \in 1 .. n : one[k] \in Matching(type) /\ one[k].group = firsts[k].group
  BY <1>6, <1>9, <1>10
<1>12. \A j, k \in 1 .. n : one[j].group = one[k].group => j = k
  <2> SUFFICES ASSUME NEW j \in 1 .. n, NEW k \in 1 .. n, one[j].group = one[k].group PROVE j = k
    OBVIOUS
  <2>1. firsts[j].group = firsts[k].group
    BY <1>11
  <2>2. firsts[j] = firsts[k]
    BY <1>3, <1>6, <2>1
  <2> QED BY <1>5, <1>6, <2>2 DEF IsInjective
<1>13. \A k \in 1 .. n : one[k].group # None
  BY <1>8, <1>11
<1>14. Targets(type, key) = all \o one
  BY DEF Targets, all, firsts, Firsts, chosen
<1> HIDE DEF one
<1> DEFINE T == all \o one
           m == Len(all)
<1>15. /\ T \in Seq(Sub) /\ m \in Nat /\ Len(T) = m + n /\ DOMAIN T = 1 .. m + n
       /\ \A k \in 1 .. m : T[k] = all[k]
       /\ \A k \in 1 .. n : T[m + k] = one[k]
       /\ \A k \in m + 1 .. m + n : k - m \in 1 .. n /\ T[k] = one[k - m]
  BY <1>1, <1>6, <1>11
<1>16. \A k \in 1 .. m : all[k] \in Matching(type) /\ all[k].group = None
  BY <1>1 DEF Members
<1> HIDE DEF T, n, m
<1>17. ToSet(T) \subseteq Matching(type)
  <2> SUFFICES ASSUME NEW k \in 1 .. m + n PROVE T[k] \in Matching(type)
    BY <1>15 DEF ToSet
  <2>1. CASE k \in 1 .. m
    BY <1>15, <1>16, <2>1
  <2>2. CASE k \in m + 1 .. m + n
    BY <1>11, <1>15, <2>2
  <2> QED BY <1>6, <1>15, <2>1, <2>2
<1>18. IsInjective(T)
  <2> SUFFICES ASSUME NEW j \in 1 .. m + n, NEW k \in 1 .. m + n, T[j] = T[k] PROVE j = k
    BY <1>15 DEF IsInjective
  <2>1. CASE j \in 1 .. m /\ k \in 1 .. m
    <3>1. all[j] = all[k] /\ DOMAIN all = 1 .. m
      BY <1>1, <1>15, <2>1 DEF m
    <3> QED BY <1>1, <2>1, <3>1 DEF IsInjective
  <2>2. CASE j \in 1 .. m /\ k \in m + 1 .. m + n
    BY <1>13, <1>15, <1>16, <2>2
  <2>3. CASE j \in m + 1 .. m + n /\ k \in 1 .. m
    BY <1>13, <1>15, <1>16, <2>3
  <2>4. CASE j \in m + 1 .. m + n /\ k \in m + 1 .. m + n
    <3>1. j - m \in 1 .. n /\ k - m \in 1 .. n /\ one[j - m] = one[k - m]
      BY <1>15, <2>4
    <3>2. j - m = k - m
      BY <1>12, <3>1
    <3> QED BY <1>6, <1>15, <3>2
  <2> QED BY <1>6, <1>15, <2>1, <2>2, <2>3, <2>4
<1>19. ASSUME NEW s \in Matching(type), s.group = None PROVE s \in ToSet(T)
  <2>1. s \in ToSet(all)
    BY <1>1, <1>19 DEF Members
  <2>2. PICK k \in 1 .. m : all[k] = s
    BY <1>1, <2>1 DEF ToSet, m
  <2>3. k \in 1 .. m + n /\ T[k] = s
    BY <1>6, <1>15, <2>2
  <2> QED BY <1>15, <2>3 DEF ToSet
<1>20. ASSUME NEW s \in Matching(type), s.group # None PROVE \E t \in ToSet(T) : t.group = s.group
  <2>1. s.group \in GroupsOf(type)
    BY <1>20 DEF GroupsOf
  <2>2. PICK f \in Firsts : f.group = s.group
    BY <1>4, <2>1
  <2>3. PICK k \in 1 .. n : firsts[k] = f
    BY <1>5, <1>6 DEF ToSet
  <2>4. m + k \in 1 .. m + n /\ T[m + k].group = s.group
    BY <1>6, <1>11, <1>15, <2>2, <2>3
  <2> QED BY <1>15, <2>4 DEF ToSet
<1>21. ASSUME NEW s \in ToSet(T), NEW t \in ToSet(T), s.group = t.group, s.group # None PROVE s = t
  <2>1. PICK j \in 1 .. m + n, k \in 1 .. m + n : s = T[j] /\ t = T[k]
    BY <1>15 DEF ToSet
  <2>2. j \in m + 1 .. m + n /\ k \in m + 1 .. m + n
    BY <1>6, <1>15, <1>16, <1>21, <2>1
  <2>3. j - m \in 1 .. n /\ k - m \in 1 .. n /\ one[j - m].group = one[k - m].group
    BY <1>15, <1>21, <2>1, <2>2
  <2>4. j - m = k - m
    BY <1>12, <2>3
  <2> QED BY <1>6, <1>15, <2>1, <2>2, <2>4
<1> QED BY <1>14, <1>15, <1>17, <1>18, <1>19, <1>20, <1>21 DEF T

-----------------------------------------------------------------------------
(* Calls                                                                    *)
LEMMA CallIs ==
  ASSUME TypeOK, NEW p \in Publisher
  PROVE  /\ call[p] \in Call
         /\ call[p].todo \in Seq(Logged) /\ call[p].event \in Nat
         /\ call[p].targets \in Seq(Sub) /\ call[p].attempt \in Nat
  BY DEF TypeOK, Call

\* Whose subscriptions a known one is: ids tell them apart.
LEMMA KnownAre ==
  ASSUME TypeOK, NEW e \in DOMAIN due, NEW s \in due[e]
  PROVE  s \in Sub /\ s.id \in SubId /\ s \in Known
<1>1. due[e] \subseteq Sub
  BY DEF TypeOK
<1> QED BY <1>1 DEF Sub, Known

LEMMA SettledSame ==
  ASSUME UNCHANGED <<got, dlq>>
  PROVE  \A s, e : Settled(s, e)' <=> Settled(s, e)
  BY DEF Settled, Handled, GivenUp

LEMMA HeadOfTargets ==
  ASSUME IInv, NEW p \in Publisher, Serving(p)
  PROVE  LET c == call[p]  h == Head(c.targets) IN
         /\ c.event \in DOMAIN log /\ c.event \in DOMAIN due /\ log[c.event].by = p
         /\ h \in Sub /\ h \in due[c.event] /\ h.id \in SubId /\ ~ Settled(h.id, c.event)
         /\ \A s \in ToSet(c.targets) : s = h \/ s \in ToSet(Tail(c.targets))
         /\ ToSet(Tail(c.targets)) \subseteq ToSet(c.targets) \ {h}
         /\ Tail(c.targets) \in Seq(Sub) /\ IsInjective(Tail(c.targets))
<1> DEFINE c == call[p]
           T == c.targets
           h == Head(T)
<1>1. T \in Seq(Sub) /\ T # <<>>
  BY CallIs DEF IInv, Serving
<1>2. /\ c.event \in DOMAIN log /\ log[c.event].by = p /\ ToSet(T) \subseteq due[c.event] /\ IsInjective(T)
      /\ \A s \in ToSet(T) : ~ Settled(s.id, c.event)
  BY DEF IInv, CallOK
<1>3. Len(due) = Len(log) /\ due \in Seq(SUBSET Sub) /\ log \in Seq(Logged)
  BY DEF IInv, DispatchOK, TypeOK
<1>4. c.event \in DOMAIN due
  BY <1>2, <1>3
<1> HIDE DEF c, T
<1>5. /\ DOMAIN T = 1 .. Len(T) /\ Len(T) \in Nat \ {0} /\ h = T[1] /\ h \in Sub
      /\ Tail(T) \in Seq(Sub) /\ Len(Tail(T)) = Len(T) - 1 /\ DOMAIN Tail(T) = 1 .. Len(T) - 1
      /\ \A k \in 1 .. Len(T) - 1 : Tail(T)[k] = T[k + 1] /\ k + 1 \in 1 .. Len(T)
  BY <1>1, HeadTailProperties, EmptySeq
<1>6. 1 \in DOMAIN T /\ h \in ToSet(T)
  BY <1>5 DEF ToSet
<1>7. h.id \in SubId
  BY <1>5 DEF Sub
<1>8. ASSUME NEW s \in ToSet(T) PROVE s = h \/ s \in ToSet(Tail(T))
  <2>1. PICK k \in 1 .. Len(T) : s = T[k]
    BY <1>5 DEF ToSet
  <2>2. CASE k = 1
    BY <1>5, <2>1, <2>2
  <2>3. CASE k # 1
    <3>1. k - 1 \in 1 .. Len(T) - 1 /\ Tail(T)[k - 1] = s
      BY <1>5, <2>1, <2>3
    <3> QED BY <1>5, <3>1 DEF ToSet
  <2> QED BY <2>2, <2>3
<1>9. ASSUME NEW s \in ToSet(Tail(T)) PROVE s \in ToSet(T) /\ s # h
  <2>1. PICK k \in 1 .. Len(T) - 1 : s = Tail(T)[k]
    BY <1>5 DEF ToSet
  <2>2. k + 1 \in DOMAIN T /\ s = T[k + 1] /\ k + 1 # 1
    BY <1>5, <2>1
  <2> QED BY <1>2, <1>5, <1>6, <2>2 DEF ToSet, IsInjective
<1>10. IsInjective(Tail(T))
  <2> SUFFICES ASSUME NEW j \in 1 .. Len(T) - 1, NEW k \in 1 .. Len(T) - 1, Tail(T)[j] = Tail(T)[k]
               PROVE  j = k
    BY <1>5 DEF IsInjective
  <2>1. j + 1 \in DOMAIN T /\ k + 1 \in DOMAIN T /\ T[j + 1] = T[k + 1]
    BY <1>5
  <2>2. j + 1 = k + 1
    BY <1>2, <2>1 DEF IsInjective
  <2> QED BY <2>2
<1>11. h \in due[c.event] /\ ~ Settled(h.id, c.event)
  BY <1>2, <1>6
<1> QED BY <1>2, <1>4, <1>5, <1>7, <1>8, <1>9, <1>10, <1>11 DEF c, T

\* A call that goes on to its next target, or event
LEMMA ServedIs ==
  ASSUME TypeOK, NEW p \in Publisher, Serving(p), call' = Served(p), Tail(call[p].targets) \in Seq(Sub)
  PROVE  /\ call' \in [Publisher -> Call]
         /\ \A q \in Publisher : q # p => call'[q] = call[q]
         /\ call'[p].todo = call[p].todo /\ call'[p].targets = Tail(call[p].targets)
         /\ call'[p].attempt = 0 /\ (call'[p].targets # <<>> => call'[p].event = call[p].event)
<1> DEFINE c == call[p]
           d == [c EXCEPT !.targets = Tail(c.targets), !.attempt = 0]
           r == Remaining(d)
<1>1. c \in Call
  BY CallIs
<1>2. /\ d \in Call /\ d.todo = c.todo /\ d.targets = Tail(c.targets) /\ d.attempt = 0 /\ d.event = c.event
  BY <1>1 DEF Call
<1>3. call' = [call EXCEPT ![p] = r]
  BY DEF Served
<1> HIDE DEF d
<1>4. /\ r \in Call /\ r.todo = d.todo /\ r.targets = d.targets /\ r.attempt = 0
      /\ r.targets # <<>> => r.event = d.event
  <2>1. CASE d.targets = <<>>
    <3>1. r = [NoCall EXCEPT !.todo = d.todo]
      BY <2>1 DEF Remaining
    <3>2. d.todo \in Seq(Logged)
      BY <1>2 DEF Call
    <3>3. <<>> \in Seq(Sub) /\ 0 \in Nat
      BY EmptySeq
    <3> QED BY <2>1, <3>1, <3>2, <3>3 DEF NoCall, Call
  <2>2. CASE d.targets # <<>>
    BY <1>2, <2>2 DEF Remaining
  <2> QED BY <2>1, <2>2
<1> HIDE DEF r
<1> QED BY <1>2, <1>3, <1>4 DEF TypeOK

\* Numbers and targets do not tell how far a call has come.
LEMMA NumbersKept ==
  ASSUME NumbersOK, UNCHANGED <<log, published>>, \A p \in Publisher : call'[p].todo = call[p].todo
  PROVE  NumbersOK'
  BY DEF NumbersOK

LEMMA SubsKept ==
  ASSUME SubsOK, UNCHANGED <<subs, counter, due>>
  PROVE  SubsOK'
  BY DEF SubsOK, Known

(* What p had for its first target it has no more: it is settled.           *)
LEMMA SettleKeeps ==
  ASSUME IInv, NEW p \in Publisher, Serving(p), call' = Served(p), calls' = [calls EXCEPT ![p] = 0],
         UNCHANGED <<subs, counter, log, rr, paused, due, published>>,
         \A s \in SubId, e \in Nat :
           Settled(s, e)' <=> Settled(s, e) \/ (s = Head(call[p].targets).id /\ e = call[p].event),
         \A s \in SubId : IsInjective(got'[s])
  PROVE  /\ SubsOK' /\ DispatchOK' /\ NumbersOK' /\ \A q \in Publisher : CallOK(q)'
         /\ call' \in [Publisher -> Call] /\ calls' \in [Publisher -> Nat]
<1> DEFINE c == call[p]
           h == Head(c.targets)
           T == Tail(c.targets)
<1>1. /\ c.event \in DOMAIN log /\ c.event \in DOMAIN due /\ log[c.event].by = p
      /\ h \in Sub /\ h \in due[c.event] /\ h.id \in SubId /\ ~ Settled(h.id, c.event)
      /\ \A s \in ToSet(c.targets) : s = h \/ s \in ToSet(T)
      /\ ToSet(T) \subseteq ToSet(c.targets) \ {h} /\ T \in Seq(Sub) /\ IsInjective(T)
  BY HeadOfTargets
<1>2. /\ call' \in [Publisher -> Call]
      /\ \A q \in Publisher : q # p => call'[q] = call[q]
      /\ call'[p].todo = c.todo /\ call'[p].targets = T
      /\ call'[p].attempt = 0 /\ (call'[p].targets # <<>> => call'[p].event = c.event)
  BY <1>1, ServedIs DEF IInv
<1>3. c.event \in Nat
  BY CallIs DEF IInv
<1>4. /\ \A e \in DOMAIN due : \A s \in due[e] : s \in Sub /\ s.id \in SubId /\ s \in Known /\ e \in Nat
      /\ \A s, t \in Known : s.id = t.id => s = t
  <2>1. DOMAIN due \subseteq Nat
    BY DEF IInv, TypeOK
  <2>2. TypeOK
    BY DEF IInv
  <2> QED BY <2>1, <2>2, KnownAre DEF TypeOK, Known
<1>5. \A q \in Publisher : q # p /\ Serving(q) => call[q].event # c.event
  BY <1>1 DEF IInv, CallOK
<1>6. ASSUME NEW e \in DOMAIN due, NEW s \in due[e] PROVE Chosen(s, e)' <=> Chosen(s, e)
  <2>1. s.id \in SubId /\ e \in Nat /\ s \in Known /\ h \in Known
    BY <1>1, <1>4
  <2>2. Settled(s.id, e)' <=> Settled(s.id, e) \/ (s = h /\ e = c.event)
    BY <1>4, <2>1
  <2>3. ASSUME Awaits(s, e) PROVE Chosen(s, e)'
    <3>1. PICK q \in Publisher : Serving(q) /\ call[q].event = e /\ s \in ToSet(call[q].targets)
      BY <2>3 DEF Awaits
    <3>2. CASE q # p
      BY <1>2, <3>1, <3>2 DEF Chosen, Awaits, Serving
    <3>3. CASE q = p /\ s = h
      BY <2>2, <3>1, <3>3 DEF Chosen
    <3>4. CASE q = p /\ s # h
      <4>1. s \in ToSet(T)
        BY <1>1, <3>1, <3>4
      <4>2. T # <<>>
        BY <4>1 DEF ToSet
      <4>3. call'[p].targets # <<>> /\ call'[p].event = e /\ s \in ToSet(call'[p].targets)
        BY <1>2, <3>1, <3>4, <4>1, <4>2
      <4> HIDE DEF c, T, h
      <4> QED BY <4>3 DEF Chosen, Awaits, Serving
    <3> QED BY <3>2, <3>3, <3>4
  <2>4. ASSUME Awaits(s, e)' PROVE Awaits(s, e)
    <3>1. PICK q \in Publisher : Serving(q)' /\ call'[q].event = e /\ s \in ToSet(call'[q].targets)
      BY <2>4 DEF Awaits
    <3>2. CASE q # p
      BY <1>2, <3>1, <3>2 DEF Awaits, Serving
    <3>3. CASE q = p
      <4>1. T # <<>> /\ c.event = e /\ s \in ToSet(c.targets)
        BY <1>1, <1>2, <3>1, <3>3 DEF Serving
      <4> QED BY <4>1 DEF Awaits
    <3> QED BY <3>2, <3>3
  <2>5. s = h /\ e = c.event => Awaits(s, e)
    <3>1. h \in ToSet(c.targets)
      <4>1. c.targets \in Seq(Sub) /\ c.targets # <<>>
        BY CallIs DEF IInv, Serving
      <4> HIDE DEF c
      <4>2. h = c.targets[1] /\ 1 \in DOMAIN c.targets
        BY <4>1, EmptySeq
      <4> QED BY <4>2 DEF ToSet
    <3> QED BY <3>1 DEF Awaits
  <2> QED BY <2>2, <2>3, <2>4, <2>5 DEF Chosen
<1>7. DispatchOK'
  <2>1. \A e \in DOMAIN due : Covered(e)' /\ OneOfEach(e)'
    <3> SUFFICES ASSUME NEW e \in DOMAIN due PROVE Covered(e)' /\ OneOfEach(e)'
      OBVIOUS
    <3>1. Covered(e) /\ OneOfEach(e) /\ due'[e] = due[e]
      BY DEF IInv, DispatchOK
    <3>2. Covered(e)'
      BY <1>6, <3>1 DEF Covered
    <3>3. OneOfEach(e)'
      BY <1>6, <3>1 DEF OneOfEach
    <3> QED BY <3>2, <3>3
  <2>2. \A s \in SubId, e \in Nat : Settled(s, e)' => e \in DOMAIN log
    BY <1>1 DEF IInv, DispatchOK
  <2>3. Len(due) = Len(log)
    BY DEF IInv, DispatchOK
  <2> QED BY <2>1, <2>2, <2>3 DEF DispatchOK
<1>8. ASSUME NEW q \in Publisher PROVE CallOK(q)'
  <2>0. CallOK(q) /\ calls \in [Publisher -> Nat] /\ MaxAttempts \in Nat \ {0}
    BY EventBusAssumption DEF IInv, TypeOK
  <2>1. CASE q = p
    <3>1. ASSUME NEW s \in ToSet(T), NEW e \in Nat, e = c.event PROVE ~ Settled(s.id, e)'
      <4>1. s \in ToSet(c.targets) /\ s # h /\ s \in due[c.event]
        BY <1>1, <2>0, <2>1, <3>1 DEF CallOK
      <4>2. s.id \in SubId /\ s.id # h.id /\ ~ Settled(s.id, c.event)
        BY <1>1, <1>4, <2>0, <2>1, <4>1 DEF CallOK
      <4> HIDE DEF c, h, T
      <4> QED BY <3>1, <4>2 DEF c, h
    <3>2. calls'[p] = 0
      BY <2>0
    <3>3. ToSet(T) \subseteq due[c.event] /\ \A e \in DOMAIN log : log[e].by = p => e <= c.event
      BY <1>1, <2>0, <2>1 DEF CallOK
    <3>4. ASSUME Serving(p)'
          PROVE  /\ call'[p].event \in DOMAIN log' /\ log'[call'[p].event].by = p
                 /\ \A e \in DOMAIN log' : log'[e].by = p => e <= call'[p].event
                 /\ ToSet(call'[p].targets) \subseteq due'[call'[p].event] /\ IsInjective(call'[p].targets)
      BY <1>1, <1>2, <3>3, <3>4 DEF Serving
    <3>5. Serving(p)' => \A s \in ToSet(call'[p].targets), e \in Nat :
                           e = call'[p].event => ~ Settled(s.id, e)'
      BY <1>2, <3>1 DEF Serving
    <3>6. call'[p].event \in Nat
      BY <1>2 DEF Call
    <3> HIDE DEF T, c
    <3> QED BY <1>2, <2>0, <2>1, <3>2, <3>4, <3>5, <3>6 DEF CallOK, Settled, Handled, GivenUp
  <2>2. CASE q # p
    <3>1. call'[q] = call[q] /\ calls'[q] = calls[q]
      BY <1>2, <2>0, <2>2
    <3>2. CASE ~ Serving(q)
      BY <2>0, <3>1, <3>2 DEF CallOK, Serving
    <3>3. CASE Serving(q)
      <4>1. \A s \in ToSet(call[q].targets), e \in Nat : e = call[q].event => ~ Settled(s.id, e)'
        <5> SUFFICES ASSUME NEW s \in ToSet(call[q].targets), NEW e \in Nat, e = call[q].event
                     PROVE  ~ Settled(s.id, e)'
          OBVIOUS
        <5>1. s \in due[call[q].event] /\ call[q].event \in DOMAIN log /\ ~ Settled(s.id, call[q].event)
          BY <2>0, <3>3 DEF CallOK
        <5>2. call[q].event \in DOMAIN due
          BY <5>1 DEF IInv, DispatchOK, TypeOK
        <5> QED BY <1>4, <1>5, <2>2, <3>3, <5>1, <5>2
      <4>2. call[q].event \in Nat
        BY CallIs DEF IInv
      <4> QED BY <2>0, <3>1, <3>3, <4>1, <4>2 DEF CallOK, Serving, Settled, Handled, GivenUp
    <3> QED BY <3>2, <3>3
  <2> QED BY <2>1, <2>2
<1>9. SubsOK' /\ NumbersOK'
  BY <1>2, NumbersKept, SubsKept DEF IInv
<1>10. calls' \in [Publisher -> Nat]
  BY DEF IInv, TypeOK
<1> QED BY <1>2, <1>7, <1>8, <1>9, <1>10

-----------------------------------------------------------------------------
(* The attempts of a handler                                                *)
LEMMA AppendIs ==
  ASSUME NEW S, NEW q \in Seq(S), NEW x \in S
  PROVE  /\ Append(q, x) \in Seq(S) /\ DOMAIN q = 1 .. Len(q) /\ Len(q) \in Nat
         /\ DOMAIN Append(q, x) = 1 .. Len(q) + 1
         /\ \A k \in 1 .. Len(q) : Append(q, x)[k] = q[k] /\ k \in 1 .. Len(q) + 1
         /\ Append(q, x)[Len(q) + 1] = x /\ Len(q) + 1 \in 1 .. Len(q) + 1
         /\ \A k \in 1 .. Len(q) + 1 : k \in 1 .. Len(q) \/ k = Len(q) + 1
         /\ ToSet(Append(q, x)) = ToSet(q) \cup {x}
         /\ IsInjective(q) /\ x \notin ToSet(q) => IsInjective(Append(q, x))
<1> DEFINE a == Append(q, x)
           n == Len(q)
<1>1. /\ a \in Seq(S) /\ DOMAIN q = 1 .. n /\ n \in Nat /\ DOMAIN a = 1 .. n + 1
      /\ \A k \in 1 .. n : a[k] = q[k] /\ k \in 1 .. n + 1
      /\ a[n + 1] = x /\ n + 1 \in 1 .. n + 1
  BY AppendProperties
<1> HIDE DEF a, n
<1>2. \A k \in 1 .. n + 1 : k \in 1 .. n \/ k = n + 1
  BY <1>1
<1>3. ToSet(a) = ToSet(q) \cup {x}
  BY <1>1, <1>2 DEF ToSet
<1>4. ASSUME IsInjective(q), x \notin ToSet(q) PROVE IsInjective(a)
  <2> SUFFICES ASSUME NEW j \in 1 .. n + 1, NEW k \in 1 .. n + 1, a[j] = a[k] PROVE j = k
    BY <1>1 DEF IsInjective
  <2>1. \A i \in 1 .. n : a[i] # x
    BY <1>1, <1>4 DEF ToSet
  <2> QED BY <1>1, <1>2, <1>4, <2>1 DEF IsInjective
<1> QED BY <1>1, <1>2, <1>3, <1>4 DEF a, n

\* What a step of a handler leaves of the types
LEMMA TypesKept ==
  ASSUME TypeOK, UNCHANGED <<subs, counter, log, rr, paused, due, published>>,
         dlq' \in Seq(Dead), got' \in [SubId -> Seq(Nat)],
         call' \in [Publisher -> Call], calls' \in [Publisher -> Nat]
  PROVE  TypeOK'
<1>1. \A s, t \in (subs \cup UNION {due[e] : e \in DOMAIN due})' : s.id = t.id => s = t
  BY DEF TypeOK
<1> QED BY <1>1 DEF TypeOK

LEMMA HandlerReturnsKeeps ==
  ASSUME IInv, NEW p \in Publisher, HandlerReturns(p)
  PROVE  IInv'
<1> DEFINE c == call[p]
           h == Head(c.targets)
           q == got[h.id]
<1>1. /\ Serving(p) /\ got' = [got EXCEPT ![h.id] = Append(q, c.event)]
      /\ calls' = [calls EXCEPT ![p] = 0] /\ call' = Served(p)
      /\ UNCHANGED <<subs, counter, log, dlq, rr, paused, due, published>>
  BY DEF HandlerReturns
<1>2. /\ c.event \in DOMAIN log /\ log[c.event].by = p /\ h.id \in SubId /\ ~ Settled(h.id, c.event)
  BY <1>1, HeadOfTargets
<1>3. c.event \in Nat /\ q \in Seq(Nat) /\ got \in [SubId -> Seq(Nat)]
  BY <1>2, CallIs DEF IInv, TypeOK
<1>4. c.event \notin ToSet(q)
  BY <1>2 DEF Settled, Handled
<1> DEFINE e  == c.event
           id == h.id
<1>5. /\ got' \in [SubId -> Seq(Nat)] /\ got'[id] = Append(q, e)
      /\ \A s \in SubId : s # id => got'[s] = got[s]
  BY <1>1, <1>2, <1>3, AppendIs
<1> HIDE DEF e, id, q, h, c
<1>6. \A s \in SubId : IsInjective(got'[s])
  <2>1. IsInjective(q)
    BY <1>2 DEF IInv, DispatchOK, q
  <2>2. IsInjective(Append(q, e))
    BY <1>3, <1>4, <2>1, AppendIs DEF e
  <2> QED BY <1>5, <2>2 DEF IInv, DispatchOK
<1>7. \A s \in SubId, x \in Nat : Handled(s, x)' <=> Handled(s, x) \/ (s = id /\ x = e)
  <2>1. ToSet(Append(q, e)) = ToSet(q) \cup {e}
    BY <1>3, AppendIs DEF e
  <2> QED BY <1>5, <2>1 DEF Handled, q, id
<1>8. \A s \in SubId, x \in Nat : Settled(s, x)' <=> Settled(s, x) \/ (s = id /\ x = e)
  BY <1>1, <1>7 DEF Settled, GivenUp
<1>9. /\ SubsOK' /\ DispatchOK' /\ NumbersOK' /\ \A r \in Publisher : CallOK(r)'
      /\ call' \in [Publisher -> Call] /\ calls' \in [Publisher -> Nat]
  BY <1>1, <1>6, <1>8, SettleKeeps DEF e, id, h, c
<1>10. TypeOK'
  <2>1. TypeOK /\ dlq' \in Seq(Dead)
    BY <1>1 DEF IInv, TypeOK
  <2> QED BY <1>1, <1>5, <1>9, <2>1, TypesKept
<1>11. \A k \in DOMAIN dlq' : dlq'[k].calls = MaxAttempts /\ ~ Handled(dlq[k].sub, dlq[k].event)'
  <2> SUFFICES ASSUME NEW k \in DOMAIN dlq
               PROVE  dlq[k].calls = MaxAttempts /\ ~ Handled(dlq[k].sub, dlq[k].event)'
    BY <1>1
  <2> DEFINE s == dlq[k].sub
             x == dlq[k].event
  <2>1. s \in SubId /\ x \in Nat
    <3>1. dlq[k] \in Dead
      BY DEF IInv, TypeOK
    <3> QED BY <3>1 DEF Dead
  <2>2. dlq[k].calls = MaxAttempts /\ ~ Handled(s, x)
    BY DEF IInv
  <2>3. ~ (s = id /\ x = e)
    BY <1>2 DEF Settled, GivenUp, e, id
  <2>4. dlq'[k] = dlq[k]
    BY <1>1
  <2>5. \A t \in SubId, y \in Nat : t = s /\ y = x => ~ Handled(t, y)'
    <3> HIDE DEF s, x
    <3> QED BY <1>7, <2>2, <2>3
  <2> QED BY <2>1, <2>2, <2>4, <2>5 DEF Handled
<1>12. PublisherOrder'
  <2> SUFFICES ASSUME NEW s \in SubId, NEW i \in DOMAIN got'[s], NEW j \in DOMAIN got'[s], i < j,
                      log[got'[s][i]].by = log[got'[s][j]].by
               PROVE  log[got'[s][i]].nth < log[got'[s][j]].nth
    BY <1>1 DEF PublisherOrder
  <2>1. CASE s # id
    BY <1>5, <2>1 DEF IInv, PublisherOrder
  <2>2. CASE s = id
    <3>1. /\ DOMAIN q = 1 .. Len(q) /\ DOMAIN got'[s] = 1 .. Len(q) + 1 /\ Len(q) \in Nat
          /\ \A k \in 1 .. Len(q) : got'[s][k] = q[k]
          /\ got'[s][Len(q) + 1] = e
          /\ \A k \in 1 .. Len(q) + 1 : k \in 1 .. Len(q) \/ k = Len(q) + 1
      <4>1. e \in Nat /\ got'[s] = Append(q, e)
        BY <1>3, <1>5, <2>2 DEF e
      <4> QED BY <1>3, <4>1, AppendIs
    <3>2. i \in 1 .. Len(q)
      BY <3>1
    <3>3. CASE j \in 1 .. Len(q)
      BY <2>2, <3>1, <3>2, <3>3 DEF IInv, PublisherOrder, q, id
    <3>4. CASE j = Len(q) + 1
      <4>1. got'[s][j] = e /\ got'[s][i] = q[i] /\ q[i] \in ToSet(q) /\ q[i] \in Nat
        BY <1>3, <3>1, <3>2, <3>4 DEF ToSet
      <4>2. q[i] # e /\ Settled(id, q[i])
        BY <1>4, <4>1 DEF e, Settled, Handled, q, id
      <4>3. q[i] \in DOMAIN log
        BY <1>2, <4>1, <4>2 DEF IInv, DispatchOK, id
      <4>4. log[q[i]].by = p /\ log[e].by = p /\ e \in DOMAIN log
        BY <1>2, <4>1 DEF e
      <4>5. q[i] <= e
        BY <1>1, <4>3, <4>4 DEF IInv, CallOK, e, c
      <4>6. q[i] < e
        BY <1>3, <4>1, <4>2, <4>5 DEF e
      <4> QED BY <4>1, <4>3, <4>4, <4>6 DEF IInv, NumbersOK
    <3> QED BY <3>1, <3>3, <3>4
  <2> QED BY <2>1, <2>2
<1> QED BY <1>9, <1>10, <1>11, <1>12 DEF IInv, Handled

LEMMA DeadLetterKeeps ==
  ASSUME IInv, NEW p \in Publisher, DeadLetter(p)
  PROVE  IInv'
<1> DEFINE c == call[p]
           h == Head(c.targets)
           dead == [event |-> c.event, sub |-> h.id, attempts |-> c.attempt + 1, calls |-> calls[p] + 1]
<1>1. /\ Serving(p) /\ c.attempt + 1 >= MaxAttempts /\ dlq' = Append(dlq, dead)
      /\ calls' = [calls EXCEPT ![p] = 0] /\ call' = Served(p)
      /\ UNCHANGED <<subs, counter, log, got, rr, paused, due, published>>
  BY DEF DeadLetter
<1>2. h.id \in SubId /\ ~ Settled(h.id, c.event)
  BY <1>1, HeadOfTargets
<1>3. c.event \in Nat /\ c.attempt \in Nat /\ dlq \in Seq(Dead) /\ MaxAttempts \in Nat
  BY CallIs, EventBusAssumption DEF IInv, TypeOK
<1>4. calls[p] = c.attempt /\ c.attempt < MaxAttempts
  BY DEF IInv, CallOK
<1> DEFINE e  == c.event
           id == h.id
<1>5. dead \in Dead /\ dead.event = e /\ dead.sub = id /\ dead.calls = MaxAttempts
  BY <1>1, <1>2, <1>3, <1>4 DEF Dead
<1> HIDE DEF e, id, h, c, dead
<1>6. /\ dlq' \in Seq(Dead) /\ DOMAIN dlq = 1 .. Len(dlq) /\ DOMAIN dlq' = 1 .. Len(dlq) + 1
      /\ Len(dlq) \in Nat /\ \A k \in 1 .. Len(dlq) : dlq'[k] = dlq[k] /\ k \in 1 .. Len(dlq) + 1
      /\ dlq'[Len(dlq) + 1] = dead /\ Len(dlq) + 1 \in 1 .. Len(dlq) + 1
      /\ \A k \in 1 .. Len(dlq) + 1 : k \in 1 .. Len(dlq) \/ k = Len(dlq) + 1
  BY <1>1, <1>3, <1>5, AppendIs
<1>7. \A s, x : GivenUp(s, x)' <=> GivenUp(s, x) \/ (s = id /\ x = e)
  BY <1>5, <1>6 DEF GivenUp
<1>8. \A s \in SubId, x \in Nat : Settled(s, x)' <=> Settled(s, x) \/ (s = id /\ x = e)
  BY <1>1, <1>7 DEF Settled, Handled
<1>9. /\ SubsOK' /\ DispatchOK' /\ NumbersOK' /\ \A r \in Publisher : CallOK(r)'
      /\ call' \in [Publisher -> Call] /\ calls' \in [Publisher -> Nat]
  <2>1. \A s \in SubId : IsInjective(got'[s])
    BY <1>1 DEF IInv, DispatchOK
  <2> QED BY <1>1, <1>8, <2>1, SettleKeeps DEF e, id, h, c
<1>10. TypeOK'
  <2>1. TypeOK /\ got' \in [SubId -> Seq(Nat)]
    BY <1>1 DEF IInv, TypeOK
  <2> QED BY <1>1, <1>6, <1>9, <2>1, TypesKept
<1>11. ~ Handled(id, e)
  BY <1>2 DEF Settled, e, id
<1>12. \A k \in DOMAIN dlq' : dlq'[k].calls = MaxAttempts /\ ~ Handled(dlq[k].sub, dlq[k].event)'
  <2> SUFFICES ASSUME NEW k \in DOMAIN dlq'
               PROVE  dlq'[k].calls = MaxAttempts /\ dlq'[k].event \notin ToSet(got[dlq'[k].sub])
    BY <1>1 DEF Handled
  <2>1. CASE k \in 1 .. Len(dlq)
    BY <1>6, <2>1 DEF IInv, Handled
  <2>2. CASE k = Len(dlq) + 1
    BY <1>5, <1>6, <1>11, <2>2 DEF Handled
  <2> QED BY <1>6, <2>1, <2>2
<1>13. PublisherOrder'
  BY <1>1 DEF IInv, PublisherOrder
<1> QED BY <1>9, <1>10, <1>12, <1>13 DEF IInv, Handled

-----------------------------------------------------------------------------
(* Steps that settle nothing and dispatch nothing                           *)
LEMMA DispatchKept ==
  ASSUME IInv, UNCHANGED <<log, got, dlq, due>>,
         \A p \in Publisher : /\ call'[p].targets = call[p].targets
                              /\ Serving(p) => call'[p].event = call[p].event
  PROVE  /\ DispatchOK' /\ PublisherOrder'
         /\ \A k \in DOMAIN dlq' : dlq'[k].calls = MaxAttempts /\ ~ Handled(dlq[k].sub, dlq[k].event)'
<1>1. \A s, e : Settled(s, e)' <=> Settled(s, e)
  BY SettledSame
<1>2. \A s, e : Awaits(s, e)' <=> Awaits(s, e)
  BY DEF Awaits, Serving
<1>3. ASSUME NEW e, NEW s PROVE Chosen(s, e)' <=> Chosen(s, e)
  BY <1>1, <1>2 DEF Chosen
<1>4. DispatchOK'
  <2>1. \A e \in DOMAIN due : Covered(e)' /\ OneOfEach(e)'
    BY <1>3 DEF IInv, DispatchOK, Covered, OneOfEach
  <2>2. \A s \in SubId, e \in Nat : Settled(s, e)' => e \in DOMAIN log
    BY <1>1 DEF IInv, DispatchOK
  <2> QED BY <2>1, <2>2 DEF IInv, DispatchOK
<1>5. PublisherOrder'
  BY DEF IInv, PublisherOrder
<1>6. \A k \in DOMAIN dlq' : dlq'[k].calls = MaxAttempts /\ ~ Handled(dlq[k].sub, dlq[k].event)'
  BY DEF IInv, Handled
<1> QED BY <1>4, <1>5, <1>6

LEMMA CallKept ==
  ASSUME NEW p \in Publisher, CallOK(p), UNCHANGED <<log, got, dlq, due>>,
         call'[p].targets = call[p].targets, Serving(p) => call'[p].event = call[p].event,
         call'[p].attempt = call[p].attempt, calls'[p] = calls[p]
  PROVE  CallOK(p)'
<1>1. CASE Serving(p)
  BY <1>1 DEF CallOK, Serving, Settled, Handled, GivenUp
<1>2. CASE ~ Serving(p)
  BY <1>2 DEF CallOK, Serving
<1> QED BY <1>1, <1>2

LEMMA HandlerRaisesKeeps ==
  ASSUME IInv, NEW p \in Publisher, HandlerRaises(p)
  PROVE  IInv'
<1> DEFINE c == call[p]
           d == [c EXCEPT !.attempt = c.attempt + 1]
<1>1. /\ Serving(p) /\ c.attempt + 1 < MaxAttempts
      /\ call' = [call EXCEPT ![p] = d] /\ calls' = [calls EXCEPT ![p] = calls[p] + 1]
      /\ UNCHANGED <<subs, counter, log, dlq, rr, paused, got, due, published>>
  BY DEF HandlerRaises
<1>2. /\ c \in Call /\ call \in [Publisher -> Call] /\ calls \in [Publisher -> Nat]
  BY CallIs DEF IInv, TypeOK
<1>3. /\ d \in Call /\ d.todo = c.todo /\ d.event = c.event /\ d.targets = c.targets
      /\ d.attempt = c.attempt + 1 /\ c.attempt \in Nat
  <2>1. c.attempt \in Nat /\ c.attempt + 1 \in Nat
    <3>1. c.attempt \in Nat
      BY <1>2 DEF Call
    <3> HIDE DEF c
    <3> QED BY <3>1
  <2> DEFINE n == c.attempt + 1
  <2>2. n \in Nat /\ d = [c EXCEPT !.attempt = n]
    BY <2>1
  <2> HIDE DEF c, n, d
  <2>3. d \in Call /\ d.todo = c.todo /\ d.event = c.event /\ d.targets = c.targets /\ d.attempt = n
    BY <1>2, <2>2 DEF Call
  <2> QED BY <2>1, <2>3 DEF n
<1> HIDE DEF d
<1>4. /\ call' \in [Publisher -> Call] /\ calls' \in [Publisher -> Nat]
      /\ call'[p] = d /\ calls'[p] = calls[p] + 1
      /\ \A q \in Publisher : q # p => call'[q] = call[q] /\ calls'[q] = calls[q]
  BY <1>1, <1>2, <1>3
<1>5. /\ DispatchOK' /\ PublisherOrder'
      /\ \A k \in DOMAIN dlq' : dlq'[k].calls = MaxAttempts /\ ~ Handled(dlq[k].sub, dlq[k].event)'
  BY <1>1, <1>3, <1>4, DispatchKept
<1>6. ASSUME NEW q \in Publisher PROVE CallOK(q)'
  <2>1. CallOK(q)
    BY DEF IInv
  <2>2. CASE q # p
    BY <1>1, <1>4, <2>1, <2>2, CallKept
  <2>3. CASE q = p
    BY <1>1, <1>3, <1>4, <2>1, <2>3 DEF CallOK, Serving, Settled, Handled, GivenUp
  <2> QED BY <2>2, <2>3
<1>7. SubsOK' /\ NumbersOK'
  BY <1>1, <1>3, <1>4, NumbersKept, SubsKept DEF IInv
<1>8. TypeOK'
  <2>1. TypeOK /\ dlq' \in Seq(Dead) /\ got' \in [SubId -> Seq(Nat)]
    BY <1>1 DEF IInv, TypeOK
  <2> QED BY <1>1, <1>4, <2>1, TypesKept
<1> QED BY <1>5, <1>6, <1>7, <1>8 DEF IInv, Handled

-----------------------------------------------------------------------------
(* Subscriptions that come and go, and events handed over                   *)
LEMMA SubscribeKeeps ==
  ASSUME IInv, NEW w \in Wanted, Subscribe(w)
  PROVE  IInv'
<1> DEFINE new == [id |-> counter + 1, types |-> w.types, group |-> w.group]
<1>1. /\ counter < MaxSubs /\ counter' = counter + 1 /\ subs' = subs \cup {new}
      /\ UNCHANGED <<log, dlq, rr, paused, call, got, due, calls, published>>
  BY DEF Subscribe
<1>2. counter \in Nat /\ counter + 1 \in SubId /\ counter' \in 0 .. MaxSubs
  BY <1>1, EventBusAssumption DEF IInv, TypeOK, SubId
<1>3. w.types \in SUBSET Type /\ w.group \in Group \cup {None}
  BY EventBusAssumption
<1>4. new \in Sub /\ new.id = counter + 1
  BY <1>2, <1>3 DEF Sub
<1> HIDE DEF new
<1>5. Known' = Known \cup {new} /\ \A s \in Known : s.id <= counter /\ s.id \in Nat
  <2>1. Known \subseteq Sub
    <3>1. subs \subseteq Sub /\ \A e \in DOMAIN due : due[e] \subseteq Sub
      BY DEF IInv, TypeOK
    <3> QED BY <3>1 DEF Known
  <2>2. \A s \in Sub : s.id \in Nat
    BY DEF Sub, SubId
  <2> QED BY <1>1, <2>1, <2>2 DEF IInv, SubsOK, Known
<1>6. \A s, t \in Known' : s.id = t.id => s = t
  <2>1. \A s, t \in Known : s.id = t.id => s = t
    BY DEF IInv, TypeOK, Known
  <2>2. \A s \in Known : s.id # new.id
    BY <1>2, <1>4, <1>5
  <2> QED BY <1>5, <2>1, <2>2
<1>7. SubsOK'
  <2>1. IsFiniteSet(subs')
    BY <1>1, FS_AddElement DEF IInv, SubsOK
  <2>2. \A s \in Known' : s.id <= counter'
    BY <1>1, <1>2, <1>4, <1>5
  <2> QED BY <2>1, <2>2 DEF SubsOK
<1>8. TypeOK'
  <2>1. /\ subs' \subseteq Sub
        /\ \A s, t \in (subs \cup UNION {due[e] : e \in DOMAIN due})' : s.id = t.id => s = t
    BY <1>1, <1>4, <1>6 DEF IInv, TypeOK, Known
  <2>2. /\ log' \in Seq(Logged) /\ dlq' \in Seq(Dead) /\ rr' \in [Group \X PartitionKey -> Nat]
        /\ paused' \in BOOLEAN /\ call' \in [Publisher -> Call] /\ got' \in [SubId -> Seq(Nat)]
        /\ due' \in Seq(SUBSET Sub) /\ calls' \in [Publisher -> Nat] /\ published' \in [Publisher -> Nat]
    BY <1>1 DEF IInv, TypeOK
  <2> QED BY <1>2, <2>1, <2>2 DEF TypeOK
<1>9. /\ DispatchOK' /\ PublisherOrder'
      /\ \A k \in DOMAIN dlq' : dlq'[k].calls = MaxAttempts /\ ~ Handled(dlq[k].sub, dlq[k].event)'
  BY <1>1, DispatchKept
<1>10. \A q \in Publisher : CallOK(q)'
  BY <1>1, CallKept DEF IInv
<1>11. NumbersOK'
  BY <1>1, NumbersKept DEF IInv
<1> QED BY <1>7, <1>8, <1>9, <1>10, <1>11 DEF IInv, Handled

LEMMA UnsubscribeKeeps ==
  ASSUME IInv, NEW u \in subs, Unsubscribe(u)
  PROVE  IInv'
<1>1. /\ subs' = subs \ {u}
      /\ UNCHANGED <<counter, log, dlq, rr, paused, call, got, due, calls, published>>
  BY DEF Unsubscribe
<1>2. Known' \subseteq Known
  BY <1>1 DEF Known
<1>3. SubsOK'
  BY <1>1, <1>2, FS_RemoveElement DEF IInv, SubsOK
<1>4. TypeOK'
  <2>1. \A s, t \in (subs \cup UNION {due[e] : e \in DOMAIN due})' : s.id = t.id => s = t
    BY <1>2 DEF IInv, TypeOK, Known
  <2> QED BY <1>1, <2>1 DEF IInv, TypeOK
<1>5. /\ DispatchOK' /\ PublisherOrder'
      /\ \A k \in DOMAIN dlq' : dlq'[k].calls = MaxAttempts /\ ~ Handled(dlq[k].sub, dlq[k].event)'
  BY <1>1, DispatchKept
<1>6. \A q \in Publisher : CallOK(q)'
  BY <1>1, CallKept DEF IInv
<1>7. NumbersOK'
  BY <1>1, NumbersKept DEF IInv
<1> QED BY <1>3, <1>4, <1>5, <1>6, <1>7 DEF IInv, Handled

LEMMA SetPausedKeeps ==
  ASSUME IInv, NEW b \in BOOLEAN, SetPaused(b)
  PROVE  IInv'
<1>1. /\ paused' = b
      /\ UNCHANGED <<subs, counter, log, dlq, rr, call, got, due, calls, published>>
  BY DEF SetPaused
<1>2. SubsOK' /\ NumbersOK'
  BY <1>1, SubsKept, NumbersKept DEF IInv
<1>3. TypeOK'
  <2>1. \A s, t \in (subs \cup UNION {due[e] : e \in DOMAIN due})' : s.id = t.id => s = t
    BY <1>1 DEF IInv, TypeOK
  <2> QED BY <1>1, <2>1 DEF IInv, TypeOK
<1>4. /\ DispatchOK' /\ PublisherOrder'
      /\ \A k \in DOMAIN dlq' : dlq'[k].calls = MaxAttempts /\ ~ Handled(dlq[k].sub, dlq[k].event)'
  BY <1>1, DispatchKept
<1>5. \A q \in Publisher : CallOK(q)'
  BY <1>1, CallKept DEF IInv
<1> QED BY <1>2, <1>3, <1>4, <1>5 DEF IInv, Handled

LEMMA RefuseKeeps ==
  ASSUME IInv, NEW p \in Publisher, Refuse(p)
  PROVE  IInv'
<1>1. /\ call[p].targets = <<>> /\ call' = [call EXCEPT ![p] = NoCall]
      /\ UNCHANGED <<subs, counter, log, dlq, rr, paused, got, due, calls, published>>
  BY DEF Refuse, Ready, Serving
<1>2. NoCall \in Call /\ NoCall.todo = <<>> /\ NoCall.targets = <<>> /\ NoCall.attempt = 0
  BY EmptySeq DEF NoCall, Call
<1>3. /\ call' \in [Publisher -> Call] /\ call'[p] = NoCall
      /\ \A q \in Publisher : q # p => call'[q] = call[q]
  BY <1>1, <1>2 DEF IInv, TypeOK
<1>4. /\ DispatchOK' /\ PublisherOrder'
      /\ \A k \in DOMAIN dlq' : dlq'[k].calls = MaxAttempts /\ ~ Handled(dlq[k].sub, dlq[k].event)'
  BY <1>1, <1>2, <1>3, DispatchKept DEF Serving
<1>5. ASSUME NEW q \in Publisher PROVE CallOK(q)'
  <2>1. CallOK(q)
    BY DEF IInv
  <2>2. call'[q].targets = call[q].targets /\ (Serving(q) => call'[q].event = call[q].event)
    BY <1>1, <1>2, <1>3 DEF Serving
  <2>3. call'[q].attempt = call[q].attempt /\ calls'[q] = calls[q]
    BY <1>1, <1>2, <1>3, <2>1 DEF CallOK, Serving
  <2> QED BY <1>1, <2>1, <2>2, <2>3, CallKept
<1>6. NumbersOK'
  <2>1. ASSUME NEW q \in Publisher, NEW k \in DOMAIN call'[q].todo PROVE call'[q] = call[q]
    BY <1>2, <1>3, <2>1
  <2> QED BY <1>1, <2>1 DEF IInv, NumbersOK
<1>7. SubsOK'
  BY <1>1, SubsKept DEF IInv
<1>8. TypeOK'
  <2>1. TypeOK /\ dlq' \in Seq(Dead) /\ got' \in [SubId -> Seq(Nat)] /\ calls' \in [Publisher -> Nat]
    BY <1>1 DEF IInv, TypeOK
  <2> QED BY <1>1, <1>3, <2>1, TypesKept
<1> QED BY <1>4, <1>5, <1>6, <1>7, <1>8 DEF IInv, Handled

LEMMA PublishKeeps ==
  ASSUME IInv, NEW p \in Publisher, NEW batch \in Batches, Publish(p, batch)
  PROVE  IInv'
<1> DEFINE n == published[p]
           l == Len(batch)
           new == [k \in DOMAIN batch |-> [type |-> batch[k].type, key |-> batch[k].key,
                                             by |-> p, nth |-> n + k]]
<1>1. /\ call[p] = NoCall /\ call' = [call EXCEPT ![p].todo = new]
      /\ published' = [published EXCEPT ![p] = n + l]
      /\ UNCHANGED <<subs, counter, log, dlq, rr, paused, got, due, calls>>
  BY DEF Publish
<1>2. /\ l \in Nat /\ DOMAIN batch = 1 .. l
      /\ \A k \in 1 .. l : batch[k] \in [type : Type, key : PartitionKey]
  <2> DEFINE E == [type : Type, key : PartitionKey]
  <2>1. batch \in Seq(E)
    BY EventBusAssumption
  <2> HIDE DEF E
  <2>2. /\ l \in Nat /\ DOMAIN batch = 1 .. l /\ \A k \in 1 .. l : batch[k] \in E
    BY <2>1
  <2> QED BY <2>2 DEF E
<1>3. n \in Nat /\ published \in [Publisher -> Nat] /\ call \in [Publisher -> Call]
  BY DEF IInv, TypeOK
<1> HIDE DEF l
<1>4. \A k \in 1 .. l : k \in Nat /\ n + k \in Nat /\ batch[k].type \in Type /\ batch[k].key \in PartitionKey
  BY <1>2, <1>3
<1> HIDE DEF n
<1>5. \A k \in 1 .. l : new[k] \in Logged /\ new[k].by = p /\ new[k].nth = n + k
  BY <1>2, <1>3, <1>4 DEF Logged
<1>6. DOMAIN new = 1 .. l
  BY <1>2
<1>7. new \in Seq(Logged)
  <2>1. new \in [1 .. l -> Logged]
    BY <1>2, <1>5
  <2> HIDE DEF new
  <2> QED BY <1>2, <2>1
<1> HIDE DEF new
<1>8. /\ call' \in [Publisher -> Call] /\ call'[p].todo = new /\ published' \in [Publisher -> Nat]
      /\ \A q \in Publisher : /\ call'[q].targets = call[q].targets /\ call'[q].event = call[q].event
                              /\ call'[q].attempt = call[q].attempt
                              /\ q # p => call'[q].todo = call[q].todo
      /\ published'[p] = n + l /\ \A q \in Publisher : q # p => published'[q] = published[q]
  <2>1. call[p] \in Call /\ \A q \in Publisher : call[q] \in Call
    BY <1>3
  <2> DEFINE d == [call[p] EXCEPT !.todo = new]
  <2>2. /\ d \in Call /\ d.todo = new /\ d.targets = call[p].targets /\ d.event = call[p].event
        /\ d.attempt = call[p].attempt
    BY <1>7, <2>1 DEF Call
  <2>3. call' = [call EXCEPT ![p] = d]
    BY <1>1
  <2> HIDE DEF d
  <2>4. n + l \in Nat
    BY <1>2, <1>3
  <2> QED BY <1>1, <1>3, <2>2, <2>3, <2>4
<1>9. /\ DispatchOK' /\ PublisherOrder'
      /\ \A k \in DOMAIN dlq' : dlq'[k].calls = MaxAttempts /\ ~ Handled(dlq[k].sub, dlq[k].event)'
  BY <1>1, <1>8, DispatchKept
<1>10. \A q \in Publisher : CallOK(q)'
  BY <1>1, <1>8, CallKept DEF IInv
<1>11. NumbersOK'
  <2>1. \A i \in DOMAIN log : log[i] \in Logged
    BY DEF IInv, TypeOK
  <2>2. \A i \in DOMAIN log : log[i].by \in Publisher /\ log[i].nth \in Nat
    BY <2>1 DEF Logged
  <2>3. ASSUME NEW q \in Publisher PROVE published[q] \in Nat /\ published[q] <= published'[q]
    <3>1. published[q] \in Nat /\ published'[q] \in Nat
      BY <1>3, <1>8
    <3>2. CASE q = p
      <4>1. published[q] = n /\ published'[q] = n + l
        BY <1>8, <3>2 DEF n
      <4> QED BY <1>2, <3>1, <4>1
    <3>3. CASE q # p
      BY <1>8, <3>1, <3>3
    <3> QED BY <3>2, <3>3
  <2>4. \A i \in DOMAIN log : log[i].nth <= published'[log[i].by] /\ log[i].nth <= published[log[i].by]
    <3>1. \A i \in DOMAIN log : log[i].nth <= published[log[i].by]
      BY DEF IInv, NumbersOK
    <3>2. \A q \in Publisher : published'[q] \in Nat
      BY <1>8
    <3> QED BY <2>2, <2>3, <3>1, <3>2
  <2>5. ASSUME NEW q \in Publisher, NEW k \in DOMAIN call'[q].todo
        PROVE  /\ call'[q].todo[k].by = q /\ call'[q].todo[k].nth <= published'[q]
               /\ \A j \in DOMAIN call'[q].todo : k < j => call'[q].todo[k].nth < call'[q].todo[j].nth
               /\ \A i \in DOMAIN log : log[i].by = q => log[i].nth < call'[q].todo[k].nth
    <3>1. CASE q # p
      <4>1. call'[q].todo = call[q].todo
        BY <1>8, <3>1
      <4>2. published'[q] = published[q]
        BY <1>8, <3>1
      <4> QED BY <2>5, <4>1, <4>2 DEF IInv, NumbersOK
    <3>2. CASE q = p
      <4>1. /\ k \in 1 .. l /\ DOMAIN call'[q].todo = 1 .. l /\ published'[q] = n + l
            /\ \A j \in 1 .. l : call'[q].todo[j].by = p /\ call'[q].todo[j].nth = n + j
        BY <1>5, <1>6, <1>8, <2>5, <3>2
      <4>2. \A i \in DOMAIN log : log[i].by = q => log[i].nth <= n /\ log[i].nth \in Nat
        BY <2>2, <2>4, <3>2 DEF n
      <4> QED BY <1>2, <1>3, <3>2, <4>1, <4>2
    <3> QED BY <3>1, <3>2
  <2>6. \A i, j \in DOMAIN log : i < j /\ log[i].by = log[j].by => log[i].nth < log[j].nth
    BY DEF IInv, NumbersOK
  <2> QED BY <1>1, <2>4, <2>5, <2>6 DEF NumbersOK
<1>12. SubsOK'
  BY <1>1, SubsKept DEF IInv
<1>13. TypeOK'
  <2>1. \A s, t \in (subs \cup UNION {due[e] : e \in DOMAIN due})' : s.id = t.id => s = t
    BY <1>1 DEF IInv, TypeOK
  <2> QED BY <1>1, <1>8, <2>1 DEF IInv, TypeOK
<1> QED BY <1>9, <1>10, <1>11, <1>12, <1>13 DEF IInv, Handled

-----------------------------------------------------------------------------
(* An event is accepted: what it is dispatched to covers what it matched    *)
LEMMA AcceptedIs ==
  ASSUME IInv, NEW p \in Publisher, call[p].todo # <<>>
  PROVE  LET event == Head(call[p].todo)  rest == Tail(call[p].todo) IN
         /\ event \in Logged /\ event.by = p /\ event.nth <= published[p] /\ rest \in Seq(Logged)
         /\ \A i \in DOMAIN log : log[i].by = p => log[i].nth < event.nth
         /\ \A k \in DOMAIN rest :
              /\ rest[k].by = p /\ rest[k].nth <= published[p] /\ event.nth < rest[k].nth
              /\ \A l \in DOMAIN rest : k < l => rest[k].nth < rest[l].nth
              /\ \A i \in DOMAIN log : log[i].by = p => log[i].nth < rest[k].nth
<1> DEFINE todo  == call[p].todo
           event == Head(todo)
           rest  == Tail(todo)
           n     == Len(todo)
<1>1. todo \in Seq(Logged) /\ todo # <<>>
  BY CallIs DEF IInv
<1>2. \A k \in DOMAIN todo :
        /\ todo[k].by = p /\ todo[k].nth <= published[p]
        /\ \A l \in DOMAIN todo : k < l => todo[k].nth < todo[l].nth
        /\ \A i \in DOMAIN log : log[i].by = p => log[i].nth < todo[k].nth
  BY DEF IInv, NumbersOK
<1> HIDE DEF todo
<1>3. /\ n \in Nat /\ n # 0 /\ DOMAIN todo = 1 .. n /\ event = todo[1] /\ event \in Logged
      /\ rest \in Seq(Logged) /\ DOMAIN rest = 1 .. n - 1 /\ \A k \in 1 .. n - 1 : rest[k] = todo[k + 1]
  BY <1>1, HeadTailProperties, EmptySeq
<1> HIDE DEF event, rest, n
<1>4. 1 \in DOMAIN todo /\ \A k \in DOMAIN rest : k + 1 \in DOMAIN todo /\ 1 < k + 1 /\ k \in Nat
  BY <1>3
<1>5. ASSUME NEW k \in DOMAIN rest
      PROVE  /\ rest[k].by = p /\ rest[k].nth <= published[p] /\ event.nth < rest[k].nth
             /\ \A l \in DOMAIN rest : k < l => rest[k].nth < rest[l].nth
             /\ \A i \in DOMAIN log : log[i].by = p => log[i].nth < rest[k].nth
  <2>1. rest[k] = todo[k + 1] /\ \A l \in DOMAIN rest : rest[l] = todo[l + 1]
    BY <1>3, <1>5
  <2>2. \A l \in DOMAIN rest : k < l => k + 1 < l + 1
    BY <1>4
  <2>3. \A l \in DOMAIN rest : k < l => rest[k].nth < rest[l].nth
    BY <1>2, <1>4, <2>1, <2>2
  <2>4. event.nth < rest[k].nth
    BY <1>2, <1>3, <1>4, <2>1
  <2> QED BY <1>2, <1>4, <2>1, <2>3, <2>4
<1>6. event.by = p /\ event.nth <= published[p] /\ \A i \in DOMAIN log : log[i].by = p => log[i].nth < event.nth
  BY <1>2, <1>3, <1>4
<1> QED BY <1>3, <1>5, <1>6 DEF event, rest, todo

\* T are the subscriptions to serve, D those that matched.
Dispatched(p, rest, T, D) ==
  /\ T \in Seq(Sub) /\ D \subseteq subs /\ ToSet(T) \subseteq D /\ IsInjective(T)
  /\ \A s \in D : IF s.group = None THEN s \in ToSet(T) ELSE \E t \in ToSet(T) : t.group = s.group
  /\ \A s, t \in ToSet(T) : s.group = t.group /\ s.group # None => s = t
  /\ due' = Append(due, D) /\ rr' \in [Group \X PartitionKey -> Nat]
  /\ call' \in [Publisher -> Call] /\ \A q \in Publisher : q # p => call'[q] = call[q]
  /\ call'[p].todo = rest /\ call'[p].targets = T /\ call'[p].attempt = 0
  /\ T # <<>> => call'[p].event = Len(log) + 1

LEMMA RotatedIs ==
  ASSUME TypeOK, SubsOK, NEW type, NEW key \in PartitionKey
  PROVE  Rotated(type, key) \in [Group \X PartitionKey -> Nat]
<1>1. DOMAIN rr = Group \X PartitionKey /\ \A gk \in Group \X PartitionKey : rr[gk] \in Nat
  BY DEF TypeOK
<1>2. ASSUME NEW gk \in Group \X PartitionKey, gk[2] = key, gk[1] \in GroupsOf(type)
      PROVE  Turn(type, key, gk[1]) + 1 \in Nat
  <2> DEFINE r == rr[<<gk[1], key>>]
             M == Members(type, gk[1])
             n == Cardinality(M)
  <2>1. r \in Nat
    <3>1. <<gk[1], key>> \in Group \X PartitionKey
      BY <1>2
    <3> QED BY <1>1, <3>1
  <2>2. n \in Nat /\ n # 0
    <3>1. M \in SUBSET Matching(type) /\ M # {}
      BY <1>2 DEF GroupsOf, Members
    <3>2. IsFiniteSet(M)
      BY <3>1, MatchingIs
    <3> QED BY <3>1, <3>2, FS_CardinalityType, FS_EmptySet
  <2> HIDE DEF r, n
  <2>3. r % n \in Nat
    BY <2>1, <2>2
  <2>4. Turn(type, key, gk[1]) = r % n
    BY DEF Turn, r, n
  <2> QED BY <2>3, <2>4
<1> QED BY <1>1, <1>2 DEF Rotated

LEMMA DispatchIs ==
  ASSUME IInv, NEW p \in Publisher, NEW event \in Logged, NEW rest \in Seq(Logged), Dispatch(p, event, rest)
  PROVE  \E T, D : Dispatched(p, rest, T, D)
<1> DEFINE n == Len(log) + 1
<1>1. event.type \in Type /\ event.key \in PartitionKey
  BY DEF Logged
<1>2. n \in Nat /\ call \in [Publisher -> Call] /\ rr \in [Group \X PartitionKey -> Nat]
  BY DEF IInv, TypeOK
<1>3. <<>> \in Seq(Sub) /\ ToSet(<<>>) = {} /\ IsInjective(<<>>)
  BY EmptySeq DEF ToSet, IsInjective
<1> DEFINE idle == [NoCall EXCEPT !.todo = rest]
<1>4. idle \in Call /\ idle.todo = rest /\ idle.targets = <<>> /\ idle.attempt = 0
  BY <1>3 DEF NoCall, Call
<1> HIDE DEF idle, n
<1>5. CASE paused
  <2>1. call' = [call EXCEPT ![p] = idle] /\ due' = Append(due, {}) /\ rr' = rr
    BY <1>5 DEF Dispatch, idle
  <2>2. /\ call' \in [Publisher -> Call] /\ call'[p] = idle
        /\ \A q \in Publisher : q # p => call'[q] = call[q]
    BY <1>2, <1>4, <2>1
  <2>3. Dispatched(p, rest, <<>>, {})
    BY <1>2, <1>3, <1>4, <2>1, <2>2 DEF Dispatched
  <2> QED BY <2>3
<1>6. CASE ~ paused
  <2> DEFINE T == Targets(event.type, event.key)
             D == Matching(event.type)
             d == [todo |-> rest, event |-> n, targets |-> T, attempt |-> 0]
             r == Remaining(d)
  <2>1. call' = [call EXCEPT ![p] = r] /\ due' = Append(due, D) /\ rr' = Rotated(event.type, event.key)
    BY <1>6 DEF Dispatch, n
  <2>2. rr' \in [Group \X PartitionKey -> Nat]
    BY <1>1, <2>1, RotatedIs DEF IInv
  <2>3. /\ T \in Seq(Sub) /\ ToSet(T) \subseteq D /\ IsInjective(T)
        /\ \A s \in D : IF s.group = None THEN s \in ToSet(T) ELSE \E t \in ToSet(T) : t.group = s.group
        /\ \A s, t \in ToSet(T) : s.group = t.group /\ s.group # None => s = t
    <3>1. TypeOK /\ SubsOK
      BY DEF IInv
    <3> QED BY <1>1, <3>1, TargetsAre
  <2>4. D \subseteq subs
    BY DEF Matching
  <2> HIDE DEF T, D
  <2>5. d \in Call /\ d.todo = rest /\ d.targets = T /\ d.attempt = 0 /\ d.event = n
    BY <1>2, <2>3 DEF Call
  <2> HIDE DEF d
  <2>6. r \in Call /\ r.todo = rest /\ r.targets = T /\ r.attempt = 0 /\ (T # <<>> => r.event = n)
    <3>1. CASE T = <<>>
      BY <1>4, <2>5, <3>1 DEF Remaining, idle
    <3>2. CASE T # <<>>
      BY <2>5, <3>2 DEF Remaining
    <3> QED BY <3>1, <3>2
  <2> HIDE DEF r
  <2>7. /\ call' \in [Publisher -> Call] /\ call'[p] = r
        /\ \A q \in Publisher : q # p => call'[q] = call[q]
    BY <1>2, <2>1, <2>6
  <2>8. Dispatched(p, rest, T, D)
    BY <2>1, <2>2, <2>3, <2>4, <2>6, <2>7 DEF Dispatched, n
  <2> QED BY <2>8
<1> QED BY <1>5, <1>6

LEMMA AcceptKeeps ==
  ASSUME IInv, NEW p \in Publisher, Accept(p)
  PROVE  IInv'
<1> DEFINE event == Head(call[p].todo)
           rest  == Tail(call[p].todo)
           n     == Len(log) + 1
<1>1. /\ call[p].targets = <<>> /\ call[p].todo # <<>> /\ log' = Append(log, event)
      /\ Dispatch(p, event, rest)
      /\ UNCHANGED <<subs, counter, dlq, paused, got, calls, published>>
  BY DEF Accept, Ready, Serving
<1>2. /\ event \in Logged /\ event.by = p /\ event.nth <= published[p] /\ rest \in Seq(Logged)
      /\ \A i \in DOMAIN log : log[i].by = p => log[i].nth < event.nth
      /\ \A k \in DOMAIN rest :
           /\ rest[k].by = p /\ rest[k].nth <= published[p] /\ event.nth < rest[k].nth
           /\ \A l \in DOMAIN rest : k < l => rest[k].nth < rest[l].nth
           /\ \A i \in DOMAIN log : log[i].by = p => log[i].nth < rest[k].nth
  BY <1>1, AcceptedIs
<1> HIDE DEF event, rest
<1>3. PICK T, D : Dispatched(p, rest, T, D)
  BY <1>1, <1>2, DispatchIs
<1>4. /\ T \in Seq(Sub) /\ D \subseteq subs /\ ToSet(T) \subseteq D /\ IsInjective(T)
      /\ \A s \in D : IF s.group = None THEN s \in ToSet(T) ELSE \E t \in ToSet(T) : t.group = s.group
      /\ \A s, t \in ToSet(T) : s.group = t.group /\ s.group # None => s = t
      /\ due' = Append(due, D) /\ rr' \in [Group \X PartitionKey -> Nat]
  BY <1>3 DEF Dispatched
<1>5. /\ call' \in [Publisher -> Call] /\ \A q \in Publisher : q # p => call'[q] = call[q]
      /\ call'[p].todo = rest /\ call'[p].targets = T /\ call'[p].attempt = 0
      /\ T # <<>> => call'[p].event = n
  BY <1>3 DEF Dispatched
<1>6. TypeOK /\ log \in Seq(Logged) /\ due \in Seq(SUBSET Sub) /\ Len(due) = Len(log) /\ D \in SUBSET Sub
  BY <1>4 DEF IInv, DispatchOK, TypeOK
<1>7. /\ log' \in Seq(Logged) /\ Len(log) \in Nat /\ DOMAIN log = 1 .. Len(log) /\ DOMAIN log' = 1 .. n
      /\ \A k \in 1 .. Len(log) : log'[k] = log[k] /\ k \in 1 .. n
      /\ log'[n] = event /\ n \in 1 .. n
      /\ \A k \in 1 .. n : k \in 1 .. Len(log) \/ k = n
  BY <1>1, <1>2, <1>6, AppendIs
<1>8. /\ due' \in Seq(SUBSET Sub) /\ DOMAIN due = 1 .. Len(log) /\ DOMAIN due' = 1 .. n
      /\ \A k \in 1 .. Len(log) : due'[k] = due[k]
      /\ due'[n] = D
  BY <1>4, <1>6, AppendIs
<1> HIDE DEF n
<1>9. n \notin DOMAIN log /\ n \in Nat /\ n = Len(log) + 1
  BY <1>7 DEF n
<1>10. \A s, e : Settled(s, e)' <=> Settled(s, e)
  BY <1>1, SettledSame
<1>11. \A s \in SubId : ~ Settled(s, n)
  BY <1>9 DEF IInv, DispatchOK
<1>12. \A q \in Publisher : Serving(q) => call[q].event \in DOMAIN log /\ call[q].event # n
  BY <1>9 DEF IInv, CallOK
<1>13. \A s : \A e \in DOMAIN log : Awaits(s, e)' <=> Awaits(s, e)
  <2> SUFFICES ASSUME NEW s, NEW e \in DOMAIN log PROVE Awaits(s, e)' <=> Awaits(s, e)
    OBVIOUS
  <2>1. ASSUME NEW q \in Publisher
        PROVE  (Serving(q)' /\ call'[q].event = e) <=> (Serving(q) /\ call[q].event = e)
    <3>1. CASE q = p
      BY <1>1, <1>5, <1>9, <3>1 DEF Serving
    <3>2. CASE q # p
      BY <1>5, <3>2 DEF Serving
    <3> QED BY <3>1, <3>2
  <2>2. \A q \in Publisher : Serving(q) => call'[q].targets = call[q].targets
    BY <1>1, <1>5 DEF Serving
  <2> QED BY <2>1, <2>2 DEF Awaits
<1>14. ASSUME NEW e \in Nat, e = n PROVE \A s : Awaits(s, e)' <=> s \in ToSet(T)
  <2>1. T = <<>> => ToSet(T) = {}
    BY DEF ToSet
  <2>2. ASSUME NEW s, s \in ToSet(T) PROVE Serving(p)' /\ call'[p].event = e /\ s \in ToSet(call'[p].targets)
    BY <1>5, <1>14, <2>1, <2>2 DEF Serving
  <2>3. ASSUME NEW s, NEW q \in Publisher, Serving(q)', call'[q].event = e, s \in ToSet(call'[q].targets)
        PROVE  s \in ToSet(T)
    <3>1. CASE q = p
      BY <1>5, <2>3, <3>1
    <3>2. CASE q # p
      BY <1>5, <1>12, <1>14, <2>3, <3>2 DEF Serving
    <3> QED BY <3>1, <3>2
  <2> QED BY <2>2, <2>3 DEF Awaits
<1>15. \A s : \A e \in DOMAIN log : Chosen(s, e)' <=> Chosen(s, e)
  BY <1>10, <1>13 DEF Chosen
<1>16. ASSUME NEW e \in Nat, e = n PROVE \A s \in D : Chosen(s, e)' <=> s \in ToSet(T)
  <2>1. \A s \in D : s.id \in SubId
    BY <1>6 DEF Sub
  <2>2. \A s \in D : ~ Settled(s.id, e)'
    BY <1>10, <1>11, <1>16, <2>1
  <2> QED BY <1>14, <1>16, <2>2 DEF Chosen
<1>17. DispatchOK'
  <2>1. ASSUME NEW e \in DOMAIN due', NEW x, x = e, e \in DOMAIN log
        PROVE  Covered(x)' /\ OneOfEach(x)'
    <3>1. Covered(x) /\ OneOfEach(x) /\ due'[x] = due[x]
      BY <1>7, <1>8, <2>1 DEF IInv, DispatchOK
    <3>2. Covered(x)'
      BY <1>15, <2>1, <3>1 DEF Covered
    <3>3. OneOfEach(x)'
      BY <1>15, <2>1, <3>1 DEF OneOfEach
    <3> QED BY <3>2, <3>3
  <2>2. ASSUME NEW e \in Nat, e = n PROVE Covered(e)' /\ OneOfEach(e)'
    <3>1. due'[e] = D /\ \A s \in D : Chosen(s, e)' <=> s \in ToSet(T)
      BY <1>8, <1>16, <2>2
    <3>2. Covered(e)'
      BY <1>4, <3>1 DEF Covered
    <3>3. OneOfEach(e)'
      BY <1>4, <3>1 DEF OneOfEach
    <3> QED BY <3>2, <3>3
  <2>3. \A e \in DOMAIN due' : e \in Nat /\ (e \in DOMAIN log \/ e = n)
    BY <1>7, <1>8, <1>9
  <2>4. \A e \in DOMAIN due' : Covered(e)' /\ OneOfEach(e)'
    BY <2>1, <2>2, <2>3
  <2>5. \A s \in SubId, e \in Nat : Settled(s, e)' => e \in DOMAIN log'
    BY <1>7, <1>10 DEF IInv, DispatchOK
  <2>6. Len(due') = Len(log')
    BY <1>7, <1>8
  <2>7. \A s \in SubId : IsInjective(got'[s])
    BY <1>1 DEF IInv, DispatchOK
  <2> QED BY <2>4, <2>5, <2>6, <2>7 DEF DispatchOK
<1>18. ASSUME NEW q \in Publisher PROVE CallOK(q)'
  <2>0. CallOK(q)
    BY DEF IInv
  <2>1. CASE q = p
    <3>1. calls'[p] = 0 /\ 0 < MaxAttempts
      BY <1>1, <2>0, <2>1, EventBusAssumption DEF CallOK, Serving
    <3>2. \A s \in ToSet(T), e \in Nat : e = n => ~ Settled(s.id, e)'
      <4>1. \A s \in ToSet(T) : s.id \in SubId
        BY <1>4, <1>6 DEF Sub
      <4> QED BY <1>10, <1>11, <4>1
    <3>3. \A e \in DOMAIN log' : e <= n
      BY <1>7, <1>9
    <3>4. ASSUME T # <<>>
          PROVE  /\ call'[p].event \in DOMAIN log' /\ log'[call'[p].event].by = p
                 /\ \A e \in DOMAIN log' : log'[e].by = p => e <= call'[p].event
                 /\ ToSet(T) \subseteq due'[call'[p].event]
      BY <1>2, <1>4, <1>5, <1>7, <1>8, <3>3, <3>4
    <3>5. ASSUME T # <<>>
          PROVE  \A s \in ToSet(T), e \in Nat : e = call'[p].event => ~ Settled(s.id, e)'
      BY <1>5, <3>2, <3>5
    <3>6. call'[p].event \in Nat
      BY <1>5 DEF Call
    <3> QED BY <1>4, <1>5, <2>1, <3>1, <3>4, <3>5, <3>6 DEF CallOK, Serving, Settled, Handled, GivenUp
  <2>2. CASE q # p
    <3>1. call'[q] = call[q] /\ calls'[q] = calls[q]
      BY <1>1, <1>5, <2>2
    <3>2. CASE ~ Serving(q)
      BY <2>0, <3>1, <3>2 DEF CallOK, Serving
    <3>3. CASE Serving(q)
      <4>1. /\ call[q].event \in DOMAIN log' /\ log'[call[q].event].by = q
            /\ due'[call[q].event] = due[call[q].event]
        BY <1>7, <1>8, <2>0, <3>3 DEF CallOK
      <4>2. \A e \in DOMAIN log' : log'[e].by = q => e <= call[q].event
        BY <1>2, <1>7, <2>0, <2>2, <3>3 DEF CallOK
      <4>3. \A s \in ToSet(call[q].targets), e \in Nat : e = call[q].event => ~ Settled(s.id, e)'
        BY <1>10, <2>0, <3>3 DEF CallOK
      <4>4. call[q].event \in Nat
        BY <1>6, CallIs
      <4> QED BY <2>0, <3>1, <3>3, <4>1, <4>2, <4>3, <4>4 DEF CallOK, Serving, Settled, Handled, GivenUp
    <3> QED BY <3>2, <3>3
  <2> QED BY <2>1, <2>2
<1>19. NumbersOK'
  <2>1. ASSUME NEW i \in DOMAIN log', NEW j \in DOMAIN log', i < j, log'[i].by = log'[j].by
        PROVE  log'[i].nth < log'[j].nth
    <3>1. i \in DOMAIN log
      BY <1>7, <2>1
    <3>2. CASE j \in DOMAIN log
      <4>1. log'[i] = log[i] /\ log'[j] = log[j]
        BY <1>7, <3>1, <3>2
      <4> QED BY <2>1, <3>1, <3>2, <4>1 DEF IInv, NumbersOK
    <3>3. CASE j = n
      <4>1. log'[i] = log[i] /\ log'[j] = event
        BY <1>7, <3>1, <3>3
      <4> QED BY <1>2, <2>1, <3>1, <4>1
    <3> QED BY <1>7, <3>2, <3>3
  <2>2. \A i \in DOMAIN log' : log'[i].nth <= published'[log'[i].by]
    <3>1. \A i \in DOMAIN log : log[i].nth <= published[log[i].by]
      BY DEF IInv, NumbersOK
    <3> QED BY <1>1, <1>2, <1>7, <3>1
  <2>3. ASSUME NEW q \in Publisher, NEW k \in DOMAIN call'[q].todo
        PROVE  /\ call'[q].todo[k].by = q /\ call'[q].todo[k].nth <= published'[q]
               /\ \A l \in DOMAIN call'[q].todo : k < l => call'[q].todo[k].nth < call'[q].todo[l].nth
               /\ \A i \in DOMAIN log' : log'[i].by = q => log'[i].nth < call'[q].todo[k].nth
    <3>1. CASE q = p
      <4>1. call'[q].todo = rest /\ published' = published
        BY <1>1, <1>5, <3>1
      <4>2. ASSUME NEW i \in DOMAIN log', log'[i].by = p PROVE log'[i].nth < rest[k].nth
        <5>1. CASE i \in DOMAIN log
          BY <1>2, <1>7, <2>3, <4>1, <4>2, <5>1
        <5>2. CASE i = n
          BY <1>2, <1>7, <2>3, <4>1, <5>2
        <5> QED BY <1>7, <5>1, <5>2
      <4> QED BY <1>2, <2>3, <3>1, <4>1, <4>2
    <3>2. CASE q # p
      <4>1. call'[q].todo = call[q].todo /\ published' = published
        BY <1>1, <1>5, <3>2
      <4>2. /\ call[q].todo[k].by = q /\ call[q].todo[k].nth <= published[q]
            /\ \A l \in DOMAIN call[q].todo : k < l => call[q].todo[k].nth < call[q].todo[l].nth
            /\ \A i \in DOMAIN log : log[i].by = q => log[i].nth < call[q].todo[k].nth
        BY <2>3, <4>1 DEF IInv, NumbersOK
      <4>3. \A i \in DOMAIN log' : log'[i].by = q => i \in DOMAIN log /\ log'[i] = log[i]
        BY <1>2, <1>7, <3>2
      <4> QED BY <4>1, <4>2, <4>3
    <3> QED BY <3>1, <3>2
  <2> QED BY <2>1, <2>2, <2>3 DEF NumbersOK
<1>20. SubsOK' /\ TypeOK'
  <2>1. Known' = Known
    <3>1. \A e \in DOMAIN due : e \in DOMAIN due' /\ due'[e] = due[e]
      BY <1>7, <1>8
    <3>2. \A e \in DOMAIN due' : (e \in DOMAIN due /\ due'[e] = due[e]) \/ due'[e] = D
      BY <1>7, <1>8
    <3>3. ASSUME NEW s \in Known' PROVE s \in Known
      BY <1>1, <1>4, <3>2 DEF Known
    <3>4. ASSUME NEW s \in Known PROVE s \in Known'
      BY <1>1, <3>1 DEF Known
    <3> QED BY <3>3, <3>4
  <2>2. SubsOK'
    BY <1>1, <2>1 DEF IInv, SubsOK
  <2>3. \A s, t \in (subs \cup UNION {due[e] : e \in DOMAIN due})' : s.id = t.id => s = t
    BY <2>1 DEF IInv, TypeOK, Known
  <2> QED BY <1>1, <1>4, <1>5, <1>7, <1>8, <2>2, <2>3 DEF IInv, TypeOK
<1>21. \A k \in DOMAIN dlq' : dlq'[k].calls = MaxAttempts /\ ~ Handled(dlq[k].sub, dlq[k].event)'
  BY <1>1 DEF IInv, Handled
<1>22. PublisherOrder'
  <2> SUFFICES ASSUME NEW s \in SubId, NEW i \in DOMAIN got[s], NEW j \in DOMAIN got[s], i < j,
                      log'[got[s][i]].by = log'[got[s][j]].by
               PROVE  log'[got[s][i]].nth < log'[got[s][j]].nth
    BY <1>1 DEF PublisherOrder
  <2>1. \A k \in DOMAIN got[s] : got[s][k] \in DOMAIN log
    <3> SUFFICES ASSUME NEW k \in DOMAIN got[s] PROVE got[s][k] \in DOMAIN log
      OBVIOUS
    <3>1. got[s] \in Seq(Nat)
      BY <1>6 DEF TypeOK
    <3>2. got[s][k] \in Nat /\ got[s][k] \in ToSet(got[s])
      BY <3>1 DEF ToSet
    <3>3. Settled(s, got[s][k])
      BY <3>2 DEF Settled, Handled
    <3> QED BY <3>2, <3>3 DEF IInv, DispatchOK
  <2>2. log'[got[s][i]] = log[got[s][i]] /\ log'[got[s][j]] = log[got[s][j]]
    BY <1>7, <2>1
  <2> QED BY <2>2 DEF IInv, PublisherOrder
<1> QED BY <1>17, <1>18, <1>19, <1>20, <1>21, <1>22 DEF IInv, Handled

-----------------------------------------------------------------------------
(* The invariant                                                            *)
LEMMA InitIInv == Init => IInv
<1> SUFFICES ASSUME Init PROVE IInv
  OBVIOUS
<1>1. /\ subs = {} /\ counter = 0 /\ log = <<>> /\ dlq = <<>> /\ due = <<>> /\ paused = FALSE
      /\ rr = [gk \in Group \X PartitionKey |-> 0] /\ call = [p \in Publisher |-> NoCall]
      /\ got = [s \in SubId |-> <<>>]
      /\ calls = [p \in Publisher |-> 0] /\ published = [p \in Publisher |-> 0]
  BY DEF Init
<1>2. NoCall \in Call /\ NoCall.todo = <<>> /\ NoCall.targets = <<>> /\ NoCall.attempt = 0
  BY EmptySeq DEF NoCall, Call
<1>3. /\ \A S : <<>> \in Seq(S)
      /\ DOMAIN <<>> = {} /\ Len(<<>>) = 0 /\ ToSet(<<>>) = {} /\ IsInjective(<<>>)
  BY EmptySeq DEF ToSet, IsInjective
<1>4. Known = {} /\ subs \cup UNION {due[e] : e \in DOMAIN due} = {}
  BY <1>1, <1>3 DEF Known
<1>5. TypeOK
  <2>1. call \in [Publisher -> Call] /\ got \in [SubId -> Seq(Nat)]
    BY <1>1, <1>2, <1>3
  <2>2. counter \in 0 .. MaxSubs
    BY <1>1, EventBusAssumption
  <2> QED BY <1>1, <1>3, <1>4, <2>1, <2>2 DEF TypeOK
<1>6. SubsOK
  BY <1>1, <1>4, FS_EmptySet DEF SubsOK
<1>7. \A s \in SubId, e \in Nat : ~ Settled(s, e)
  BY <1>1, <1>3 DEF Settled, Handled, GivenUp
<1>8. DispatchOK
  BY <1>1, <1>3, <1>7 DEF DispatchOK
<1>9. \A p \in Publisher : call[p] = NoCall /\ calls[p] = 0 /\ ~ Serving(p)
  BY <1>1, <1>2 DEF Serving
<1>10. \A p \in Publisher : CallOK(p)
  BY <1>2, <1>9, EventBusAssumption DEF CallOK
<1>11. NumbersOK
  BY <1>1, <1>2, <1>3, <1>9 DEF NumbersOK
<1>12. PublisherOrder
  BY <1>1, <1>3 DEF PublisherOrder
<1> QED BY <1>1, <1>3, <1>5, <1>6, <1>8, <1>10, <1>11, <1>12 DEF IInv

LEMMA StutterKeeps ==
  ASSUME IInv, UNCHANGED vars
  PROVE  IInv'
<1>1. UNCHANGED <<subs, counter, log, dlq, rr, paused, call, got, due, calls, published>>
  BY DEF vars
<1>2. /\ DispatchOK' /\ PublisherOrder'
      /\ \A k \in DOMAIN dlq' : dlq'[k].calls = MaxAttempts /\ ~ Handled(dlq[k].sub, dlq[k].event)'
  BY <1>1, DispatchKept
<1>3. \A p \in Publisher : CallOK(p)'
  BY <1>1, CallKept DEF IInv
<1>4. SubsOK' /\ NumbersOK'
  BY <1>1, SubsKept, NumbersKept DEF IInv
<1>5. TypeOK'
  <2>1. TypeOK /\ /\ dlq' \in Seq(Dead) /\ got' \in [SubId -> Seq(Nat)]
                 /\ call' \in [Publisher -> Call] /\ calls' \in [Publisher -> Nat]
    BY <1>1 DEF IInv, TypeOK
  <2> QED BY <1>1, <2>1, TypesKept
<1> QED BY <1>2, <1>3, <1>4, <1>5 DEF IInv, Handled

LEMMA NextKeepsIInv == IInv /\ [Next]_vars => IInv'
<1> SUFFICES ASSUME IInv, [Next]_vars PROVE IInv'
  OBVIOUS
<1>1. ASSUME NEW p \in Publisher, Runs(p) PROVE IInv'
  BY <1>1, AcceptKeeps, RefuseKeeps, HandlerReturnsKeeps, HandlerRaisesKeeps, DeadLetterKeeps DEF Runs
<1>2. ASSUME NEW p \in Publisher, NEW batch \in Batches, Publish(p, batch) PROVE IInv'
  BY <1>2, PublishKeeps
<1>3. ASSUME NEW w \in Wanted, Subscribe(w) PROVE IInv'
  BY <1>3, SubscribeKeeps
<1>4. ASSUME NEW s \in subs, Unsubscribe(s) PROVE IInv'
  BY <1>4, UnsubscribeKeeps
<1>5. ASSUME NEW b \in BOOLEAN, SetPaused(b) PROVE IInv'
  BY <1>5, SetPausedKeeps
<1>6. CASE UNCHANGED vars
  BY <1>6, StutterKeeps
<1> QED BY <1>1, <1>2, <1>3, <1>4, <1>5, <1>6 DEF Next

(* The invariant of the bus.                                                *)
THEOREM EventBusInductive == Spec => []IInv
<1>1. Init => IInv
  BY InitIInv
<1>2. IInv /\ [Next]_vars => IInv'
  BY NextKeepsIInv
<1> QED BY <1>1, <1>2, PTL DEF Spec

(* FR-3 to FR-6: whatever is dispatched is settled exactly once by each     *)
(* broadcast subscription and by one member of each group, after its own    *)
(* attempts, in its publisher's order (memory.py: _dispatch, _deliver).     *)
THEOREM DeliveredOnceInOrderTheorem == Spec => []DeliveredOnceInOrder
<1>1. IInv => DeliveredOnceInOrder
  <2> SUFFICES ASSUME IInv PROVE DeliveredOnceInOrder
    OBVIOUS
  <2>1. TypeOK /\ PublisherOrder /\ Len(due) = Len(log)
    BY DEF IInv, DispatchOK
  <2>2. DOMAIN due = DOMAIN log
    BY <2>1 DEF TypeOK
  <2>3. \A e \in DOMAIN due : Covered(e) /\ OneOfEach(e)
    BY DEF IInv, DispatchOK
  <2>4. OncePerGroup
    <3>1. \A s \in SubId : IsInjective(got[s])
      BY DEF IInv, DispatchOK
    <3>2. \A e \in DOMAIN due : \A s, t \in due[e] :
            s.group = t.group /\ s.group # None /\ Settled(s.id, e) /\ Settled(t.id, e) => s = t
      BY <2>3 DEF OneOfEach, Chosen
    <3> QED BY <3>1, <3>2 DEF OncePerGroup
  <2>5. NothingIsDropped
    <3>1. \A s, e : ~ UnderWay(e) /\ Chosen(s, e) => Settled(s.id, e)
      BY DEF UnderWay, Chosen, Awaits
    <3> QED BY <2>2, <2>3, <3>1 DEF NothingIsDropped, Covered
  <2>6. DeadLettersAreEarned
    <3>1. \A p \in Publisher : calls[p] < MaxAttempts
      BY DEF IInv, CallOK
    <3> QED BY <3>1 DEF IInv, DeadLettersAreEarned
  <2> QED BY <2>1, <2>4, <2>5, <2>6 DEF DeliveredOnceInOrder
<1> QED BY <1>1, EventBusInductive, PTL
=============================================================================
