---------------------------- MODULE RuntimeProofs ----------------------------
(***************************************************************************)
(* What runs and what it runs on: consumers that share the Redis streams,  *)
(* the kernel that starts and stops the services, and the campaigns that   *)
(* drive workflow runs.  The three components share no state, and their    *)
(* theorems no lemma; each part has the inductive invariant of one of them *)
(* for any number of processes, services, clients, events and phases.      *)
(***************************************************************************)
EXTENDS RedisBus, Kernel, Campaign, WorkflowRulesProofs, FiniteSetTheorems, SequenceTheorems

-----------------------------------------------------------------------------
(***************************************************************************)
(* The bus over Redis: which process has which events of a group in hand,  *)
(* and that these, what is settled and what is pending cover every event   *)
(* the group was given.                                                    *)
(***************************************************************************)
Subscription == [id : Nat, types : SUBSET Type, group : GroupName]
Outcome      == {"skipped", "handled", "dead"}

RedisTypeOK ==
  /\ stream \in Seq(Type)
  /\ groups \in [GroupName -> [exists : BOOLEAN, last : Nat, pending : SUBSET Nat]]
  /\ subs \in [Process -> Seq(Subscription)]
  /\ counter \in [Process -> Nat]
  /\ poll \in [Process -> [todo : Seq(Subscription), batch : Seq(Nat), attempt : Nat]]
  /\ faults \in Nat
  /\ fate \subseteq [group : GroupName, event : Nat, by : Process, what : Outcome]

\* Process p has event i of group g in the batch it is working on.
Holds(p, g, i) == Polling(p) /\ Sub(p).group = g /\ i \in Held(p)

\* A batch belongs to a subscription, and is in stream order.
BatchesOK ==
  \A p \in Process :
    /\ ~ Polling(p) => poll[p].batch = <<>>
    /\ \A j, k \in 1 .. Len(poll[p].batch) : j < k => poll[p].batch[j] < poll[p].batch[k]

Accounted ==
  /\ \A g \in GroupName : groups[g].exists \/ groups[g] = Absent
  /\ \A p \in Process, g \in GroupName, i \in Nat : Holds(p, g, i) => i \in 1 .. groups[g].last
  /\ \A p, q \in Process, g \in GroupName, i \in Nat : Holds(p, g, i) /\ Holds(q, g, i) => p = q
  /\ \A f \in fate : f.event \in 1 .. groups[f.group].last
  /\ \A f \in fate, p \in Process : ~ Holds(p, f.group, f.event)
  /\ \A f \in fate, p \in Process, i \in Nat : f.by = p /\ Holds(p, f.group, i) => f.event < i
  /\ OncePerGroup
  /\ \A g \in GroupName : \A i \in 1 .. groups[g].last :
       Unsettled(g, i) => i \in groups[g].pending
  /\ faults = 0 => \A g \in GroupName : \A i \in 1 .. groups[g].last :
       Unsettled(g, i) => \E p \in Process : Holds(p, g, i)

\* A group was never given more than the stream holds.
WithinStream == \A g \in GroupName : groups[g].last <= Len(stream)

RedisInv == RedisTypeOK /\ BatchesOK /\ WithinStream /\ Accounted

-----------------------------------------------------------------------------
LEMMA RedisTypes ==
  ASSUME RedisTypeOK, NEW p \in Process
  PROVE  /\ poll[p].todo \in Seq(Subscription) /\ poll[p].batch \in Seq(Nat)
         /\ poll[p].attempt \in Nat
         /\ subs[p] \in Seq(Subscription)
         /\ Len(stream) \in Nat
         /\ \A g \in GroupName : groups[g].last \in Nat /\ groups[g].pending \subseteq Nat
         /\ Polling(p) => /\ Sub(p) \in Subscription /\ Sub(p).group \in GroupName
                          /\ Tail(poll[p].todo) \in Seq(Subscription)
<1>1. poll[p].todo \in Seq(Subscription)
  BY DEF RedisTypeOK
<1>2. Polling(p) => Sub(p) \in Subscription /\ Tail(poll[p].todo) \in Seq(Subscription)
  BY <1>1, HeadTailProperties DEF Polling, Sub
<1>3. Polling(p) => Sub(p).group \in GroupName
  BY <1>2 DEF Subscription
<1> QED BY <1>1, <1>2, <1>3 DEF RedisTypeOK

\* What a process has in hand, in terms of its poll()
LEMMA HeldIs ==
  ASSUME RedisTypeOK, BatchesOK, NEW p \in Process
  PROVE  Held(p) = {poll[p].batch[k] : k \in 1 .. Len(poll[p].batch)}
<1>1. DOMAIN poll[p].batch = 1 .. Len(poll[p].batch)
  BY RedisTypes, LenProperties
<1>2. CASE Polling(p)
  BY <1>1, <1>2 DEF Held
<1>3. CASE ~ Polling(p)
  <2>1. poll[p].batch = <<>>
    BY <1>3 DEF BatchesOK
  <2>2. 1 .. Len(poll[p].batch) = {}
    BY <2>1
  <2> QED BY <1>3, <2>2 DEF Held
<1> QED BY <1>2, <1>3

(* Nothing is read or settled: the hands and the accounts are as before.    *)
LEMMA SameHands ==
  ASSUME RedisTypeOK, Accounted, RedisTypeOK',
         \A p \in Process, g \in GroupName, i \in Nat : Holds(p, g, i)' => Holds(p, g, i),
         \A p \in Process, g \in GroupName, i \in Nat :
           Holds(p, g, i) => Holds(p, g, i)' \/ faults' # 0,
         \A g \in GroupName : groups'[g].exists \/ groups'[g] = Absent,
         \A g \in GroupName : groups'[g].last = groups[g].last
                              /\ groups'[g].pending = groups[g].pending,
         fate' = fate, faults' = 0 => faults = 0
  PROVE  Accounted'
<1>1. \A f \in fate : f.group \in GroupName /\ f.event \in Nat /\ f.by \in Process
  BY DEF RedisTypeOK
<1>2. \A g \in GroupName, i \in Nat : Unsettled(g, i)' = Unsettled(g, i)
  BY DEF Unsettled
<1>3. OncePerGroup'
  BY DEF Accounted, OncePerGroup
<1>4. \A g \in GroupName : groups[g].last \in Nat
  BY DEF RedisTypeOK
<1>5. \A g \in GroupName : \A i \in 1 .. groups'[g].last :
        Unsettled(g, i)' => i \in groups'[g].pending
  BY <1>2, <1>4 DEF Accounted
<1>6. faults' = 0 => \A g \in GroupName : \A i \in 1 .. groups'[g].last :
        Unsettled(g, i)' => \E p \in Process : Holds(p, g, i)'
  BY <1>2, <1>4 DEF Accounted
<1>7. \A f \in fate' : f.event \in 1 .. groups'[f.group].last
  BY <1>1 DEF Accounted
<1>8. /\ \A f \in fate', p \in Process : ~ Holds(p, f.group, f.event)'
      /\ \A f \in fate', p \in Process, i \in Nat : f.by = p /\ Holds(p, f.group, i)' => f.event < i
  BY <1>1 DEF Accounted
<1>9. /\ \A p \in Process, g \in GroupName, i \in Nat : Holds(p, g, i)' => i \in 1 .. groups'[g].last
      /\ \A p, q \in Process, g \in GroupName, i \in Nat : Holds(p, g, i)' /\ Holds(q, g, i)' => p = q
  BY DEF Accounted
<1> QED BY <1>3, <1>5, <1>6, <1>7, <1>8, <1>9 DEF Accounted

(* XREADGROUP: the events from + 1 .. until become pending and are in the   *)
(* hands of the process that read them, and in no other.                    *)
LEMMA ReadKeepsAccounts ==
  ASSUME RedisTypeOK, Accounted, RedisTypeOK', NEW p \in Process, NEW h \in GroupName,
         NEW from \in Nat, NEW until \in Nat, from = groups[h].last, from <= until,
         groups' = [groups EXCEPT ![h] = [exists  |-> TRUE, last |-> until,
                                          pending |-> groups[h].pending \cup (from + 1 .. until)]],
         \A g \in GroupName, i \in Nat : ~ Holds(p, g, i),
         \A g \in GroupName, i \in Nat : Holds(p, g, i)' <=> g = h /\ i \in from + 1 .. until,
         \A q \in Process, g \in GroupName, i \in Nat : q # p => (Holds(q, g, i)' <=> Holds(q, g, i)),
         fate' = fate, faults' = faults
  PROVE  Accounted'
<1>1. \A f \in fate : f.group \in GroupName /\ f.event \in Nat /\ f.by \in Process
  BY DEF RedisTypeOK
<1>2. \A g \in GroupName, i \in Nat : Unsettled(g, i)' = Unsettled(g, i)
  BY DEF Unsettled
<1>3. OncePerGroup'
  BY DEF Accounted, OncePerGroup
<1>4. \A g \in GroupName : groups[g].last \in Nat
  BY DEF RedisTypeOK
<1>5. /\ groups'[h].exists /\ groups'[h].last = until
      /\ groups'[h].pending = groups[h].pending \cup (from + 1 .. until)
      /\ \A g \in GroupName : g # h => groups'[g] = groups[g]
  BY DEF RedisTypeOK
<1>6. \A i \in 1 .. until : i \in 1 .. from \/ i \in from + 1 .. until
  OBVIOUS
<1>7. \A g \in GroupName : \A i \in 1 .. groups'[g].last :
        Unsettled(g, i)' => i \in groups'[g].pending
  <2> SUFFICES ASSUME NEW g \in GroupName, NEW i \in 1 .. groups'[g].last, Unsettled(g, i)'
               PROVE  i \in groups'[g].pending
    OBVIOUS
  <2>1. CASE g = h
    BY <1>2, <1>5, <1>6, <2>1 DEF Accounted
  <2>2. CASE g # h
    BY <1>2, <1>4, <1>5, <2>2 DEF Accounted
  <2> QED BY <2>1, <2>2
<1>8. ASSUME faults' = 0, NEW g \in GroupName, NEW i \in 1 .. groups'[g].last, Unsettled(g, i)'
      PROVE  \E q \in Process : Holds(q, g, i)'
  <2>1. i \in Nat /\ Unsettled(g, i)
    BY <1>2, <1>8
  <2>2. CASE g = h /\ i \in from + 1 .. until
    BY <2>1, <2>2
  <2>3. CASE ~ (g = h /\ i \in from + 1 .. until)
    <3>1. i \in 1 .. groups[g].last
      BY <1>5, <1>6, <2>3
    <3>2. PICK q \in Process : Holds(q, g, i)
      BY <1>8, <2>1, <3>1 DEF Accounted
    <3> QED BY <2>1, <3>2
  <2> QED BY <2>2, <2>3
<1>9. \A f \in fate' : f.event \in 1 .. groups'[f.group].last
  BY <1>1, <1>4, <1>5 DEF Accounted
<1>10. \A f \in fate : f.group = h => f.event \in 1 .. from
  BY DEF Accounted
<1>11. ASSUME NEW f \in fate, NEW q \in Process, NEW i \in Nat, Holds(q, f.group, i)'
       PROVE  i # f.event /\ (f.by = q => f.event < i)
  <2>1. CASE q = p
    <3>1. f.event \in 1 .. from /\ i \in from + 1 .. until
      BY <1>1, <1>10, <1>11, <2>1
    <3> QED BY <3>1
  <2>2. CASE q # p
    BY <1>1, <1>11, <2>2 DEF Accounted
  <2> QED BY <2>1, <2>2
<1>12. ASSUME NEW q \in Process, NEW g \in GroupName, NEW i \in Nat, Holds(q, g, i)'
       PROVE  i \in 1 .. groups'[g].last
  <2>1. CASE q = p
    BY <1>5, <1>12, <2>1
  <2>2. CASE q # p
    <3>1. i \in 1 .. groups[g].last
      BY <1>12, <2>2 DEF Accounted
    <3> QED BY <1>4, <1>5, <3>1
  <2> QED BY <2>1, <2>2
<1>13. ASSUME NEW q \in Process, NEW r \in Process, NEW g \in GroupName, NEW i \in Nat,
              Holds(q, g, i)', Holds(r, g, i)'
       PROVE  q = r
  <2>1. \A o \in Process : o # p /\ Holds(o, g, i)' => i \in 1 .. groups[g].last
    BY DEF Accounted
  <2>2. Holds(p, g, i)' => g = h /\ i > from
    OBVIOUS
  <2>3. CASE q # p /\ r # p
    BY <1>13, <2>3 DEF Accounted
  <2>4. CASE q = p \/ r = p
    BY <1>13, <2>1, <2>2, <2>4
  <2> QED BY <2>3, <2>4
<1>14. \A g \in GroupName : groups'[g].exists \/ groups'[g] = Absent
  BY <1>5 DEF Accounted
<1>15. /\ \A f \in fate', q \in Process : ~ Holds(q, f.group, f.event)'
       /\ \A f \in fate', q \in Process, i \in Nat : f.by = q /\ Holds(q, f.group, i)' => f.event < i
  BY <1>1, <1>11
<1> QED BY <1>3, <1>7, <1>8, <1>9, <1>12, <1>13, <1>14, <1>15 DEF Accounted

(* What process p settled of the events in its hands: it was in nobody      *)
(* else's, and it comes before those that p still has.                      *)
LEMMA SettleKeepsAccounts ==
  ASSUME RedisTypeOK, Accounted, RedisTypeOK', NEW p \in Process, NEW h \in GroupName,
         NEW e \in Nat, NEW what \in Outcome, Holds(p, h, e),
         fate' = fate \cup {[group |-> h, event |-> e, by |-> p, what |-> what]},
         \A g \in GroupName : /\ groups'[g].exists = groups[g].exists
                              /\ groups'[g].last = groups[g].last,
         \A g \in GroupName : groups[g] = Absent => groups'[g] = Absent,
         \A g \in GroupName : \A i \in groups[g].pending : g # h \/ i # e => i \in groups'[g].pending,
         \A g \in GroupName, i \in Nat : Holds(p, g, i)' => Holds(p, g, i) /\ g = h /\ e < i,
         \A g \in GroupName, i \in Nat :
           Holds(p, g, i) => i = e \/ Holds(p, g, i)' \/ faults' # 0,
         \A q \in Process, g \in GroupName, i \in Nat : q # p => (Holds(q, g, i)' <=> Holds(q, g, i)),
         faults' = 0 => faults = 0
  PROVE  Accounted'
<1> DEFINE new == [group |-> h, event |-> e, by |-> p, what |-> what]
<1>0. new.group = h /\ new.event = e /\ new.by = p /\ fate' = fate \cup {new}
  OBVIOUS
<1> HIDE DEF new
<1>1. \A f \in fate : f.group \in GroupName /\ f.event \in Nat /\ f.by \in Process
  BY DEF RedisTypeOK
<1>2. \A g \in GroupName, i \in Nat : Unsettled(g, i)' => Unsettled(g, i) /\ ~ (g = h /\ i = e)
  BY <1>0 DEF Unsettled
<1>3. \A f \in fate : ~ (f.group = h /\ f.event = e)
  BY DEF Accounted
<1>4. OncePerGroup'
  BY <1>0, <1>3 DEF Accounted, OncePerGroup
<1>5. \A g \in GroupName : groups[g].last \in Nat
  BY DEF RedisTypeOK
<1>6. \A g \in GroupName : \A i \in 1 .. groups'[g].last :
        Unsettled(g, i)' => i \in groups'[g].pending
  BY <1>2, <1>5 DEF Accounted
<1>7. ASSUME faults' = 0, NEW g \in GroupName, NEW i \in 1 .. groups'[g].last, Unsettled(g, i)'
      PROVE  \E q \in Process : Holds(q, g, i)'
  <2>1. i \in Nat /\ Unsettled(g, i) /\ ~ (g = h /\ i = e) /\ i \in 1 .. groups[g].last
    BY <1>2, <1>5, <1>7
  <2>2. PICK q \in Process : Holds(q, g, i)
    BY <1>7, <2>1 DEF Accounted
  <2>3. CASE q # p
    BY <2>1, <2>2, <2>3
  <2>4. CASE q = p
    <3>1. g = h
      BY <2>2, <2>4 DEF Holds
    <3> QED BY <1>7, <2>1, <2>2, <2>4, <3>1
  <2> QED BY <2>3, <2>4
<1>8. e \in 1 .. groups[h].last
  BY DEF Accounted
<1>9. \A f \in fate' : f.event \in 1 .. groups'[f.group].last
  BY <1>0, <1>1, <1>8 DEF Accounted
<1>10. \A q \in Process, g \in GroupName, i \in Nat : Holds(q, g, i)' => Holds(q, g, i)
  OBVIOUS
<1>11. ASSUME NEW f \in fate', NEW q \in Process, NEW i \in Nat, Holds(q, f.group, i)'
       PROVE  i # f.event /\ (f.by = q => f.event < i)
  <2>1. CASE f \in fate
    BY <1>1, <1>10, <1>11, <2>1 DEF Accounted
  <2>2. CASE f = new /\ q = p
    BY <1>0, <1>11, <2>2
  <2>3. CASE f = new /\ q # p
    <3>1. Holds(q, h, i)
      BY <1>0, <1>11, <2>3
    <3> QED BY <1>0, <2>3, <3>1 DEF Accounted
  <2> QED BY <1>0, <2>1, <2>2, <2>3
<1>12. /\ \A q \in Process, g \in GroupName, i \in Nat : Holds(q, g, i)' => i \in 1 .. groups'[g].last
       /\ \A q, r \in Process, g \in GroupName, i \in Nat : Holds(q, g, i)' /\ Holds(r, g, i)' => q = r
  BY <1>10 DEF Accounted
<1>13. \A g \in GroupName : groups'[g].exists \/ groups'[g] = Absent
  BY DEF Accounted
<1>14. \A f \in fate' : f.group \in GroupName /\ f.event \in Nat
  BY <1>0, <1>1
<1>15. /\ \A f \in fate', q \in Process : ~ Holds(q, f.group, f.event)'
       /\ \A f \in fate', q \in Process, i \in Nat : f.by = q /\ Holds(q, f.group, i)' => f.event < i
  BY <1>11, <1>14
<1> QED BY <1>4, <1>6, <1>7, <1>9, <1>12, <1>13, <1>15 DEF Accounted

-----------------------------------------------------------------------------
PollState == [todo : Seq(Subscription), batch : Seq(Nat), attempt : Nat]

InOrder(n) == /\ n.todo = <<>> => n.batch = <<>>
              /\ \A j, k \in 1 .. Len(n.batch) : j < k => n.batch[j] < n.batch[k]

\* A process moves on in its poll(): what it then has in hand.
LEMMA PollMoves ==
  ASSUME RedisTypeOK, BatchesOK, NEW p \in Process, NEW n \in PollState, InOrder(n),
         poll' = [poll EXCEPT ![p] = n], RedisTypeOK'
  PROVE  /\ BatchesOK'
         /\ \A q \in Process, g \in GroupName, i \in Nat : q # p => (Holds(q, g, i)' <=> Holds(q, g, i))
         /\ \A g \in GroupName, i \in Nat :
              Holds(p, g, i)' <=> /\ n.todo # <<>> /\ Head(n.todo).group = g
                                  /\ \E k \in 1 .. Len(n.batch) : n.batch[k] = i
<1>1. poll'[p] = n /\ \A q \in Process : q # p => poll'[q] = poll[q]
  BY DEF RedisTypeOK
<1>2. BatchesOK'
  BY <1>1 DEF BatchesOK, Polling, InOrder
<1>3. \A q \in Process, g \in GroupName, i \in Nat : q # p => (Holds(q, g, i)' <=> Holds(q, g, i))
  BY <1>1 DEF Holds, Held, Polling, Sub
<1>4. DOMAIN n.batch = 1 .. Len(n.batch)
  BY LenProperties DEF PollState
<1>5. ASSUME NEW g \in GroupName, NEW i \in Nat
      PROVE  Holds(p, g, i)' <=> /\ n.todo # <<>> /\ Head(n.todo).group = g
                                 /\ \E k \in 1 .. Len(n.batch) : n.batch[k] = i
  BY <1>1, <1>4 DEF Holds, Held, Polling, Sub
<1> QED BY <1>2, <1>3, <1>5

\* No poll() moves: every batch stays where it is.
LEMMA PollStays ==
  ASSUME BatchesOK, poll' = poll
  PROVE  /\ BatchesOK'
         /\ \A q \in Process, g \in GroupName, i \in Nat : Holds(q, g, i)' <=> Holds(q, g, i)
BY DEF BatchesOK, Holds, Held, Polling, Sub

LEMMA NotPollingIs ==
  /\ NotPolling \in PollState /\ InOrder(NotPolling) /\ NotPolling.todo = <<>>
<1>1. NotPolling.todo = <<>> /\ NotPolling.batch = <<>> /\ NotPolling.attempt = 0
  BY DEF NotPolling
<1>2. <<>> \in Seq(Subscription) /\ <<>> \in Seq(Nat)
  OBVIOUS
<1>3. NotPolling \in PollState
  BY <1>2 DEF NotPolling, PollState
<1>4. 1 .. Len(<<>>) = {}
  OBVIOUS
<1> QED BY <1>1, <1>3, <1>4 DEF InOrder

(* publish(), subscribe(), unsubscribe() and the start of poll()            *)
LEMMA PublishKeeps ==
  ASSUME RedisInv, NEW batch \in Batches, Publish(batch) PROVE RedisInv'
<1>1. batch \in Seq(Type)
  BY RedisBusAssumption
<1>2. stream' \in Seq(Type)
  BY <1>1, ConcatProperties DEF Publish, RedisInv, RedisTypeOK
<1>3. RedisTypeOK'
  BY <1>2 DEF Publish, RedisInv, RedisTypeOK
<1>4. Accounted'
  BY <1>3, PollStays, SameHands DEF Publish, RedisInv, Accounted
<1>5. WithinStream'
  <2>1. Len(stream') = Len(stream) + Len(batch) /\ Len(batch) \in Nat
    BY <1>1, ConcatProperties, LenProperties DEF Publish, RedisInv, RedisTypeOK
  <2>2. Len(stream) \in Nat /\ \A g \in GroupName : groups[g].last \in Nat
    BY RedisTypes, LenProperties DEF RedisInv, RedisTypeOK
  <2> QED BY <2>1, <2>2 DEF Publish, RedisInv, WithinStream
<1> QED BY <1>3, <1>4, <1>5, PollStays DEF RedisInv, Publish

LEMMA SubscribeKeeps ==
  ASSUME RedisInv, NEW p \in Process, Subscribe(p) PROVE RedisInv'
<1> DEFINE w == Program[p][counter[p] + 1]
           g == NameFor(p, w)
           s == [id |-> counter[p] + 1, types |-> w.types, group |-> g]
<1>0. /\ counter[p] < Len(Program[p]) /\ counter' = [counter EXCEPT ![p] = @ + 1]
      /\ groups' = [groups EXCEPT ![g] = Joined(g)]
      /\ subs' = [subs EXCEPT ![p] = Append(subs[p], s)]
      /\ UNCHANGED <<stream, poll, faults, fate>>
  BY DEF Subscribe
<1>1. /\ counter[p] \in Nat
      /\ Program[p] \in Seq([types : SUBSET Type, group : Group \cup {None}])
  BY RedisBusAssumption DEF RedisInv, RedisTypeOK
<1>2. counter[p] + 1 \in 1 .. Len(Program[p]) /\ DOMAIN Program[p] = 1 .. Len(Program[p])
  BY <1>0, <1>1, LenProperties
<1>3. w \in [types : SUBSET Type, group : Group \cup {None}]
  BY <1>1, <1>2, ElementOfSeq
<1>4. g \in GroupName
  <2>1. CASE w.group = None
    <3>1. counter[p] + 1 \in UNION {DOMAIN Program[q] : q \in Process}
      BY <1>2
    <3> QED BY <2>1, <3>1 DEF NameFor, GroupName, Broadcast
  <2>2. CASE w.group # None
    <3>1. w.group \in Group
      BY <1>3, <2>2
    <3> QED BY <2>2, <3>1 DEF NameFor, GroupName
  <2> QED BY <2>1, <2>2
<1> HIDE DEF w, g
<1>5. s \in Subscription
  BY <1>1, <1>3, <1>4 DEF Subscription
<1> HIDE DEF s
<1>6. /\ Joined(g) \in [exists : BOOLEAN, last : Nat, pending : SUBSET Nat]
      /\ Joined(g).exists /\ Joined(g).last = groups[g].last /\ Joined(g).pending = groups[g].pending
  BY <1>4 DEF Joined, Absent, RedisInv, RedisTypeOK, Accounted
<1>7. RedisTypeOK'
  <2>1. groups' \in [GroupName -> [exists : BOOLEAN, last : Nat, pending : SUBSET Nat]]
    BY <1>0, <1>4, <1>6 DEF RedisInv, RedisTypeOK
  <2>2. Append(subs[p], s) \in Seq(Subscription)
    BY <1>5, RedisTypes, AppendProperties DEF RedisInv
  <2>3. subs' \in [Process -> Seq(Subscription)] /\ counter' \in [Process -> Nat]
    BY <1>0, <1>1, <2>2 DEF RedisInv, RedisTypeOK
  <2> QED BY <1>0, <2>1, <2>3 DEF RedisInv, RedisTypeOK
<1>8. \A h \in GroupName : /\ groups'[h].last = groups[h].last
                           /\ groups'[h].pending = groups[h].pending
                           /\ groups'[h].exists \/ groups'[h] = Absent
  BY <1>0, <1>4, <1>6 DEF RedisInv, RedisTypeOK, Accounted
<1>9. Accounted'
  BY <1>0, <1>7, <1>8, PollStays, SameHands DEF RedisInv
<1>10. WithinStream'
  BY <1>0, <1>8 DEF RedisInv, WithinStream
<1> QED BY <1>0, <1>7, <1>9, <1>10, PollStays DEF RedisInv

LEMMA UnsubscribeKeeps ==
  ASSUME RedisInv, NEW p \in Process, NEW k \in DOMAIN subs[p], Unsubscribe(p, k) PROVE RedisInv'
<1>1. subs[p] \in Seq(Subscription) /\ k \in 1 .. Len(subs[p])
  BY RedisTypes, LenProperties DEF RedisInv
<1>2. RemoveAt(subs[p], k) \in Seq(Subscription)
  <2>1. SubSeq(subs[p], 1, k - 1) \in Seq(Subscription)
    BY <1>1, ElementOfSeq, SubSeqProperties
  <2>2. SubSeq(subs[p], k + 1, Len(subs[p])) \in Seq(Subscription)
    BY <1>1, ElementOfSeq, SubSeqProperties
  <2> QED BY <2>1, <2>2, ConcatProperties DEF RemoveAt
<1>3. RedisTypeOK'
  BY <1>2 DEF Unsubscribe, RedisInv, RedisTypeOK
<1>4. Accounted'
  BY <1>3, PollStays, SameHands DEF Unsubscribe, RedisInv, Accounted
<1> QED BY <1>3, <1>4, PollStays DEF RedisInv, Unsubscribe, WithinStream

LEMMA PollBeginsKeeps ==
  ASSUME RedisInv, NEW p \in Process, PollBegins(p) PROVE RedisInv'
<1> DEFINE n == [poll[p] EXCEPT !.todo = subs[p]]
<1>1. /\ poll' = [poll EXCEPT ![p] = n] /\ ~ Polling(p) /\ subs[p] # <<>>
      /\ UNCHANGED <<stream, groups, subs, counter, faults, fate>>
  BY DEF PollBegins
<1>2. poll[p] \in PollState /\ subs[p] \in Seq(Subscription) /\ poll[p].batch = <<>>
  BY <1>1 DEF RedisInv, RedisTypeOK, BatchesOK, PollState
<1>3. n \in PollState /\ n.todo = subs[p] /\ n.batch = <<>>
  BY <1>2 DEF PollState
<1> HIDE DEF n
<1>4. 1 .. Len(n.batch) = {}
  BY <1>3
<1>5. InOrder(n)
  BY <1>1, <1>3, <1>4 DEF InOrder
<1>6. RedisTypeOK'
  BY <1>1, <1>3 DEF RedisInv, RedisTypeOK, PollState
<1>7. /\ BatchesOK'
      /\ \A q \in Process, g \in GroupName, i \in Nat : q # p => (Holds(q, g, i)' <=> Holds(q, g, i))
      /\ \A g \in GroupName, i \in Nat : ~ Holds(p, g, i)'
  BY <1>1, <1>3, <1>4, <1>5, <1>6, PollMoves DEF RedisInv
<1>8. \A g \in GroupName, i \in Nat : ~ Holds(p, g, i)
  BY <1>1 DEF Holds
<1>9. Accounted'
  BY <1>1, <1>6, <1>7, <1>8, SameHands DEF RedisInv, Accounted
<1> QED BY <1>1, <1>6, <1>7, <1>9 DEF RedisInv, WithinStream

(* XREADGROUP                                                               *)
LEMMA ReadsKeeps ==
  ASSUME RedisInv, NEW p \in Process, Reads(p) PROVE RedisInv'
<1> DEFINE h     == Sub(p).group
           from  == groups[h].last
           until == Upto(from)
           b     == [k \in 1 .. until - from |-> from + k]
           n     == [todo |-> IF until = from THEN Tail(poll[p].todo) ELSE poll[p].todo,
                     batch |-> b, attempt |-> 0]
           given == [exists  |-> TRUE, last |-> until,
                     pending |-> groups[h].pending \cup (from + 1 .. until)]
<1>1. /\ Polling(p) /\ poll[p].batch = <<>>
      /\ groups' = [groups EXCEPT ![h] = given] /\ poll' = [poll EXCEPT ![p] = n]
      /\ UNCHANGED <<stream, subs, counter, faults, fate>>
  BY DEF Reads, Takes
<1>2. /\ h \in GroupName /\ Sub(p) \in Subscription
      /\ poll[p].todo \in Seq(Subscription) /\ Tail(poll[p].todo) \in Seq(Subscription)
      /\ from \in Nat /\ groups[h].pending \subseteq Nat /\ Len(stream) \in Nat
      /\ from <= Len(stream)
  BY <1>1, RedisTypes DEF RedisInv, WithinStream
<1>3. until \in Nat /\ from <= until /\ until <= Len(stream) /\ until - from \in Nat
  <2>1. Count \in Nat
    BY RedisBusAssumption
  <2>2. until \in Nat /\ from <= until /\ until <= Len(stream)
    BY <1>2, <2>1 DEF Upto
  <2> QED BY <1>2, <2>2
<1>4. /\ b \in Seq(Nat) /\ Len(b) = until - from
      /\ \A k \in 1 .. Len(b) : b[k] = from + k
      /\ b = <<>> <=> until = from
  <2>1. b \in [1 .. until - from -> Nat]
    BY <1>2, <1>3
  <2>2. b \in Seq(Nat) /\ Len(b) = until - from
    BY <1>3, <2>1
  <2>3. b = <<>> <=> until - from = 0
    BY <2>2, EmptySeq
  <2> QED BY <1>2, <1>3, <2>2, <2>3
<1>5. given \in [exists : BOOLEAN, last : Nat, pending : SUBSET Nat] /\ given.last = until
  BY <1>2, <1>3
<1>6. /\ n.batch = b /\ n \in PollState
      /\ n.todo = IF until = from THEN Tail(poll[p].todo) ELSE poll[p].todo
  BY <1>2, <1>4 DEF PollState
<1> HIDE DEF n, b, given
<1>7. RedisTypeOK'
  BY <1>1, <1>2, <1>5, <1>6 DEF RedisInv, RedisTypeOK, PollState
<1>8. InOrder(n)
  <2>1. \A j, k \in 1 .. Len(b) : j < k => b[j] < b[k]
    BY <1>2, <1>3, <1>4, SMTT(30)
  <2>2. until # from => n.todo # <<>>
    BY <1>1, <1>6 DEF Polling
  <2> QED BY <1>4, <1>6, <2>1, <2>2 DEF InOrder
<1>9. /\ BatchesOK'
      /\ \A q \in Process, g \in GroupName, i \in Nat : q # p => (Holds(q, g, i)' <=> Holds(q, g, i))
      /\ \A g \in GroupName, i \in Nat :
           Holds(p, g, i)' <=> /\ n.todo # <<>> /\ Head(n.todo).group = g
                               /\ \E k \in 1 .. Len(n.batch) : n.batch[k] = i
  <2>1. RedisTypeOK /\ BatchesOK /\ poll' = [poll EXCEPT ![p] = n] /\ n \in PollState
    BY <1>1, <1>6 DEF RedisInv
  <2> QED BY ONLY <1>7, <1>8, <2>1, PollMoves, p \in Process, ZenonT(40)
<1>10. ASSUME NEW g \in GroupName, NEW i \in Nat
       PROVE  Holds(p, g, i)' <=> g = h /\ i \in from + 1 .. until
  <2>1. (\E k \in 1 .. Len(b) : b[k] = i) <=> i \in from + 1 .. until
    <3>1. ASSUME i \in from + 1 .. until PROVE \E k \in 1 .. Len(b) : b[k] = i
      <4>1. i - from \in 1 .. Len(b) /\ from + (i - from) = i
        BY <1>2, <1>3, <1>4, <3>1
      <4> QED BY <1>4, <4>1
    <3>2. ASSUME NEW k \in 1 .. Len(b), b[k] = i PROVE i \in from + 1 .. until
      BY <1>2, <1>3, <1>4, <3>2
    <3> QED BY <3>1, <3>2
  <2>2. i \in from + 1 .. until => until # from
    BY <1>2, <1>3
  <2>3. until # from => n.todo = poll[p].todo
    BY <1>6
  <2>4. poll[p].todo # <<>> /\ Head(poll[p].todo).group = h
    BY <1>1 DEF Polling, Sub
  <2> QED BY <1>6, <1>9, <2>1, <2>2, <2>3, <2>4
<1>11. \A g \in GroupName, i \in Nat : ~ Holds(p, g, i)
  <2>1. 1 .. Len(poll[p].batch) = {}
    BY <1>1
  <2>2. Held(p) = {}
    BY <2>1, HeldIs DEF RedisInv
  <2> QED BY <2>2 DEF Holds
<1>12. WithinStream'
  BY <1>1, <1>2, <1>3, <1>5 DEF RedisInv, WithinStream, RedisTypeOK
<1>13. Accounted'
  <2>1. groups' = [groups EXCEPT ![h] = [exists  |-> TRUE, last |-> until,
                                         pending |-> groups[h].pending \cup (from + 1 .. until)]]
    BY <1>1 DEF given
  <2>2. RedisTypeOK /\ Accounted /\ fate' = fate /\ faults' = faults
    BY <1>1 DEF RedisInv
  <2>3. from = groups[h].last /\ h \in GroupName /\ from \in Nat /\ until \in Nat /\ from <= until
    BY <1>2, <1>3
  <2>4. \A q \in Process, g \in GroupName, i \in Nat : q # p => (Holds(q, g, i)' <=> Holds(q, g, i))
    BY <1>9
  <2> HIDE DEF h, from, until
  <2> QED BY ONLY <1>7, <1>10, <1>11, <2>1, <2>2, <2>3, <2>4, p \in Process, ReadKeepsAccounts
<1> QED BY <1>7, <1>9, <1>12, <1>13 DEF RedisInv

(* XACK of an event that did not match, was handled or is dead-lettered     *)
LEMMA SettlesKeeps ==
  ASSUME RedisInv, NEW p \in Process, NEW what \in Outcome,
         Polling(p), poll[p].batch # <<>>, Settles(p, what)
  PROVE  RedisInv'
<1> DEFINE h == Sub(p).group
           e == Event(p)
           b == poll[p].batch
           n == [todo    |-> IF Len(b) = 1 THEN Tail(poll[p].todo) ELSE poll[p].todo,
                 batch   |-> Tail(b), attempt |-> 0]
<1>1. /\ groups' = [groups EXCEPT ![h].pending = @ \ {e}] /\ poll' = [poll EXCEPT ![p] = n]
      /\ fate' = fate \cup {[group |-> h, event |-> e, by |-> p, what |-> what]}
      /\ UNCHANGED <<stream, subs, counter, faults>>
  BY DEF Settles, Acks, Fate
<1>2. /\ h \in GroupName /\ Sub(p) \in Subscription
      /\ poll[p].todo \in Seq(Subscription) /\ Tail(poll[p].todo) \in Seq(Subscription)
      /\ b \in Seq(Nat) /\ groups[h].pending \subseteq Nat
  BY RedisTypes DEF RedisInv
<1>3. /\ e \in Nat /\ e = b[1] /\ Len(b) \in Nat \ {0}
      /\ Tail(b) \in Seq(Nat) /\ Len(Tail(b)) = Len(b) - 1
      /\ \A k \in 1 .. Len(b) - 1 : Tail(b)[k] = b[k + 1]
  BY <1>2, HeadTailProperties, EmptySeq DEF Event
<1>4. n \in PollState /\ n.batch = Tail(b)
      /\ n.todo = IF Len(b) = 1 THEN Tail(poll[p].todo) ELSE poll[p].todo
  BY <1>2, <1>3 DEF PollState
<1> HIDE DEF n
<1>5. RedisTypeOK'
  <2>1. groups' \in [GroupName -> [exists : BOOLEAN, last : Nat, pending : SUBSET Nat]]
    BY <1>1, <1>2 DEF RedisInv, RedisTypeOK
  <2>2. [group |-> h, event |-> e, by |-> p, what |-> what]
          \in [group : GroupName, event : Nat, by : Process, what : Outcome]
    BY <1>2, <1>3
  <2>3. fate' \subseteq [group : GroupName, event : Nat, by : Process, what : Outcome]
    BY <1>1, <2>2 DEF RedisInv, RedisTypeOK
  <2> QED BY <1>1, <1>4, <2>1, <2>3 DEF RedisInv, RedisTypeOK, PollState
<1>6. \A j, k \in 1 .. Len(b) : j < k => b[j] < b[k]
  BY DEF RedisInv, BatchesOK
<1>7. InOrder(n)
  <2>1. \A k \in 1 .. Len(b) - 1 : k + 1 \in 1 .. Len(b)
    BY <1>3
  <2>2. \A j, k \in 1 .. Len(Tail(b)) : j < k => Tail(b)[j] < Tail(b)[k]
    <3> SUFFICES ASSUME NEW j \in 1 .. Len(Tail(b)), NEW k \in 1 .. Len(Tail(b)), j < k
                 PROVE  Tail(b)[j] < Tail(b)[k]
      OBVIOUS
    <3>1. /\ j + 1 \in 1 .. Len(b) /\ k + 1 \in 1 .. Len(b) /\ j + 1 < k + 1
          /\ Tail(b)[j] = b[j + 1] /\ Tail(b)[k] = b[k + 1]
      BY <1>3, <2>1
    <3> QED BY <1>6, <3>1
  <2>3. Len(b) = 1 => Tail(b) = <<>>
    <3>1. ASSUME Len(b) = 1 PROVE Len(Tail(b)) = 0
      BY <1>3, <3>1
    <3>2. Tail(b) # <<>> => Len(Tail(b)) # 0
      BY <1>3, EmptySeq
    <3> QED BY <3>1, <3>2
  <2> QED BY <1>4, <2>2, <2>3 DEF InOrder, Polling
<1>8. /\ BatchesOK'
      /\ \A q \in Process, g \in GroupName, i \in Nat : q # p => (Holds(q, g, i)' <=> Holds(q, g, i))
      /\ \A g \in GroupName, i \in Nat :
           Holds(p, g, i)' <=> /\ n.todo # <<>> /\ Head(n.todo).group = g
                               /\ \E k \in 1 .. Len(n.batch) : n.batch[k] = i
  <2>1. RedisTypeOK /\ BatchesOK /\ poll' = [poll EXCEPT ![p] = n] /\ n \in PollState
    BY <1>1, <1>4 DEF RedisInv
  <2> QED BY ONLY <1>5, <1>7, <2>1, PollMoves, p \in Process, ZenonT(40)
<1>9. \A g \in GroupName, i \in Nat : Holds(p, g, i) <=> g = h /\ \E k \in 1 .. Len(b) : b[k] = i
  BY HeldIs DEF Holds, RedisInv
<1>10. \A g \in GroupName, i \in Nat : Holds(p, g, i)' => Holds(p, g, i) /\ g = h /\ e < i
  <2> SUFFICES ASSUME NEW g \in GroupName, NEW i \in Nat, Holds(p, g, i)'
               PROVE  Holds(p, g, i) /\ g = h /\ e < i
    OBVIOUS
  <2>1. PICK k \in 1 .. Len(Tail(b)) : Tail(b)[k] = i
    BY <1>4, <1>8
  <2>2. k + 1 \in 1 .. Len(b) /\ b[k + 1] = i /\ 1 \in 1 .. Len(b) /\ 1 < k + 1 /\ Len(b) # 1
    BY <1>3, <2>1
  <2>3. g = h
    BY <1>4, <1>8, <2>2 DEF Sub
  <2>4. e < i
    BY <1>3, <1>6, <2>2
  <2>5. Holds(p, g, i)
    BY <1>9, <2>2, <2>3
  <2> QED BY <2>3, <2>4, <2>5
<1>11. \A g \in GroupName, i \in Nat : Holds(p, g, i) => i = e \/ Holds(p, g, i)'
  <2> SUFFICES ASSUME NEW g \in GroupName, NEW i \in Nat, Holds(p, g, i), i # e
               PROVE  Holds(p, g, i)'
    OBVIOUS
  <2>1. PICK k \in 1 .. Len(b) : b[k] = i
    BY <1>9
  <2>2. k - 1 \in 1 .. Len(Tail(b)) /\ Tail(b)[k - 1] = i /\ Len(b) # 1
    BY <1>3, <2>1
  <2>3. n.todo # <<>> /\ Head(n.todo).group = g
    BY <1>4, <1>9, <2>2 DEF Polling, Sub
  <2> QED BY <1>4, <1>8, <2>2, <2>3
<1>12. Holds(p, h, e)
  BY <1>2, <1>3, <1>9
<1>13. /\ \A g \in GroupName : /\ groups'[g].exists = groups[g].exists
                               /\ groups'[g].last = groups[g].last
       /\ \A g \in GroupName : \A i \in groups[g].pending : g # h \/ i # e => i \in groups'[g].pending
       /\ \A g \in GroupName : g # h => groups'[g] = groups[g]
  BY <1>1, <1>2 DEF RedisInv, RedisTypeOK
<1>14. \A g \in GroupName : groups[g] = Absent => groups'[g] = Absent
  <2>1. e \in 1 .. groups[h].last
    BY <1>2, <1>3, <1>12 DEF RedisInv, Accounted
  <2>2. groups[h] # Absent
    BY <2>1 DEF Absent
  <2> QED BY <1>13, <2>2
<1>15. Accounted'
  <2>1. RedisTypeOK /\ Accounted /\ faults' = faults
    BY <1>1 DEF RedisInv
  <2>2. fate' = fate \cup {[group |-> h, event |-> e, by |-> p, what |-> what]}
    BY <1>1
  <2> HIDE DEF h, e, b
  <2> QED BY <1>2, <1>3, <1>5, <1>8, <1>10, <1>11, <1>12, <1>13, <1>14, <2>1, <2>2, SettleKeepsAccounts
<1>16. WithinStream'
  BY <1>1, <1>13 DEF RedisInv, WithinStream
<1> QED BY <1>5, <1>8, <1>15, <1>16 DEF RedisInv

LEMMA HandlerRaisesKeeps ==
  ASSUME RedisInv, NEW p \in Process, HandlerRaises(p) PROVE RedisInv'
<1> DEFINE n == [poll[p] EXCEPT !.attempt = @ + 1]
<1>1. /\ poll' = [poll EXCEPT ![p] = n] /\ Polling(p)
      /\ UNCHANGED <<stream, groups, subs, counter, faults, fate>>
  BY DEF HandlerRaises, Serving
<1>2. poll[p] \in PollState
  BY DEF RedisInv, RedisTypeOK, PollState
<1>3. n \in PollState /\ n.todo = poll[p].todo /\ n.batch = poll[p].batch
  BY <1>2 DEF PollState
<1> HIDE DEF n
<1>4. InOrder(n)
  BY <1>1, <1>3 DEF InOrder, RedisInv, BatchesOK, Polling
<1>5. RedisTypeOK'
  BY <1>1, <1>3 DEF RedisInv, RedisTypeOK, PollState
<1>6. /\ BatchesOK'
      /\ \A q \in Process, g \in GroupName, i \in Nat : q # p => (Holds(q, g, i)' <=> Holds(q, g, i))
      /\ \A g \in GroupName, i \in Nat :
           Holds(p, g, i)' <=> /\ n.todo # <<>> /\ Head(n.todo).group = g
                               /\ \E k \in 1 .. Len(n.batch) : n.batch[k] = i
  <2>1. RedisTypeOK /\ BatchesOK /\ poll' = [poll EXCEPT ![p] = n] /\ n \in PollState
    BY <1>1, <1>3 DEF RedisInv
  <2> QED BY ONLY <1>4, <1>5, <2>1, PollMoves, p \in Process, ZenonT(40)
<1>7. \A g \in GroupName, i \in Nat : Holds(p, g, i)' <=> Holds(p, g, i)
  <2>1. \A g \in GroupName, i \in Nat :
          Holds(p, g, i) <=> Sub(p).group = g /\ \E k \in 1 .. Len(poll[p].batch) : poll[p].batch[k] = i
    BY <1>1, HeldIs DEF Holds, RedisInv
  <2>2. n.todo # <<>> /\ Head(n.todo).group = Sub(p).group
    BY <1>1, <1>3 DEF Polling, Sub
  <2> QED BY <1>3, <1>6, <2>1, <2>2
<1>8. Accounted'
  BY <1>1, <1>5, <1>6, <1>7, SameHands DEF RedisInv, Accounted
<1> QED BY <1>1, <1>5, <1>6, <1>8 DEF RedisInv, WithinStream

\* A fault: poll() of process p is gone, and with it what p had in hand.
LEMMA PollDropped ==
  ASSUME RedisInv, NEW p \in Process, Faulty, poll' = [poll EXCEPT ![p] = NotPolling], RedisTypeOK'
  PROVE  /\ BatchesOK' /\ faults' # 0
         /\ \A q \in Process, g \in GroupName, i \in Nat : q # p => (Holds(q, g, i)' <=> Holds(q, g, i))
         /\ \A g \in GroupName, i \in Nat : ~ Holds(p, g, i)'
<1>1. RedisTypeOK /\ BatchesOK /\ faults' # 0
  <2>1. faults \in Nat
    BY DEF RedisInv, RedisTypeOK
  <2> QED BY <2>1 DEF RedisInv, Faulty
<1>2. /\ BatchesOK'
      /\ \A q \in Process, g \in GroupName, i \in Nat : q # p => (Holds(q, g, i)' <=> Holds(q, g, i))
      /\ \A g \in GroupName, i \in Nat :
           Holds(p, g, i)' <=> /\ NotPolling.todo # <<>> /\ Head(NotPolling.todo).group = g
                               /\ \E k \in 1 .. Len(NotPolling.batch) : NotPolling.batch[k] = i
  BY <1>1, NotPollingIs, PollMoves
<1> QED BY <1>1, <1>2, NotPollingIs

LEMMA DropsKeep ==
  ASSUME RedisInv, NEW p \in Process, PollRaises(p) \/ ProcessRestarts(p) PROVE RedisInv'
<1>1. /\ Faulty /\ poll' = [poll EXCEPT ![p] = NotPolling]
      /\ UNCHANGED <<stream, groups, fate>>
  BY DEF PollRaises, ProcessRestarts
<1>2. subs' \in [Process -> Seq(Subscription)] /\ counter' \in [Process -> Nat]
  <2>1. <<>> \in Seq(Subscription)
    OBVIOUS
  <2>2. subs \in [Process -> Seq(Subscription)] /\ counter \in [Process -> Nat]
    BY DEF RedisInv, RedisTypeOK
  <2>3. CASE PollRaises(p)
    BY <2>2, <2>3 DEF PollRaises
  <2>4. CASE ProcessRestarts(p)
    BY <2>1, <2>2, <2>4 DEF ProcessRestarts
  <2> QED BY <2>3, <2>4
<1>3. RedisTypeOK'
  <2>1. faults \in Nat /\ faults' = faults + 1
    BY <1>1 DEF Faulty, RedisInv, RedisTypeOK
  <2>2. poll \in [Process -> PollState] /\ NotPolling \in PollState
    BY NotPollingIs DEF RedisInv, RedisTypeOK, PollState
  <2>3. poll' \in [Process -> PollState]
    BY <1>1, <2>2
  <2>4. /\ stream \in Seq(Type)
        /\ groups \in [GroupName -> [exists : BOOLEAN, last : Nat, pending : SUBSET Nat]]
        /\ fate \subseteq [group : GroupName, event : Nat, by : Process, what : Outcome]
    BY DEF RedisInv, RedisTypeOK
  <2>5. stream' = stream /\ groups' = groups /\ fate' = fate
    BY <1>1
  <2>6. faults' \in Nat
    BY <2>1
  <2> QED BY ONLY <1>2, <2>3, <2>4, <2>5, <2>6 DEF RedisTypeOK, PollState
<1>4. Accounted'
  BY <1>1, <1>3, PollDropped, SameHands DEF RedisInv, Accounted
<1> QED BY <1>1, <1>3, <1>4, PollDropped DEF RedisInv, WithinStream

LEMMA AckFailsKeeps ==
  ASSUME RedisInv, NEW p \in Process, AckFails(p) PROVE RedisInv'
<1> DEFINE h == Sub(p).group
           e == Event(p)
<1>1. /\ Faulty /\ poll' = [poll EXCEPT ![p] = NotPolling] /\ Polling(p) /\ poll[p].batch # <<>>
      /\ fate' = fate \cup {[group |-> h, event |-> e, by |-> p, what |-> "handled"]}
      /\ UNCHANGED <<stream, groups, subs, counter>>
  BY DEF AckFails, Serving, Fate
<1>2. h \in GroupName /\ poll[p].batch \in Seq(Nat)
  BY <1>1, RedisTypes DEF RedisInv, Subscription
<1>3. e \in Nat /\ e = poll[p].batch[1] /\ Len(poll[p].batch) \in Nat \ {0}
  BY <1>1, <1>2, HeadTailProperties, EmptySeq DEF Event
<1>4. Holds(p, h, e)
  <2>1. 1 \in 1 .. Len(poll[p].batch)
    BY <1>3
  <2> QED BY <1>1, <1>3, <2>1, HeldIs DEF Holds, RedisInv
<1>5. RedisTypeOK'
  <2>1. [group |-> h, event |-> e, by |-> p, what |-> "handled"]
          \in [group : GroupName, event : Nat, by : Process, what : Outcome]
    BY <1>2, <1>3 DEF Outcome
  <2>2. fate' \subseteq [group : GroupName, event : Nat, by : Process, what : Outcome]
    BY <1>1, <2>1 DEF RedisInv, RedisTypeOK
  <2>3. faults' \in Nat
    BY <1>1 DEF Faulty, RedisInv, RedisTypeOK
  <2> QED BY <1>1, <2>2, <2>3, NotPollingIs DEF RedisInv, RedisTypeOK, PollState
<1>6. Accounted'
  <2>1. RedisTypeOK /\ Accounted
    BY DEF RedisInv
  <2>2. /\ faults' # 0
        /\ \A q \in Process, g \in GroupName, i \in Nat : q # p => (Holds(q, g, i)' <=> Holds(q, g, i))
        /\ \A g \in GroupName, i \in Nat : ~ Holds(p, g, i)'
    BY <1>1, <1>5, PollDropped
  <2>3. fate' = fate \cup {[group |-> h, event |-> e, by |-> p, what |-> "handled"]}
        /\ groups' = groups /\ "handled" \in Outcome
    BY <1>1 DEF Outcome
  <2> HIDE DEF h, e
  <2> QED BY ONLY <1>2, <1>3, <1>4, <1>5, <2>1, <2>2, <2>3, p \in Process, SettleKeepsAccounts
<1> QED BY <1>1, <1>5, <1>6, PollDropped DEF RedisInv, WithinStream

-----------------------------------------------------------------------------
(* The inductive invariant: the accounts of every group, for any number of  *)
(* processes, groups and events and any faults.                             *)
THEOREM RedisInductive == RedisSpec => []RedisInv
<1>1. RedisInit => RedisInv
  <2> SUFFICES ASSUME RedisInit PROVE RedisInv
    OBVIOUS
  <2>1. Absent \in [exists : BOOLEAN, last : Nat, pending : SUBSET Nat] /\ Absent.last = 0
    BY DEF Absent
  <2>2. <<>> \in Seq(Type) /\ <<>> \in Seq(Subscription) /\ Len(<<>>) = 0
    OBVIOUS
  <2>3. RedisTypeOK
    BY <2>1, <2>2, NotPollingIs DEF RedisInit, RedisTypeOK, PollState
  <2>4. \A p \in Process : ~ Polling(p) /\ poll[p].batch = <<>>
    BY NotPollingIs DEF RedisInit, Polling, NotPolling
  <2>5. 1 .. Len(<<>>) = {} /\ 1 .. 0 = {}
    OBVIOUS
  <2>6. BatchesOK /\ \A p \in Process, g \in GroupName, i \in Nat : ~ Holds(p, g, i)
    BY <2>4, <2>5 DEF BatchesOK, Holds
  <2>7. \A g \in GroupName : groups[g] = Absent /\ 1 .. groups[g].last = {} /\ groups[g].last <= Len(stream)
    BY <2>1, <2>2, <2>5 DEF RedisInit
  <2> QED BY <2>3, <2>6, <2>7 DEF RedisInit, RedisInv, WithinStream, Accounted, OncePerGroup
<1>2. RedisInv /\ [RedisNext]_redisVars => RedisInv'
  <2> SUFFICES ASSUME RedisInv, [RedisNext]_redisVars PROVE RedisInv'
    OBVIOUS
  <2>1. ASSUME NEW batch \in Batches, Publish(batch) PROVE RedisInv'
    BY <2>1, PublishKeeps
  <2>2. ASSUME NEW p \in Process, NEW what \in Outcome, Polling(p), poll[p].batch # <<>>, Settles(p, what)
        PROVE  RedisInv'
    BY <2>2, SettlesKeeps
  <2>3. ASSUME NEW p \in Process, PollStep(p) PROVE RedisInv'
    <3>1. CASE PollBegins(p)
      BY <3>1, PollBeginsKeeps
    <3>2. CASE Reads(p)
      BY <3>2, ReadsKeeps
    <3>3. CASE Skips(p) \/ HandlerReturns(p) \/ DeadLetters(p)
      BY <2>2, <3>3 DEF Skips, HandlerReturns, DeadLetters, Serving, Outcome
    <3>4. CASE HandlerRaises(p)
      BY <3>4, HandlerRaisesKeeps
    <3> QED BY <2>3, <3>1, <3>2, <3>3, <3>4 DEF PollStep
  <2>4. ASSUME NEW p \in Process,
               \/ Subscribe(p) \/ \E k \in DOMAIN subs[p] : Unsubscribe(p, k)
               \/ PollRaises(p) \/ AckFails(p) \/ ProcessRestarts(p)
        PROVE  RedisInv'
    BY <2>4, SubscribeKeeps, UnsubscribeKeeps, DropsKeep, AckFailsKeeps
  <2>5. CASE UNCHANGED redisVars
    <3>1. RedisTypeOK' /\ WithinStream'
      BY <2>5 DEF redisVars, RedisInv, RedisTypeOK, WithinStream
    <3>2. Accounted'
      BY <2>5, <3>1, PollStays, SameHands DEF redisVars, RedisInv, Accounted
    <3> QED BY <2>5, <3>1, <3>2, PollStays DEF redisVars, RedisInv
  <2> QED BY <2>1, <2>3, <2>4, <2>5 DEF RedisNext
<1> QED BY <1>1, <1>2, PTL DEF RedisSpec

(* FR-3, FR-4: for any processes, groups and faults, what a group was given *)
(* is settled once, or pending, and in one pair of hands before any fault.  *)
THEOREM ReadsAreSoundTheorem == RedisSpec => []ReadsAreSound
<1>1. RedisInv => ReadsAreSound
  <2> SUFFICES ASSUME RedisInv PROVE ReadsAreSound
    OBVIOUS
  <2>1. \A g \in GroupName : groups[g].last \in Nat
    BY DEF RedisInv, RedisTypeOK
  <2>2. EveryReadIsAccounted
    BY <2>1 DEF EveryReadIsAccounted, RedisInv, Accounted, Holds
  <2> QED BY <2>2 DEF ReadsAreSound, RedisInv, Accounted
<1> QED BY <1>1, RedisInductive, PTL

(* FR-5: what a process still has in hand comes after what it has settled   *)
(* for the same group.                                                      *)
THEOREM ReadInOrderTheorem == RedisSpec => []ReadInOrder
<1>1. RedisInv => ReadInOrder
  <2> SUFFICES ASSUME RedisInv, NEW p \in Process, NEW i \in Held(p), NEW f \in fate,
                      f.by = p, f.group = Sub(p).group
               PROVE  f.event < i
    BY DEF ReadInOrder
  <2>1. Polling(p)
    BY DEF Held
  <2>2. i \in Nat
    BY HeldIs, RedisTypes, ElementOfSeq DEF RedisInv
  <2>3. Holds(p, f.group, i)
    BY <2>1 DEF Holds
  <2> QED BY <2>2, <2>3 DEF RedisInv, Accounted
<1> QED BY <1>1, RedisInductive, PTL

-----------------------------------------------------------------------------
(***************************************************************************)
(* The kernel: which services are up at each point of start(), of a        *)
(* rollback and of stop(), in terms of _started and the position in it.    *)
(***************************************************************************)
Off == {"down", "stuck"}

\* The first i of a list of started services
UpTo(list, i) == {list[j] : j \in 1 .. i}

\* In state of the services, the first i of list are up, all others but busy are off.
Services(list, state, i, busy) ==
  /\ i \in 0 .. Len(list)
  /\ \A s \in Service : IF s \in UpTo(list, i) THEN state[s] = "up"
                        ELSE s \notin busy => state[s] \in Off

\* A walk over the reversed list awaits the stop() of target, at position i.
Stopping(list, state, i, target) ==
  /\ i \in 1 .. Len(list) /\ target = list[i]
  /\ state[target] = "stopping"
  /\ Services(list, state, i - 1, {target})

\* A list of started services is in the order of the dependencies g.
ListInOrder(list, g) ==
  /\ \A i, j \in 1 .. Len(list) : list[i] = list[j] => i = j
  /\ \A j, k \in 1 .. Len(list) : list[k] \in ToSet(g[list[j]]) => k < j

\* The loop of the start() c has dealt with the services before c.pos.
LoopOK(c, list, g) ==
  /\ DependenciesBefore(g, c.order)
  /\ c.pos \in 1 .. Len(c.order) + 1
  /\ \A s \in UpTo(list, Len(list)) : \E k \in 1 .. Len(c.order) : k < c.pos /\ c.order[k] = s
  /\ \A k \in 1 .. Len(c.order) :
       k < c.pos /\ (c.order[k] \in Critical \/ ~ c.degraded) => c.order[k] \in UpTo(list, Len(list))

StartOK(c, list, state, g) ==
  /\ c.pc # "idle" => Startable(g)
  /\ c.pc \in {"loop", "awaiting"} => LoopOK(c, list, g)
  /\ c.pc = "loop" => Services(list, state, Len(list), {})
  /\ c.pc = "awaiting" =>
       /\ c.pos <= Len(c.order)
       /\ state[c.order[c.pos]] = "starting"
       /\ c.order[c.pos] \notin UpTo(list, Len(list))
       /\ Services(list, state, Len(list), {c.order[c.pos]})
  /\ c.pc = "rollback" => Services(list, state, c.i, {})
  /\ c.pc = "undoing" => Stopping(list, state, c.i, c.target)

StopOK(c, list, state) ==
  /\ c.pc = "loop" => Services(list, state, c.i, {})
  /\ c.pc = "awaiting" => Stopping(list, state, c.i, c.target)

\* At most one walk is under way, and the phase says of which kind.
Exclusive ==
  /\ starting.pc # "idle" => phase = "starting" /\ \A t \in Stopper : stop[t].pc = "idle"
  /\ \A t \in Stopper : stop[t].pc # "idle" =>
       /\ phase = "stopping" /\ starting.pc = "idle"
       /\ \A u \in Stopper : u # t => stop[u].pc = "idle"

AtRest == starting.pc = "idle" /\ \A t \in Stopper : stop[t].pc \in {"idle", "emit"}

PhaseOK ==
  /\ AtRest => Services(started, svc, Len(started), {})
  /\ phase \in {"created", "stopped"} => started = <<>>
  /\ phase = "starting" /\ starting.pc = "idle" => started = <<>> /\ ~ Startable(deps)
  /\ phase = "running" => \A s \in Service : s \in UpTo(started, Len(started))
  /\ phase = "degraded" => \A s \in Critical : s \in UpTo(started, Len(started))

KernelInv ==
  /\ KernelTypeOK /\ deps \in Graphs
  /\ ListInOrder(started, deps)
  /\ StartOK(starting, started, svc, deps)
  /\ \A t \in Stopper : StopOK(stop[t], started, svc)
  /\ Exclusive /\ PhaseOK
  /\ (\E s \in Service : svc[s] # "down") => Startable(deps)

-----------------------------------------------------------------------------
(* A service is called, or its call ends.                                   *)
LEMMA ListTypes ==
  ASSUME NEW list \in Seq(Service)
  PROVE  /\ Len(list) \in Nat
         /\ \A j \in 1 .. Len(list) : list[j] \in Service
         /\ \A i \in 0 .. Len(list) : UpTo(list, i) \subseteq Service
<1>1. Len(list) \in Nat /\ \A j \in 1 .. Len(list) : list[j] \in Service
  BY ElementOfSeq, LenProperties
<1> QED BY <1>1 DEF UpTo

LEMMA ServiceCalled ==
  ASSUME NEW list \in Seq(Service), NEW state \in [Service -> SvcState], NEW i \in Nat,
         NEW s \in Service, NEW v \in SvcState, s \notin UpTo(list, i),
         Services(list, state, i, {}) \/ Services(list, state, i, {s})
  PROVE  /\ Services(list, [state EXCEPT ![s] = v], i, {s})
         /\ [state EXCEPT ![s] = v][s] = v
         /\ v \in Off => Services(list, [state EXCEPT ![s] = v], i, {})
         /\ [state EXCEPT ![s] = v] \in [Service -> SvcState]
BY DEF Services

\* The last of the first i steps back out of them, as the one being stopped.
LEMMA ServiceLeaves ==
  ASSUME NEW list \in Seq(Service), NEW state, NEW g, ListInOrder(list, g),
         NEW i \in 1 .. Len(list), Services(list, state, i, {})
  PROVE  /\ Services(list, state, i - 1, {list[i]}) /\ list[i] \notin UpTo(list, i - 1)
         /\ i - 1 \in 0 .. Len(list) /\ i - 1 \in Nat /\ list[i] \in Service
<1>1. UpTo(list, i) = UpTo(list, i - 1) \cup {list[i]}
  <2>1. 1 .. i = (1 .. i - 1) \cup {i}
    OBVIOUS
  <2> QED BY <2>1 DEF UpTo
<1>2. list[i] \notin UpTo(list, i - 1)
  <2>1. \A j \in 1 .. i - 1 : j \in 1 .. Len(list) /\ j # i
    BY ListTypes
  <2> QED BY <2>1 DEF UpTo, ListInOrder
<1>3. i - 1 \in 0 .. Len(list) /\ i - 1 \in Nat /\ list[i] \in Service
  BY ListTypes
<1> QED BY <1>1, <1>2, <1>3 DEF Services

\* await svc.stop() of the service at position i
LEMMA StopCalled ==
  ASSUME NEW list \in Seq(Service), NEW state \in [Service -> SvcState], NEW g, ListInOrder(list, g),
         NEW i \in 1 .. Len(list), Services(list, state, i, {})
  PROVE  /\ Stopping(list, [state EXCEPT ![list[i]] = "stopping"], i, list[i])
         /\ [state EXCEPT ![list[i]] = "stopping"] \in [Service -> SvcState]
<1>1. /\ Services(list, state, i - 1, {list[i]}) /\ list[i] \notin UpTo(list, i - 1)
      /\ i - 1 \in Nat /\ list[i] \in Service
  BY ServiceLeaves
<1>2. "stopping" \in SvcState
  BY DEF SvcState
<1> QED BY <1>1, <1>2, ServiceCalled DEF Stopping

\* It has ended, well or not.
LEMMA StopEnded ==
  ASSUME NEW list \in Seq(Service), NEW state \in [Service -> SvcState], NEW i, NEW target,
         Stopping(list, state, i, target), NEW ok \in BOOLEAN
  PROVE  /\ Services(list, [state EXCEPT ![target] = AfterStop(ok)], i - 1, {})
         /\ [state EXCEPT ![target] = AfterStop(ok)] \in [Service -> SvcState]
         /\ i - 1 \in Nat
<1>1. i - 1 \in Nat /\ Services(list, state, i - 1, {target}) /\ target \in Service
  BY ListTypes DEF Stopping, Services
<1>2. target \notin UpTo(list, i - 1)
  BY <1>1 DEF Stopping, Services
<1>3. AfterStop(ok) \in SvcState /\ AfterStop(ok) \in Off
  BY DEF AfterStop, SvcState, Off
<1> QED BY <1>1, <1>2, <1>3, ServiceCalled

-----------------------------------------------------------------------------
(* The loop of start(): a service is up and appended to _started            *)
LEMMA AppendedUpTo ==
  ASSUME NEW list \in Seq(Service), NEW s \in Service
  PROVE  LET longer == Append(list, s) IN
         /\ longer \in Seq(Service) /\ Len(longer) = Len(list) + 1
         /\ longer[Len(list) + 1] = s /\ \A j \in 1 .. Len(list) : longer[j] = list[j]
         /\ UpTo(longer, Len(longer)) = UpTo(list, Len(list)) \cup {s}
<1> DEFINE longer == Append(list, s)
<1>1. /\ longer \in Seq(Service) /\ Len(longer) = Len(list) + 1
      /\ longer[Len(list) + 1] = s /\ \A j \in 1 .. Len(list) : longer[j] = list[j]
  BY AppendProperties
<1>2. Len(list) \in Nat
  BY ListTypes
<1>3. 1 .. Len(list) + 1 = (1 .. Len(list)) \cup {Len(list) + 1}
  BY <1>2
<1> HIDE DEF longer
<1>4. UpTo(longer, Len(longer)) = UpTo(list, Len(list)) \cup {s}
  BY <1>1, <1>3 DEF UpTo
<1> QED BY <1>1, <1>4 DEF longer

LEMMA ServiceUp ==
  ASSUME NEW list \in Seq(Service), NEW state \in [Service -> SvcState], NEW s \in Service,
         Services(list, state, Len(list), {s})
  PROVE  /\ Services(Append(list, s), [state EXCEPT ![s] = "up"], Len(Append(list, s)), {})
         /\ [state EXCEPT ![s] = "up"] \in [Service -> SvcState]
<1>1. /\ UpTo(Append(list, s), Len(Append(list, s))) = UpTo(list, Len(list)) \cup {s}
      /\ Len(Append(list, s)) = Len(list) + 1 /\ Len(list) \in Nat
  BY AppendedUpTo, ListTypes
<1>2. "up" \in SvcState
  BY DEF SvcState
<1> QED BY <1>1, <1>2 DEF Services

LEMMA LoopAppends ==
  ASSUME NEW c \in StartCall, NEW list \in Seq(Service), NEW g, LoopOK(c, list, g), ListInOrder(list, g),
         c.pos <= Len(c.order), c.order[c.pos] \notin UpTo(list, Len(list)),
         NEW next \in StartCall, next.order = c.order, next.pos = c.pos + 1, next.degraded = c.degraded
  PROVE  /\ LoopOK(next, Append(list, c.order[c.pos]), g)
         /\ ListInOrder(Append(list, c.order[c.pos]), g)
         /\ c.order[c.pos] \in Service
<1> DEFINE s == c.order[c.pos]
           longer == Append(list, s)
<1>1. /\ c.order \in Seq(Service) /\ Len(c.order) \in Nat /\ c.pos \in 1 .. Len(c.order)
      /\ s \in Service
  BY ListTypes DEF LoopOK, DependenciesBefore
<1>2. /\ Len(longer) = Len(list) + 1 /\ Len(list) \in Nat
      /\ longer[Len(list) + 1] = s /\ \A j \in 1 .. Len(list) : longer[j] = list[j]
      /\ UpTo(longer, Len(longer)) = UpTo(list, Len(list)) \cup {s}
  BY <1>1, AppendedUpTo, ListTypes
<1>3. /\ \A i, j \in 1 .. Len(c.order) : c.order[i] = c.order[j] => i = j
      /\ \A j \in 1 .. Len(c.order) : \A d \in ToSet(g[c.order[j]]) :
           \E i \in 1 .. Len(c.order) : i < j /\ c.order[i] = d
  BY DEF LoopOK, DependenciesBefore
<1>4. \A k \in 1 .. Len(list) : \E m \in 1 .. Len(c.order) : m < c.pos /\ c.order[m] = list[k]
  BY DEF LoopOK, UpTo
<1> HIDE DEF s, longer
<1>5. ListInOrder(longer, g)
  <2>1. \A k \in 1 .. Len(list) : list[k] # s
    BY <1>2 DEF UpTo, s
  <2>2. \A i \in 1 .. Len(longer) : i \in 1 .. Len(list) \/ i = Len(list) + 1
    BY <1>2
  <2>3. \A i, j \in 1 .. Len(longer) : longer[i] = longer[j] => i = j
    BY <1>2, <2>1, <2>2 DEF ListInOrder
  <2>4. s \notin ToSet(g[s])
    <3> SUFFICES ASSUME s \in ToSet(g[c.order[c.pos]]) PROVE FALSE
      BY DEF s
    <3>1. PICK i \in 1 .. Len(c.order) : i < c.pos /\ c.order[i] = s
      BY <1>1, <1>3
    <3>2. i = c.pos
      BY <1>1, <1>3, <3>1 DEF s
    <3> QED BY <1>1, <3>1, <3>2
  <2>5. ASSUME NEW j \in 1 .. Len(list), s \in ToSet(g[list[j]]) PROVE FALSE
    <3>1. PICK m \in 1 .. Len(c.order) : m < c.pos /\ c.order[m] = list[j]
      BY <1>4
    <3>2. PICK i \in 1 .. Len(c.order) : i < m /\ c.order[i] = s
      BY <1>3, <2>5, <3>1
    <3>3. i = c.pos
      BY <1>1, <1>3, <3>2 DEF s
    <3> QED BY <1>1, <3>1, <3>2, <3>3
  <2>6. ASSUME NEW j \in 1 .. Len(longer), NEW k \in 1 .. Len(longer), longer[k] \in ToSet(g[longer[j]])
        PROVE  k < j
    <3>1. CASE k \in 1 .. Len(list) /\ j \in 1 .. Len(list)
      BY <1>2, <2>6, <3>1 DEF ListInOrder
    <3>2. CASE k = Len(list) + 1
      <4>1. longer[k] = s
        BY <1>2, <3>2
      <4>2. CASE j = Len(list) + 1
        BY <1>2, <2>4, <2>6, <4>1, <4>2
      <4>3. CASE j \in 1 .. Len(list)
        BY <1>2, <2>5, <2>6, <4>1, <4>3
      <4> QED BY <2>2, <4>2, <4>3
    <3>3. CASE k \in 1 .. Len(list) /\ j = Len(list) + 1
      BY <1>2, <3>3
    <3> QED BY <2>2, <3>1, <3>2, <3>3
  <2> QED BY <2>3, <2>6 DEF ListInOrder
<1>6. LoopOK(next, longer, g)
  <2>1. \A k \in 1 .. Len(c.order) : k < c.pos + 1 <=> k < c.pos \/ k = c.pos
    BY <1>1
  <2>2. next.pos \in 1 .. Len(next.order) + 1
    BY <1>1
  <2>3. \A o \in UpTo(longer, Len(longer)) :
          \E k \in 1 .. Len(next.order) : k < next.pos /\ next.order[k] = o
    <3>1. \A o \in UpTo(list, Len(list)) : \E k \in 1 .. Len(c.order) : k < c.pos /\ c.order[k] = o
      BY DEF LoopOK
    <3> QED BY <1>1, <1>2, <2>1, <3>1 DEF s
  <2>4. \A k \in 1 .. Len(next.order) :
          k < next.pos /\ (next.order[k] \in Critical \/ ~ next.degraded)
            => next.order[k] \in UpTo(longer, Len(longer))
    <3>1. \A k \in 1 .. Len(c.order) :
            k < c.pos /\ (c.order[k] \in Critical \/ ~ c.degraded) => c.order[k] \in UpTo(list, Len(list))
      BY DEF LoopOK
    <3> QED BY <1>1, <1>2, <2>1, <3>1 DEF s
  <2>5. DependenciesBefore(g, next.order)
    BY DEF LoopOK
  <2> QED BY <2>2, <2>3, <2>4, <2>5 DEF LoopOK
<1> QED BY <1>1, <1>5, <1>6 DEF s, longer

\* A service that is not critical has failed.
LEMMA LoopSkips ==
  ASSUME NEW c \in StartCall, NEW list \in Seq(Service), NEW g, LoopOK(c, list, g),
         c.pos <= Len(c.order), c.order[c.pos] \notin Critical,
         NEW next \in StartCall, next.order = c.order, next.pos = c.pos + 1, next.degraded
  PROVE  LoopOK(next, list, g)
<1>1. Len(c.order) \in Nat /\ c.pos \in 1 .. Len(c.order)
  BY ListTypes DEF LoopOK, DependenciesBefore
<1>2. \A k \in 1 .. Len(c.order) : k < c.pos + 1 <=> k < c.pos \/ k = c.pos
  BY <1>1
<1> QED BY <1>1, <1>2 DEF LoopOK

-----------------------------------------------------------------------------
(* Steps of start()                                                         *)
LEMMA NoCallTypes ==
  /\ NoStart \in StartCall /\ NoStart.pc = "idle" /\ NoStart.pos = 1 /\ ~ NoStart.degraded
  /\ NoStop \in StopCall /\ NoStop.pc = "idle"
<1>1. Registered[1] \in Service
  <2>1. Registered \in Seq(Service) /\ Len(Registered) \in Nat \ {0}
    BY KernelAssumption, EmptySeq
  <2> QED BY <2>1, ElementOfSeq
<1>2. <<>> \in Seq(Service)
  OBVIOUS
<1> QED BY <1>1, <1>2 DEF NoStart, NoStop, StartCall, StopCall

\* What a step that leaves the phase and the stop() calls alone has to show.
LEMMA StartRunsOn ==
  ASSUME KernelInv, starting.pc # "idle", starting' \in StartCall, starting'.pc # "idle",
         started' \in Seq(Service), svc' \in [Service -> SvcState],
         UNCHANGED <<deps, phase, stop, starts, busFaults>>,
         ListInOrder(started', deps), StartOK(starting', started', svc', deps)
  PROVE  KernelInv'
<1>1. phase = "starting" /\ \A t \in Stopper : stop[t].pc = "idle"
  BY DEF KernelInv, Exclusive
<1>2. KernelTypeOK'
  BY DEF KernelInv, KernelTypeOK
<1>3. Exclusive' /\ \A t \in Stopper : StopOK(stop'[t], started', svc')
  BY <1>1 DEF Exclusive, StopOK
<1>4. PhaseOK'
  BY <1>1 DEF PhaseOK, AtRest
<1>5. Startable(deps) /\ deps \in Graphs
  BY DEF KernelInv, StartOK
<1> QED BY <1>2, <1>3, <1>4, <1>5 DEF KernelInv

LEMMA StartBegins ==
  ASSUME SortIsRight, KernelInv, StartRefused \/ StartBegin PROVE KernelInv'
<1>1. /\ starting.pc = "idle" /\ phase \in {"created", "starting", "stopped"}
      /\ starts' = starts + 1 /\ phase' = "starting"
      /\ UNCHANGED <<deps, started, stop, svc, busFaults>>
  BY DEF StartRefused, StartBegin, MayStart
<1>2. /\ started = <<>> /\ \A t \in Stopper : stop[t].pc = "idle"
      /\ Services(started, svc, Len(started), {})
  BY <1>1 DEF KernelInv, PhaseOK, Exclusive, AtRest
<1>3. /\ TopoSort(deps).ok <=> Startable(deps)
      /\ TopoSort(deps).ok => DependenciesBefore(deps, TopoSort(deps).order)
  BY DEF SortIsRight, KernelInv
<1>4. starts \in Nat /\ "starting" \in KernelPhase
  BY DEF KernelInv, KernelTypeOK, KernelPhase
<1>5. CASE StartRefused
  <2>1. starting' = starting /\ ~ Startable(deps)
    BY <1>3, <1>5 DEF StartRefused
  <2>2. KernelTypeOK'
    BY <1>1, <1>4, <2>1 DEF KernelInv, KernelTypeOK
  <2>3. Exclusive' /\ PhaseOK'
    BY <1>1, <1>2, <2>1 DEF Exclusive, PhaseOK, AtRest
  <2> QED BY <1>1, <2>1, <2>2, <2>3 DEF KernelInv
<1>6. CASE StartBegin
  <2> DEFINE order == TopoSort(deps).order
             next == [NoStart EXCEPT !.pc = "loop", !.order = order]
  <2>1. starting' = next /\ Startable(deps) /\ DependenciesBefore(deps, order)
    BY <1>3, <1>6 DEF StartBegin
  <2>2. order \in Seq(Service)
    BY <2>1 DEF DependenciesBefore
  <2> HIDE DEF order
  <2>3. /\ next \in StartCall /\ next.pc = "loop" /\ next.order = order
        /\ next.pos = 1 /\ ~ next.degraded
    BY <2>2, NoCallTypes DEF StartCall
  <2> HIDE DEF next
  <2>4. UpTo(started, Len(started)) = {}
    BY <1>2 DEF UpTo
  <2>5. Len(order) \in Nat
    BY <2>2, ListTypes
  <2>6. LoopOK(next, started, deps)
    BY <2>1, <2>3, <2>4, <2>5 DEF LoopOK
  <2>7. StartOK(next, started, svc, deps)
    BY <1>2, <2>1, <2>3, <2>6 DEF StartOK
  <2>8. KernelTypeOK'
    BY <1>1, <1>4, <2>1, <2>3 DEF KernelInv, KernelTypeOK
  <2>9. Exclusive' /\ PhaseOK'
    BY <1>1, <1>2, <2>1, <2>3 DEF Exclusive, PhaseOK, AtRest
  <2> QED BY <1>1, <2>1, <2>7, <2>8, <2>9 DEF KernelInv
<1> QED BY <1>5, <1>6

LEMMA ServiceStarts ==
  ASSUME KernelInv, CallStart \/ Started \/ NonCriticalFails \/ CriticalFails PROVE KernelInv'
<1> DEFINE s == starting.order[starting.pos]
<1>0. /\ starting \in StartCall /\ started \in Seq(Service) /\ svc \in [Service -> SvcState]
      /\ ListInOrder(started, deps) /\ StartOK(starting, started, svc, deps)
      /\ starting.pc \in {"loop", "awaiting"}
      /\ UNCHANGED <<deps, phase, stop, starts, busFaults>>
  BY DEF KernelInv, KernelTypeOK, CallStart, Started, NonCriticalFails, CriticalFails
<1>1. /\ LoopOK(starting, started, deps) /\ Startable(deps)
      /\ starting.pos \in 1 .. Len(starting.order) + 1 /\ Len(starting.order) \in Nat
      /\ Len(started) \in Nat
  BY <1>0, ListTypes DEF StartOK, LoopOK, DependenciesBefore
<1>2. CASE CallStart
  <2> DEFINE next == [starting EXCEPT !.pc = "awaiting"]
             state == [svc EXCEPT ![s] = "starting"]
  <2>1. /\ starting.pc = "loop" /\ starting.pos <= Len(starting.order)
        /\ svc' = state /\ starting' = next /\ started' = started
    BY <1>2 DEF CallStart, Current
  <2>2. s \in Service /\ starting.pos \in 1 .. Len(starting.order)
    BY <1>0, <1>1, <2>1, ListTypes DEF StartCall
  <2>3. s \notin UpTo(started, Len(started))
    <3>1. \A k \in 1 .. Len(starting.order) : starting.order[k] = s => k = starting.pos
      BY <1>1, <2>2 DEF LoopOK, DependenciesBefore
    <3>2. s \in UpTo(started, Len(started)) =>
            \E k \in 1 .. Len(starting.order) : k < starting.pos /\ starting.order[k] = s
      BY <1>1 DEF LoopOK
    <3> QED BY <1>1, <3>1, <3>2
  <2>4. Services(started, svc, Len(started), {})
    BY <1>0, <2>1 DEF StartOK
  <2>5. /\ Services(started, state, Len(started), {s}) /\ state[s] = "starting"
        /\ state \in [Service -> SvcState]
    <3>1. "starting" \in SvcState
      BY DEF SvcState
    <3> HIDE DEF s
    <3> QED BY ONLY <1>0, <1>1, <2>2, <2>3, <2>4, <3>1, ServiceCalled DEF state
  <2>6. /\ next \in StartCall /\ next.pc = "awaiting" /\ next.order = starting.order
        /\ next.pos = starting.pos /\ next.degraded = starting.degraded
    BY <1>0 DEF StartCall
  <2> HIDE DEF next, state
  <2>7. LoopOK(next, started, deps)
    BY <1>1, <2>6 DEF LoopOK
  <2>8. StartOK(next, started, state, deps)
    BY <1>1, <2>1, <2>3, <2>5, <2>6, <2>7 DEF StartOK
  <2> QED BY <1>0, <2>1, <2>5, <2>6, <2>8, StartRunsOn
<1>3. ASSUME starting.pc = "awaiting"
      PROVE  /\ s \in Service /\ s \notin UpTo(started, Len(started))
             /\ starting.pos <= Len(starting.order)
             /\ Services(started, svc, Len(started), {s})
  <2>1. starting.pos \in 1 .. Len(starting.order)
    BY <1>0, <1>1, <1>3 DEF StartOK
  <2> QED BY <1>0, <1>3, <2>1, ListTypes DEF StartOK, StartCall
<1>4. CASE Started
  <2> DEFINE next == [starting EXCEPT !.pc = "loop", !.pos = @ + 1]
             state == [svc EXCEPT ![s] = "up"]
             longer == Append(started, s)
  <2>1. starting.pc = "awaiting" /\ svc' = state /\ starting' = next /\ started' = longer
    BY <1>4 DEF Started, Current
  <2>2. /\ Services(longer, state, Len(longer), {}) /\ state \in [Service -> SvcState]
        /\ longer \in Seq(Service)
    BY <1>0, <1>3, <2>1, ServiceUp, AppendProperties
  <2>3. /\ next \in StartCall /\ next.pc = "loop" /\ next.order = starting.order
        /\ next.pos = starting.pos + 1 /\ next.degraded = starting.degraded
    <3>1. starting.pos + 1 \in Nat
      BY <1>0, <1>1
    <3> QED BY <1>0, <3>1 DEF StartCall
  <2> HIDE DEF next, state
  <2>4. LoopOK(next, longer, deps) /\ ListInOrder(longer, deps)
    BY <1>0, <1>1, <1>3, <2>1, <2>3, LoopAppends
  <2> HIDE DEF longer
  <2>5. StartOK(next, longer, state, deps)
    BY <1>1, <2>2, <2>3, <2>4 DEF StartOK
  <2> QED BY <1>0, <2>1, <2>2, <2>3, <2>4, <2>5, StartRunsOn
<1>5. ASSUME starting.pc = "awaiting", svc' = [svc EXCEPT ![s] = "down"]
      PROVE  Services(started, svc', Len(started), {}) /\ svc' \in [Service -> SvcState]
  <2>1. "down" \in SvcState /\ "down" \in Off
    BY DEF SvcState, Off
  <2> QED BY <1>0, <1>1, <1>3, <1>5, <2>1, ServiceCalled
<1>6. CASE NonCriticalFails
  <2> DEFINE next == [starting EXCEPT !.pc = "loop", !.pos = @ + 1, !.degraded = TRUE]
  <2>1. /\ starting.pc = "awaiting" /\ svc' = [svc EXCEPT ![s] = "down"] /\ starting' = next
        /\ started' = started /\ s \notin Critical
    BY <1>6 DEF NonCriticalFails, Current
  <2>2. /\ next \in StartCall /\ next.pc = "loop" /\ next.order = starting.order
        /\ next.pos = starting.pos + 1 /\ next.degraded
    <3>1. starting.pos + 1 \in Nat
      BY <1>0, <1>1
    <3> QED BY <1>0, <3>1 DEF StartCall
  <2> HIDE DEF next
  <2>3. LoopOK(next, started, deps)
    BY <1>0, <1>1, <1>3, <2>1, <2>2, LoopSkips
  <2>4. StartOK(next, started, svc', deps)
    BY <1>1, <1>5, <2>1, <2>2, <2>3 DEF StartOK
  <2> QED BY <1>0, <1>5, <2>1, <2>2, <2>4, StartRunsOn
<1>7. CASE CriticalFails
  <2> DEFINE next == [starting EXCEPT !.pc = "rollback", !.i = Len(started)]
  <2>1. /\ starting.pc = "awaiting" /\ svc' = [svc EXCEPT ![s] = "down"] /\ starting' = next
        /\ started' = started
    BY <1>7 DEF CriticalFails, Current
  <2>2. next \in StartCall /\ next.pc = "rollback" /\ next.i = Len(started)
    BY <1>0, <1>1 DEF StartCall
  <2> HIDE DEF next
  <2>3. StartOK(next, started, svc', deps)
    BY <1>1, <1>5, <2>1, <2>2 DEF StartOK
  <2> QED BY <1>0, <1>5, <2>1, <2>2, <2>3, StartRunsOn
<1> QED BY <1>2, <1>4, <1>6, <1>7

-----------------------------------------------------------------------------
(* The rollback of a failed start(), and its end                            *)
LEMMA NothingUp ==
  ASSUME NEW list \in Seq(Service), NEW state, NEW g, Services(list, state, 0, {})
  PROVE  /\ Services(<<>>, state, Len(<<>>), {}) /\ <<>> \in Seq(Service)
         /\ ListInOrder(<<>>, g) /\ UpTo(<<>>, Len(<<>>)) = {}
<1>1. Len(<<>>) = 0 /\ UpTo(<<>>, 0) = {} /\ UpTo(list, 0) = {}
  BY DEF UpTo
<1> QED BY <1>1 DEF Services, ListInOrder

LEMMA WalkIsOver ==
  ASSUME NEW i, Services(started, svc, i, {}), started \in Seq(Service), ~ More(i) PROVE i = 0
BY ListTypes DEF Services, More

LEMMA StartRollsBack ==
  ASSUME KernelInv, RollbackNext \/ \E ok \in BOOLEAN : RollbackReturns(ok) PROVE KernelInv'
<1>0. /\ starting \in StartCall /\ started \in Seq(Service) /\ svc \in [Service -> SvcState]
      /\ ListInOrder(started, deps) /\ StartOK(starting, started, svc, deps) /\ Startable(deps)
      /\ started' = started
      /\ UNCHANGED <<deps, phase, stop, starts, busFaults>>
  BY DEF KernelInv, KernelTypeOK, StartOK, RollbackNext, RollbackReturns
<1>1. CASE RollbackNext
  <2> DEFINE target == started[starting.i]
             next == [starting EXCEPT !.pc = "undoing", !.target = target]
  <2>1. /\ starting.pc = "rollback" /\ starting.i \in 1 .. Len(started)
        /\ svc' = [svc EXCEPT ![target] = "stopping"] /\ starting' = next
    BY <1>1 DEF RollbackNext, More
  <2>2. Services(started, svc, starting.i, {}) /\ target \in Service
    BY <1>0, <2>1, ListTypes DEF StartOK
  <2>3. Stopping(started, svc', starting.i, target) /\ svc' \in [Service -> SvcState]
    BY <1>0, <2>1, <2>2, StopCalled
  <2>4. next \in StartCall /\ next.pc = "undoing" /\ next.i = starting.i /\ next.target = target
    BY <1>0, <2>2 DEF StartCall
  <2> HIDE DEF next, target
  <2>5. StartOK(next, started, svc', deps)
    BY <1>0, <2>3, <2>4 DEF StartOK
  <2> QED BY <1>0, <2>1, <2>3, <2>4, <2>5, StartRunsOn
<1>2. ASSUME NEW ok \in BOOLEAN, RollbackReturns(ok) PROVE KernelInv'
  <2> DEFINE next == [starting EXCEPT !.pc = "rollback", !.i = @ - 1]
  <2>1. /\ starting.pc = "undoing" /\ Stopping(started, svc, starting.i, starting.target)
        /\ svc' = [svc EXCEPT ![starting.target] = AfterStop(ok)] /\ starting' = next
    BY <1>0, <1>2 DEF RollbackReturns, StartOK
  <2>2. /\ Services(started, svc', starting.i - 1, {}) /\ svc' \in [Service -> SvcState]
        /\ starting.i - 1 \in Nat
    BY <1>0, <2>1, StopEnded
  <2>3. next \in StartCall /\ next.pc = "rollback" /\ next.i = starting.i - 1
    BY <1>0, <2>2 DEF StartCall
  <2> HIDE DEF next
  <2>4. StartOK(next, started, svc', deps)
    BY <1>0, <2>2, <2>3 DEF StartOK
  <2> QED BY <1>0, <2>1, <2>2, <2>3, <2>4, StartRunsOn
<1> QED BY <1>1, <1>2

LEMMA StartEnds ==
  ASSUME KernelInv, StartEnd \/ RollbackEnd PROVE KernelInv'
<1>0. /\ starting \in StartCall /\ started \in Seq(Service) /\ svc \in [Service -> SvcState]
      /\ StartOK(starting, started, svc, deps) /\ starting.pc # "idle"
      /\ starting' = NoStart /\ NoStart \in StartCall /\ NoStart.pc = "idle"
      /\ UNCHANGED <<deps, stop, svc, starts, busFaults>>
  BY NoCallTypes DEF KernelInv, KernelTypeOK, StartEnd, RollbackEnd
<1>1. /\ \A t \in Stopper : stop[t].pc = "idle" /\ StopOK(stop[t], started, svc)
      /\ \A list : StartOK(starting', list, svc', deps')
      /\ \A list : \A t \in Stopper : StopOK(stop'[t], list, svc')
      /\ Exclusive' /\ deps' \in Graphs
      /\ (\E s \in Service : svc'[s] # "down") => Startable(deps')
  BY <1>0 DEF KernelInv, Exclusive, StartOK, StopOK
<1>2. CASE StartEnd
  <2>1. /\ starting.pc = "loop" /\ starting.pos > Len(starting.order) /\ started' = started
        /\ phase' = IF starting.degraded THEN "degraded" ELSE "running"
    BY <1>2 DEF StartEnd
  <2>2. LoopOK(starting, started, deps) /\ Services(started, svc, Len(started), {})
    BY <1>0, <2>1 DEF StartOK
  <2>3. \A s \in Service : s \in Critical \/ ~ starting.degraded => s \in UpTo(started, Len(started))
    <3> SUFFICES ASSUME NEW s \in Service, s \in Critical \/ ~ starting.degraded
                 PROVE  s \in UpTo(started, Len(started))
      OBVIOUS
    <3>1. PICK k \in 1 .. Len(starting.order) : starting.order[k] = s
      BY <2>2 DEF LoopOK, DependenciesBefore
    <3>2. k < starting.pos
      BY <1>0, <2>1, LenProperties DEF StartCall
    <3> QED BY <2>2, <3>1, <3>2 DEF LoopOK
  <2>4. PhaseOK'
    <3>1. \A s \in Critical : s \in Service
      BY KernelAssumption
    <3> QED BY <1>0, <2>1, <2>2, <2>3, <3>1 DEF PhaseOK
  <2>5. KernelTypeOK'
    BY <1>0, <2>1 DEF KernelInv, KernelTypeOK, KernelPhase
  <2> QED BY <1>0, <1>1, <2>1, <2>4, <2>5 DEF KernelInv
<1>3. CASE RollbackEnd
  <2>1. Services(started, svc, starting.i, {}) /\ started' = <<>> /\ phase' = "created"
        /\ ~ More(starting.i)
    BY <1>0, <1>3 DEF RollbackEnd, StartOK
  <2>2. Services(started, svc, 0, {})
    BY <1>0, <2>1, WalkIsOver
  <2>3. Services(started', svc', Len(started'), {}) /\ started' \in Seq(Service)
        /\ ListInOrder(started', deps')
    BY <1>0, <2>1, <2>2, NothingUp
  <2>4. KernelTypeOK'
    BY <1>0, <2>1, <2>3 DEF KernelInv, KernelTypeOK, KernelPhase
  <2>5. PhaseOK'
    BY <1>0, <2>1, <2>3 DEF PhaseOK
  <2> QED BY <1>1, <2>3, <2>4, <2>5 DEF KernelInv
<1> QED BY <1>2, <1>3

-----------------------------------------------------------------------------
(* Steps of stop()                                                          *)

\* What a step of the walk of stop() has to show.
LEMMA StopRunsOn ==
  ASSUME KernelInv, NEW t \in Stopper, stop[t].pc # "idle",
         NEW next \in StopCall, next.pc \in {"loop", "awaiting"}, stop' = [stop EXCEPT ![t] = next],
         svc' \in [Service -> SvcState], UNCHANGED <<deps, phase, started, starting, starts, busFaults>>,
         StopOK(next, started, svc'),
         (\E s \in Service : svc'[s] # "down") => (\E s \in Service : svc[s] # "down")
  PROVE  KernelInv'
<1>1. /\ phase = "stopping" /\ starting.pc = "idle"
      /\ \A u \in Stopper : u # t => stop[u].pc = "idle"
      /\ stop \in [Stopper -> StopCall]
  BY DEF KernelInv, KernelTypeOK, Exclusive
<1>2. stop'[t] = next /\ (\A u \in Stopper : u # t => stop'[u] = stop[u]) /\ stop' \in [Stopper -> StopCall]
  BY <1>1
<1>3. KernelTypeOK'
  BY <1>2 DEF KernelInv, KernelTypeOK
<1>4. Exclusive' /\ ~ AtRest' /\ \A u \in Stopper : StopOK(stop'[u], started', svc')
  BY <1>1, <1>2 DEF Exclusive, StopOK, AtRest
<1>5. PhaseOK' /\ StartOK(starting', started', svc', deps')
  BY <1>1, <1>4 DEF PhaseOK, StartOK
<1> QED BY <1>3, <1>4, <1>5 DEF KernelInv

LEMMA StopCallTypes ==
  ASSUME NEW t \in Stopper, KernelTypeOK
  PROVE  /\ stop \in [Stopper -> StopCall] /\ stop[t] \in StopCall
         /\ started \in Seq(Service) /\ svc \in [Service -> SvcState] /\ Len(started) \in Nat
BY ListTypes DEF KernelTypeOK

LEMMA StopBegins ==
  ASSUME ~ SignalDuringStart, KernelInv, NEW t \in Stopper, StopBegin(t) PROVE KernelInv'
<1>1. /\ starting.pc = "idle" /\ phase' = "stopping" /\ stop[t].pc = "idle" /\ phase # "stopping"
      /\ stop' = [stop EXCEPT ![t].pc = "emit"]
      /\ UNCHANGED <<deps, started, starting, svc, starts, busFaults>>
  BY DEF StopBegin
<1>2. \A u \in Stopper : stop[u].pc = "idle"
  BY <1>1 DEF KernelInv, Exclusive
<1>3. /\ stop'[t].pc = "emit" /\ (\A u \in Stopper : u # t => stop'[u] = stop[u])
      /\ stop' \in [Stopper -> StopCall]
  BY <1>1, StopCallTypes DEF KernelInv, StopCall
<1>4. KernelTypeOK'
  BY <1>1, <1>3 DEF KernelInv, KernelTypeOK, KernelPhase
<1>5. Exclusive' /\ \A u \in Stopper : StopOK(stop'[u], started', svc')
  BY <1>1, <1>2, <1>3 DEF Exclusive, StopOK
<1>6. PhaseOK'
  BY <1>1, <1>2 DEF KernelInv, PhaseOK, AtRest
<1> QED BY <1>1, <1>4, <1>5, <1>6 DEF KernelInv

LEMMA StopWalks ==
  ASSUME KernelInv, NEW t \in Stopper,
         StopEmitted(t) \/ StopNext(t) \/ \E ok \in BOOLEAN : StopReturns(t, ok)
  PROVE  KernelInv'
<1>0. /\ stop \in [Stopper -> StopCall] /\ stop[t] \in StopCall /\ ListInOrder(started, deps)
      /\ started \in Seq(Service) /\ svc \in [Service -> SvcState] /\ Len(started) \in Nat
      /\ StopOK(stop[t], started, svc)
      /\ UNCHANGED <<deps, phase, started, starting, starts, busFaults>>
  BY StopCallTypes DEF KernelInv, StopEmitted, StopNext, StopReturns
<1>1. CASE StopEmitted(t)
  <2> DEFINE next == [stop[t] EXCEPT !.pc = "loop", !.i = Len(started)]
  <2>1. stop[t].pc = "emit" /\ stop' = [stop EXCEPT ![t] = next] /\ svc' = svc
    BY <1>0, <1>1 DEF StopEmitted
  <2>2. next \in StopCall /\ next.pc = "loop" /\ next.i = Len(started)
    BY <1>0 DEF StopCall
  <2>3. Services(started, svc, Len(started), {})
    BY <2>1 DEF KernelInv, Exclusive, PhaseOK, AtRest
  <2> HIDE DEF next
  <2>4. StopOK(next, started, svc')
    BY <2>1, <2>2, <2>3 DEF StopOK
  <2> QED BY <1>0, <2>1, <2>2, <2>4, StopRunsOn
<1>2. CASE StopNext(t)
  <2> DEFINE target == started[stop[t].i]
             next == [stop[t] EXCEPT !.pc = "awaiting", !.target = target]
  <2>1. /\ stop[t].pc = "loop" /\ stop' = [stop EXCEPT ![t] = next]
        /\ stop[t].i \in 1 .. Len(started) /\ svc' = [svc EXCEPT ![target] = "stopping"]
    BY <1>0, <1>2 DEF StopNext, More
  <2>2. Services(started, svc, stop[t].i, {}) /\ target \in Service
    BY <1>0, <2>1, ListTypes DEF StopOK
  <2>3. Stopping(started, svc', stop[t].i, target) /\ svc' \in [Service -> SvcState]
    BY <1>0, <2>1, <2>2, StopCalled
  <2>4. next \in StopCall /\ next.pc = "awaiting" /\ next.i = stop[t].i /\ next.target = target
    BY <1>0, <2>2 DEF StopCall
  <2>5. svc[target] = "up"
    BY <2>1, <2>2 DEF Services, UpTo
  <2> HIDE DEF next, target
  <2>6. StopOK(next, started, svc')
    BY <2>3, <2>4 DEF StopOK
  <2> QED BY <1>0, <2>1, <2>2, <2>3, <2>4, <2>5, <2>6, StopRunsOn
<1>3. ASSUME NEW ok \in BOOLEAN, StopReturns(t, ok) PROVE KernelInv'
  <2> DEFINE target == stop[t].target
             next == [stop[t] EXCEPT !.pc = "loop", !.i = stop[t].i - 1]
  <2>1. /\ stop[t].pc = "awaiting" /\ stop' = [stop EXCEPT ![t] = next]
        /\ svc' = [svc EXCEPT ![target] = AfterStop(ok)]
    BY <1>0, <1>3 DEF StopReturns
  <2>2. Stopping(started, svc, stop[t].i, target) /\ target \in Service
    BY <1>0, <2>1 DEF StopOK, StopCall
  <2>3. /\ Services(started, svc', stop[t].i - 1, {}) /\ svc' \in [Service -> SvcState]
        /\ stop[t].i - 1 \in Nat
    BY <1>0, <2>1, <2>2, StopEnded
  <2>4. next \in StopCall /\ next.pc = "loop" /\ next.i = stop[t].i - 1
    BY <1>0, <2>3 DEF StopCall
  <2>5. svc[target] # "down"
    BY <2>2 DEF Stopping
  <2> HIDE DEF next, target
  <2>6. StopOK(next, started, svc')
    BY <2>3, <2>4 DEF StopOK
  <2> QED BY <1>0, <2>1, <2>2, <2>3, <2>4, <2>5, <2>6, StopRunsOn
<1> QED BY <1>1, <1>2, <1>3

LEMMA StopLeaves ==
  ASSUME KernelInv, NEW t \in Stopper, StopEmitFails(t) \/ StopEnd(t) PROVE KernelInv'
<1>0. /\ stop \in [Stopper -> StopCall] /\ started \in Seq(Service) /\ svc \in [Service -> SvcState]
      /\ stop[t].pc # "idle" /\ stop' = [stop EXCEPT ![t] = NoStop]
      /\ UNCHANGED <<deps, starting, svc, starts>>
      /\ NoStop \in StopCall /\ NoStop.pc = "idle"
  BY StopCallTypes, NoCallTypes DEF KernelInv, StopEmitFails, StopEnd
<1>1. /\ phase = "stopping" /\ starting.pc = "idle"
      /\ \A u \in Stopper : u # t => stop[u].pc = "idle"
  BY <1>0 DEF KernelInv, Exclusive
<1>2. stop' \in [Stopper -> StopCall] /\ \A u \in Stopper : stop'[u].pc = "idle"
  BY <1>0, <1>1
<1>3. /\ \A list : StartOK(starting', list, svc', deps')
      /\ \A list : \A u \in Stopper : StopOK(stop'[u], list, svc')
      /\ Exclusive' /\ deps' \in Graphs
      /\ (\E s \in Service : svc'[s] # "down") => Startable(deps')
  BY <1>0, <1>1, <1>2 DEF KernelInv, Exclusive, StartOK, StopOK
<1>4. CASE StopEmitFails(t)
  <2>1. stop[t].pc = "emit" /\ busFaults' = busFaults + 1 /\ UNCHANGED <<phase, started>>
    BY <1>4 DEF StopEmitFails
  <2>2. KernelTypeOK'
    BY <1>0, <1>2, <2>1 DEF KernelInv, KernelTypeOK
  <2>3. Services(started, svc, Len(started), {}) /\ ListInOrder(started, deps)
    BY <1>1, <2>1 DEF KernelInv, PhaseOK, AtRest
  <2>4. PhaseOK'
    BY <1>0, <1>1, <2>1, <2>3 DEF PhaseOK
  <2> QED BY <1>0, <1>3, <2>1, <2>2, <2>3, <2>4 DEF KernelInv
<1>5. CASE StopEnd(t)
  <2>1. /\ stop[t].pc = "loop" /\ ~ More(stop[t].i) /\ started' = <<>> /\ phase' = "stopped"
        /\ busFaults' = busFaults /\ StopOK(stop[t], started, svc)
    BY <1>5 DEF StopEnd, KernelInv
  <2>2. Services(started, svc, 0, {})
    BY <1>0, <2>1, WalkIsOver DEF StopOK
  <2>3. Services(started', svc', Len(started'), {}) /\ started' \in Seq(Service)
        /\ ListInOrder(started', deps')
    BY <1>0, <2>1, <2>2, NothingUp
  <2>4. KernelTypeOK'
    BY <1>0, <1>2, <2>1, <2>3 DEF KernelInv, KernelTypeOK, KernelPhase
  <2>5. PhaseOK'
    BY <1>0, <2>1, <2>3 DEF PhaseOK
  <2> QED BY <1>3, <2>3, <2>4, <2>5 DEF KernelInv
<1> QED BY <1>4, <1>5

-----------------------------------------------------------------------------
LEMMA KernelStarts ==
  ASSUME KernelInit PROVE KernelInv
<1>1. /\ starting = NoStart /\ stop = [t \in Stopper |-> NoStop] /\ started = <<>> /\ deps \in Graphs
      /\ svc = [s \in Service |-> "down"] /\ phase = "created" /\ starts = 0 /\ busFaults = 0
  BY DEF KernelInit
<1>2. KernelTypeOK
  <2>1. svc \in [Service -> SvcState] /\ phase \in KernelPhase
    BY <1>1 DEF SvcState, KernelPhase
  <2>2. deps \in [Service -> Seq(Service \cup Unregistered)]
    BY <1>1, KernelAssumption
  <2> QED BY <1>1, <2>1, <2>2, NoCallTypes DEF KernelTypeOK
<1>3. ListInOrder(started, deps) /\ Services(started, svc, Len(started), {})
  BY <1>1 DEF ListInOrder, Services, UpTo, Off
<1>4. starting.pc = "idle" /\ \A t \in Stopper : stop[t].pc = "idle"
  BY <1>1, NoCallTypes
<1>5. StartOK(starting, started, svc, deps) /\ \A t \in Stopper : StopOK(stop[t], started, svc)
  BY <1>4 DEF StartOK, StopOK
<1>6. Exclusive /\ PhaseOK
  BY <1>1, <1>3, <1>4 DEF Exclusive, PhaseOK
<1> QED BY <1>1, <1>2, <1>3, <1>5, <1>6 DEF KernelInv

LEMMA KernelKeeps ==
  ASSUME SortIsRight, ~ SignalDuringStart, KernelInv, [KernelNext]_kernelVars PROVE KernelInv'
<1>1. CASE StartRefused \/ StartBegin
  BY <1>1, StartBegins
<1>2. CASE StartRuns
  BY <1>2, ServiceStarts, StartEnds, StartRollsBack DEF StartRuns
<1>3. ASSUME NEW t \in Stopper, StopBegin(t) \/ StopEmitFails(t) \/ StopRuns(t) PROVE KernelInv'
  BY <1>3, StopBegins, StopWalks, StopLeaves DEF StopRuns
<1>4. CASE UNCHANGED kernelVars
  BY <1>4 DEF kernelVars, KernelInv, KernelTypeOK, Exclusive, PhaseOK, AtRest
<1> QED BY <1>1, <1>2, <1>3, <1>4 DEF KernelNext

(* The invariant of the kernel: the services that are up are the first of   *)
(* _started that the walk under way has left, in the order of the           *)
(* dependencies, and the phase says which walk that is.  It needs that      *)
(* stop() is not called while start() runs (kernel.py:91 allows it).        *)
THEOREM KernelInductive == SortIsRight /\ ~ SignalDuringStart => (KernelSpec => []KernelInv)
<1> SUFFICES ASSUME SortIsRight, ~ SignalDuringStart PROVE KernelSpec => []KernelInv
  OBVIOUS
<1>1. KernelInit => KernelInv
  BY KernelStarts
<1>2. KernelInv /\ [KernelNext]_kernelVars => KernelInv'
  BY KernelKeeps
<1> QED BY <1>1, <1>2, PTL DEF KernelSpec

\* A service that is at work and not in the list is the one awaited.
LEMMA WhoIsBusy ==
  ASSUME KernelInv, NEW s \in Service
  PROVE  /\ svc[s] = "starting" =>
              starting.pc = "awaiting" /\ s = starting.order[starting.pos]
         /\ svc[s] = "stopping" => \E i \in 1 .. Len(started) : Stopping(started, svc, i, s)
<1>1. StartOK(starting, started, svc, deps) /\ \A t \in Stopper : StopOK(stop[t], started, svc)
  BY DEF KernelInv
<1>2. ASSUME NEW i, NEW busy, Services(started, svc, i, busy), s \notin busy
      PROVE  svc[s] \notin {"starting", "stopping"}
  BY <1>2 DEF Services, Off
<1>3. CASE starting.pc = "awaiting"
  <2>1. svc[starting.order[starting.pos]] = "starting"
        /\ Services(started, svc, Len(started), {starting.order[starting.pos]})
    BY <1>1, <1>3 DEF StartOK
  <2> QED BY <1>2, <1>3, <2>1
<1>4. ASSUME NEW i, NEW target, Stopping(started, svc, i, target)
      PROVE  /\ svc[s] # "starting"
             /\ svc[s] = "stopping" => \E j \in 1 .. Len(started) : Stopping(started, svc, j, s)
  <2>1. Services(started, svc, i - 1, {target}) /\ svc[target] = "stopping" /\ i \in 1 .. Len(started)
    BY <1>4 DEF Stopping
  <2> QED BY <1>2, <1>4, <2>1
<1>5. CASE starting.pc \in {"loop", "rollback"}
  BY <1>1, <1>2, <1>5 DEF StartOK
<1>6. CASE starting.pc = "undoing"
  BY <1>1, <1>4, <1>6 DEF StartOK
<1>7. ASSUME NEW t \in Stopper, stop[t].pc = "loop" PROVE svc[s] \notin {"starting", "stopping"}
  BY <1>1, <1>2, <1>7 DEF StopOK
<1>8. ASSUME NEW t \in Stopper, stop[t].pc = "awaiting"
      PROVE  /\ svc[s] # "starting"
             /\ svc[s] = "stopping" => \E j \in 1 .. Len(started) : Stopping(started, svc, j, s)
  BY <1>1, <1>4, <1>8 DEF StopOK
<1>9. CASE AtRest
  <2>1. Services(started, svc, Len(started), {})
    BY <1>9 DEF KernelInv, PhaseOK
  <2> QED BY <1>2, <2>1
<1>10. \/ starting.pc \in {"awaiting", "loop", "rollback", "undoing"} \/ AtRest
       \/ \E t \in Stopper : stop[t].pc \in {"loop", "awaiting"}
  BY DEF KernelInv, KernelTypeOK, StartCall, StopCall, AtRest
<1> QED BY <1>3, <1>5, <1>6, <1>7, <1>8, <1>9, <1>10

LEMMA OrderFollows ==
  ASSUME KernelInv PROVE OrderIsKept
<1>1. DependenciesFirst
  <2> SUFFICES ASSUME NEW s \in Service, svc[s] = "starting", NEW d \in ToSet(deps[s])
               PROVE  /\ d \in ToSet(SubSeq(starting.order, 1, starting.pos - 1))
                      /\ d \in Critical => svc[d] = "up"
    BY DEF DependenciesFirst
  <2>1. starting.pc = "awaiting" /\ s = starting.order[starting.pos]
    BY WhoIsBusy
  <2>2. /\ LoopOK(starting, started, deps) /\ starting.pos <= Len(starting.order)
        /\ Services(started, svc, Len(started), {s}) /\ starting.order \in Seq(Service)
        /\ svc \in [Service -> SvcState]
    BY <2>1 DEF KernelInv, StartOK, LoopOK, DependenciesBefore, KernelTypeOK
  <2>3. Len(starting.order) \in Nat /\ starting.pos \in 1 .. Len(starting.order)
    BY <2>2, ListTypes DEF LoopOK
  <2>4. PICK i \in 1 .. Len(starting.order) : i < starting.pos /\ starting.order[i] = d
    <3>1. \A j \in 1 .. Len(starting.order) : \A e \in ToSet(deps[starting.order[j]]) :
            \E k \in 1 .. Len(starting.order) : k < j /\ starting.order[k] = e
      BY <2>2 DEF LoopOK, DependenciesBefore
    <3>2. d \in ToSet(deps[starting.order[starting.pos]])
      BY <2>1
    <3> QED BY <2>3, <3>1, <3>2
  <2>5. d \in Service
    BY <2>2, <2>4, ListTypes
  <2> DEFINE before == SubSeq(starting.order, 1, starting.pos - 1)
  <2>6. Len(before) = starting.pos - 1 /\ \A j \in 1 .. starting.pos - 1 : before[j] = starting.order[j]
        /\ before \in Seq(Service)
    BY <2>2, <2>3, SubSeqProperties
  <2>7. i \in 1 .. Len(before) /\ before[i] = d
    BY <2>3, <2>4, <2>6
  <2> HIDE DEF before
  <2>8. d \in ToSet(before)
    BY <2>6, <2>7, LenProperties DEF ToSet
  <2>9. ASSUME d \in Critical PROVE svc[d] = "up"
    <3>1. d \in UpTo(started, Len(started))
      BY <2>2, <2>4, <2>9 DEF LoopOK
    <3> QED BY <2>2, <2>5, <3>1 DEF Services
  <2> QED BY <2>8, <2>9 DEF before
<1>2. DependentsStopFirst
  <2> SUFFICES ASSUME NEW s \in Service, NEW t \in Service, svc[s] = "stopping", s \in ToSet(deps[t])
               PROVE  svc[t] \in {"down", "stuck"}
    BY DEF DependentsStopFirst
  <2>1. PICK i \in 1 .. Len(started) : Stopping(started, svc, i, s)
    BY WhoIsBusy
  <2>2. s = started[i] /\ Services(started, svc, i - 1, {s})
    BY <2>1 DEF Stopping
  <2>3. Len(started) \in Nat /\ ListInOrder(started, deps)
    BY ListTypes DEF KernelInv, KernelTypeOK
  <2>4. t # s
    BY <2>2, <2>3 DEF ListInOrder
  <2>5. t \notin UpTo(started, i - 1)
    <3> SUFFICES ASSUME NEW j \in 1 .. i - 1, t = started[j] PROVE FALSE
      BY DEF UpTo
    <3>1. j \in 1 .. Len(started) /\ j < i
      BY <2>3
    <3>2. i < j
      BY <2>2, <2>3, <3>1 DEF ListInOrder
    <3> QED BY <3>1, <3>2
  <2> QED BY <2>2, <2>4, <2>5 DEF Services, Off
<1> QED BY <1>1, <1>2 DEF OrderIsKept

LEMMA PhaseFollows ==
  ASSUME KernelInv PROVE PhaseTellsTheTruth
<1>1. KernelTypeOK
  BY DEF KernelInv
<1>2. StartsIffAcyclic
  BY DEF KernelInv, PhaseOK, StartsIffAcyclic
<1>3. ASSUME phase \notin {"starting", "stopping"} PROVE Services(started, svc, Len(started), {})
  <2>1. AtRest
    BY <1>3 DEF KernelInv, Exclusive, AtRest
  <2> QED BY <2>1 DEF KernelInv, PhaseOK
<1>4. PhaseIsEarned
  <2>1. \A s \in Critical : s \in Service
    BY KernelAssumption
  <2> QED BY <1>3, <2>1 DEF KernelInv, PhaseOK, PhaseIsEarned, Services
<1>5. NothingLeftRunning
  <2> SUFFICES ASSUME phase \in {"created", "stopped"}, NEW s \in Service
               PROVE  svc[s] \in {"down", "stuck"}
    BY DEF NothingLeftRunning
  <2>1. started = <<>> /\ Services(started, svc, Len(started), {})
    BY <1>3 DEF KernelInv, PhaseOK
  <2>2. s \notin UpTo(started, Len(started))
    BY <2>1 DEF UpTo
  <2> QED BY <2>1, <2>2 DEF Services, Off
<1> QED BY <1>1, <1>2, <1>4, <1>5 DEF PhaseTellsTheTruth

(* FR-1: services come up after, and go down before, what they depend on,   *)
(* for any graph _topo_sort sorts rightly (AQKernel.start and stop).        *)
THEOREM OrderIsKeptTheorem == SortIsRight /\ ~ SignalDuringStart => (KernelSpec => []OrderIsKept)
<1>1. KernelInv => OrderIsKept
  BY OrderFollows
<1> QED BY <1>1, KernelInductive, PTL

(* FR-2, FR-3, FR-8: the phase tells the truth about the services, after    *)
(* failures, rollbacks and stops that fail or are repeated.                 *)
THEOREM PhaseTellsTheTruthTheorem ==
  SortIsRight /\ ~ SignalDuringStart => (KernelSpec => []PhaseTellsTheTruth)
<1>1. KernelInv => PhaseTellsTheTruth
  BY PhaseFollows
<1> QED BY <1>1, KernelInductive, PTL

-----------------------------------------------------------------------------
(***************************************************************************)
(* Response campaigns: what a copy of the record says of the runs is true  *)
(* of them, however old it is, because what it says never ceases to be so. *)
(***************************************************************************)
\* Every run of phase p has succeeded.
Over(p, store) == \A r \in ToSet(RefsOf(p)) : AllSucceeded(store[r].results)

RunsOK(store) ==
  /\ store \in [RunId -> Run]
  /\ \A r \in RunId : /\ store[r].status = "completed" => AllSucceeded(store[r].results)
                      /\ store[r].version = 0 => store[r].results = <<>>

RecordFields == {"status", "mirror", "phase", "trail", "version"}
IsRecord(k)  ==
  /\ k = [x \in RecordFields |-> k[x]]
  /\ k.mirror \in [RunId -> RunStatus] /\ k.phase \in [Phase -> PhaseStatuses] /\ k.version \in Nat

Honest(k, store) ==
  /\ \A r \in RunId : k.mirror[r] = "completed" => AllSucceeded(store[r].results)
  /\ \A p \in Phase : k.phase[p] = "completed" => Over(p, store)
  /\ k.status = "completed" => \A p \in Phase : Over(p, store)

RecordOK(k, store) == IsRecord(k) /\ Honest(k, store)

CallFields == {"pc", "op", "copy", "todo", "phase", "rv", "auto"}
IsCall(k)  == k = [x \in CallFields |-> k[x]]

CallOK(k, store) ==
  /\ IsCall(k) /\ RecordOK(k.copy, store)
  /\ k.pc = "idle" => k.op = "none"
  /\ k.pc \in {"propose", "derive"} => k.todo \in Seq(RunId)
  /\ k.pc \in {"execute", "act", "complete"} =>
       /\ k.phase \in Phase /\ k.todo \in Seq(ToSet(RefsOf(k.phase)))
       /\ k.pc # "execute" => k.todo # <<>>
       /\ \A q \in Phase : q < k.phase => Over(q, store)

\* A copy with the version of the stored record has the whole trail.
VersionOK(k, stored) ==
  k.version <= stored.version /\ (k.version = stored.version => stored.trail \subseteq k.trail)

VersionsOK ==
  /\ campaign.version = 0 => campaign.trail = {}
  /\ \A c \in Client :
       /\ VersionOK(call[c].copy, campaign)
       /\ call[c].pc \notin {"idle", "propose"} => call[c].copy.version > 0
       /\ call[c].pc = "propose" =>
            /\ campaign.version = 0 /\ call[c].op \in {"plan", "trigger"}
            /\ \A d \in Client : call[d].pc = "propose" => d = c

\* No call of a campaign that was halted quietly will execute a run.
QuietCall(k) ==
  /\ k.pc \in {"idle", "derive", "halt", "reopen", "store"}
  /\ k.op \notin {"plan", "trigger", "blocked"}
  /\ k.pc = "derive" =>
       \A r \in ToSet(Refs) : r \in ToSet(k.todo) \/ k.copy.mirror[r] \in Terminal

AllTerminal(store) == \A r \in ToSet(Refs) : store[r].status \in Terminal

QuietOK ==
  quietHalt => /\ campaign.version > 0 /\ AllTerminal(runs)
               /\ \A c \in Client : QuietCall(call[c])

CampaignInv ==
  /\ RunsOK(runs) /\ finding \in [RunId -> Finding]
  /\ call = [c \in Client |-> call[c]] /\ \A c \in Client : CallOK(call[c], runs)
  /\ RecordOK(campaign, runs)
  /\ PhasesInOrder /\ VersionsOK /\ QuietOK

-----------------------------------------------------------------------------
(* Phases and their runs                                                    *)
LEMMA PhaseFacts ==
  /\ Phase = 1 .. Len(Phases) /\ Len(Phases) \in Nat /\ 1 \in Phase
  /\ \A p \in Phase : /\ RefsOf(p) \in Seq(RunId) /\ ToSet(RefsOf(p)) # {}
                      /\ RefsOf(p) \in Seq(ToSet(RefsOf(p)))
                      /\ ToSet(RefsOf(p)) \subseteq RunId /\ ToSet(RefsOf(p)) \subseteq ToSet(Refs)
  /\ \A p, q \in Phase : p # q => ToSet(RefsOf(p)) \cap ToSet(RefsOf(q)) = {}
  /\ ToSet(Refs) \subseteq RunId /\ Refs \in Seq(RunId)
<1>1. Phases \in Seq(Seq(RunId) \ {<<>>}) /\ Phases # <<>>
  BY CampaignAssumption
<1>2. Phase = 1 .. Len(Phases) /\ Len(Phases) \in Nat /\ 1 \in Phase
  BY <1>1, LenProperties, EmptySeq DEF Phase
<1>3. ASSUME NEW p \in Phase
      PROVE  /\ RefsOf(p) \in Seq(RunId) /\ ToSet(RefsOf(p)) # {}
             /\ RefsOf(p) \in Seq(ToSet(RefsOf(p)))
             /\ ToSet(RefsOf(p)) \subseteq RunId
  <2>1. RefsOf(p) \in Seq(RunId) /\ RefsOf(p) # <<>>
    BY <1>1, <1>2, ElementOfSeq DEF RefsOf
  <2>2. /\ DOMAIN RefsOf(p) = 1 .. Len(RefsOf(p)) /\ Len(RefsOf(p)) \in Nat \ {0}
        /\ \A i \in DOMAIN RefsOf(p) : RefsOf(p)[i] \in RunId
    BY <2>1, LenProperties, EmptySeq, ElementOfSeq
  <2>3. 1 \in DOMAIN RefsOf(p)
    BY <2>2
  <2>4. RefsOf(p) \in Seq(ToSet(RefsOf(p)))
    <3>1. RefsOf(p) \in [1 .. Len(RefsOf(p)) -> ToSet(RefsOf(p))]
      BY <2>1, <2>2 DEF ToSet
    <3> QED BY <2>2, <3>1
  <2> QED BY <2>1, <2>2, <2>3, <2>4 DEF ToSet
<1>4. ToSet(Refs) \subseteq RunId /\ Refs \in Seq(RunId)
  BY <1>3, RefsAssumption
<1> QED BY <1>2, <1>3, <1>4, RefsAssumption

\* A run that has succeeded has a result.
LEMMA SuccessHasResult ==
  ASSUME NEW q \in Seq(StepResult), AllSucceeded(q) PROVE Len(q) > 0
<1>1. 1 \in Step
  BY CampaignAssumption DEF Step
<1>2. PICK i \in DOMAIN q : TRUE
  BY <1>1 DEF AllSucceeded, Succeeded
<1> QED BY <1>2, LenProperties

\* When the phase before has succeeded, so have all before it.
LEMMA EarlierOver ==
  ASSUME RunsOK(runs), PhasesInOrder, NEW p \in Phase, p > 1 => Over(p - 1, runs)
  PROVE  \A q \in Phase : q < p => Over(q, runs)
<1> SUFFICES ASSUME NEW q \in Phase, q < p PROVE Over(q, runs)
  OBVIOUS
<1>1. p - 1 \in Phase /\ p > 1 /\ q \in Nat /\ p \in Nat
  BY PhaseFacts
<1>2. CASE q = p - 1
  BY <1>1, <1>2
<1>3. CASE q # p - 1
  <2>1. q < p - 1
    BY <1>1, <1>3
  <2>2. PICK s : s \in ToSet(RefsOf(p - 1)) /\ s \in RunId
    BY <1>1, PhaseFacts
  <2>3. AllSucceeded(runs[s].results) /\ runs[s].results \in Seq(StepResult)
    BY <1>1, <2>2 DEF Over, RunsOK, Run
  <2>4. Len(runs[s].results) > 0
    BY <2>3, SuccessHasResult
  <2> QED BY <1>1, <2>1, <2>2, <2>4 DEF PhasesInOrder, Over
<1> QED BY <1>2, <1>3

-----------------------------------------------------------------------------
(* Runs that move on: what was true of their successes stays true.          *)
Later(old, new) == \A r \in RunId : AllSucceeded(old[r].results) => AllSucceeded(new[r].results)

LEMMA LaterKeeps ==
  ASSUME NEW old, NEW new, Later(old, new)
  PROVE  /\ \A p \in Phase : Over(p, old) => Over(p, new)
         /\ \A k : RecordOK(k, old) => RecordOK(k, new)
         /\ \A k : CallOK(k, old) => CallOK(k, new)
<1>1. \A p \in Phase : Over(p, old) => Over(p, new)
  BY PhaseFacts DEF Over, Later
<1>2. ASSUME NEW k, RecordOK(k, old) PROVE RecordOK(k, new)
  BY <1>1, <1>2 DEF RecordOK, Honest, Later
<1>3. ASSUME NEW k, CallOK(k, old) PROVE CallOK(k, new)
  BY <1>1, <1>2, <1>3 DEF CallOK
<1> QED BY <1>1, <1>2, <1>3

\* One run is replaced by a later state of it.
LEMMA RunReplaced ==
  ASSUME RunsOK(runs), NEW r, NEW new, runs' = [runs EXCEPT ![r] = new],
         r \in RunId => /\ new \in Run
                        /\ new.status = "completed" => AllSucceeded(new.results)
                        /\ new.version = 0 => new.results = <<>>
                        /\ AllSucceeded(runs[r].results) => AllSucceeded(new.results)
  PROVE  /\ RunsOK(runs') /\ Later(runs, runs')
         /\ \A q \in RunId : q # r => runs'[q] = runs[q]
         /\ r \in RunId => runs'[r] = new
         /\ r \notin RunId => runs' = runs
<1>1. runs \in [RunId -> Run]
  BY DEF RunsOK
<1>2. CASE r \in RunId
  <2>1. /\ \A q \in RunId : q # r => runs'[q] = runs[q]
        /\ runs'[r] = new /\ runs' \in [RunId -> Run]
    BY <1>1, <1>2
  <2>2. \A q \in RunId : q = r \/ runs'[q] = runs[q]
    BY <2>1
  <2>3. RunsOK(runs')
    BY <2>1, <2>2 DEF RunsOK
  <2> QED BY <1>2, <2>1, <2>2, <2>3 DEF Later
<1>3. CASE r \notin RunId
  <2>1. runs' = runs
    BY <1>1, <1>3
  <2> QED BY <1>3, <2>1 DEF Later
<1> QED BY <1>2, <1>3

LEMMA ResultsStay ==
  ASSUME PhasesInOrder, \A q \in RunId : runs'[q].results = runs[q].results
  PROVE  PhasesInOrder'
BY PhaseFacts DEF PhasesInOrder

-----------------------------------------------------------------------------
(* The steps of the workflow engine                                         *)
LEMMA LifeIs ==
  /\ Life!NewRun = NewRun
  /\ \A q : Life!AllSucceeded(q) = AllSucceeded(q)
  /\ \A run, f : Life!Simulated(run, f) = Simulated(run, f)
  /\ \A run, f, a : Life!WithApproval(run, f, a) = WithApproval(run, f, a)
  /\ \A run, res : Life!WithSuccess(run, res) = WithSuccess(run, res)
  /\ \A run, res : Life!WithFailure(run, res) = WithFailure(run, res)
  /\ \A run : Life!Completed(run) = Completed(run)
  /\ \A run : Life!Halted(run) = Halted(run)
  /\ \A run : Life!NextVersion(run) = NextVersion(run)
  /\ Life!StepResult = StepResult
<1>1. Life!Step = Step
  BY DEF Life!Step, Step
<1>2. \A s, f : Life!RequiresApproval(s, f) = RequiresApproval(s, f)
  BY DEF Life!RequiresApproval, RequiresApproval
<1>3. \A s, as : Life!Approved(s, as) = Approved(s, as)
  BY DEF Life!Approved, Approved
<1>4. \A f, as : Life!Covered(f, as) = Covered(f, as)
  BY <1>1, <1>2, <1>3 DEF Life!Covered, Covered
<1>5. \A f, as : Life!SimulatedStatus(f, as) = SimulatedStatus(f, as)
  BY <1>1, <1>2, <1>4 DEF Life!SimulatedStatus, SimulatedStatus
<1>6. \A f, as : Life!ApprovalStatus(f, as) = ApprovalStatus(f, as)
  BY <1>4 DEF Life!ApprovalStatus, ApprovalStatus
<1>7. \A q : Life!Succeeded(q) = Succeeded(q)
  BY <1>1 DEF Life!Succeeded, Succeeded
<1>8. /\ Life!NewRun = NewRun
      /\ \A q : Life!AllSucceeded(q) = AllSucceeded(q)
      /\ Life!StepResult = StepResult
  BY <1>1, <1>7 DEF Life!NewRun, NewRun, Life!NoRun, NoRun, Life!AllSucceeded, AllSucceeded,
                    Life!StepResult, StepResult, Life!StepStatus, StepStatus
<1>9. /\ \A run, f : Life!Simulated(run, f) = Simulated(run, f)
      /\ \A run, f, a : Life!WithApproval(run, f, a) = WithApproval(run, f, a)
  BY <1>5, <1>6 DEF Life!Simulated, Simulated, Life!WithApproval, WithApproval
<1>10. /\ \A run, res : Life!WithSuccess(run, res) = WithSuccess(run, res)
       /\ \A run, res : Life!WithFailure(run, res) = WithFailure(run, res)
  BY DEF Life!WithSuccess, WithSuccess, Life!WithFailure, WithFailure
<1>11. /\ \A run : Life!Completed(run) = Completed(run)
       /\ \A run : Life!Halted(run) = Halted(run)
       /\ \A run : Life!NextVersion(run) = NextVersion(run)
  BY DEF Life!Completed, Completed, Life!Halted, Halted, Life!NextVersion, NextVersion
<1> QED BY <1>8, <1>9, <1>10, <1>11

\* A record is stored with the next version, its results the old ones or one more.
LEMMA LifeStores ==
  ASSUME RunsOK(runs), NEW r, NEW run, Life!Store(r, run),
         r \in RunId => /\ run \in Run
                        /\ run.status = "completed" => AllSucceeded(run.results)
                        /\ AllSucceeded(runs[r].results) => AllSucceeded(run.results)
  PROVE  /\ RunsOK(runs') /\ Later(runs, runs') /\ finding' = finding
         /\ \A q \in RunId : q # r => runs'[q] = runs[q]
         /\ r \in RunId => runs'[r].results = run.results /\ runs'[r].status = run.status
<1> DEFINE new == NextVersion(run)
<1>1. runs' = [runs EXCEPT ![r] = new] /\ finding' = finding
  BY LifeIs DEF Life!Store
<1>2. ASSUME r \in RunId
      PROVE  /\ new \in Run /\ new.results = run.results /\ new.status = run.status
             /\ new.version # 0
  BY <1>2 DEF NextVersion, Run
<1>3. r \in RunId => /\ new \in Run
                     /\ new.status = "completed" => AllSucceeded(new.results)
                     /\ new.version = 0 => new.results = <<>>
                     /\ AllSucceeded(runs[r].results) => AllSucceeded(new.results)
  BY <1>2
<1> HIDE DEF new
<1>4. /\ RunsOK(runs') /\ Later(runs, runs')
      /\ \A q \in RunId : q # r => runs'[q] = runs[q]
      /\ r \in RunId => runs'[r] = new
  BY ONLY RunsOK(runs), <1>1, <1>3, RunReplaced
<1> QED BY <1>1, <1>2, <1>4

LEMMA SomeInputs ==
  /\ [steps |-> {1}, token |-> TRUE] \in Approval
  /\ \A status \in {"succeeded", "failed"} : Result(status) \in StepResult
  /\ <<>> \in Seq(StepResult)
BY CampaignAssumption DEF Approval, Step, Result, StepResult, StepStatus

\* What leaves the results as they are
LEMMA ResultsKept ==
  ASSUME RunsOK(runs), NEW r, NEW run, Life!Store(r, run),
         r \in RunId => /\ run \in Run /\ run.results = runs[r].results
                        /\ run.status = "completed" => AllSucceeded(run.results)
  PROVE  /\ RunsOK(runs') /\ Later(runs, runs') /\ finding' = finding
         /\ \A q \in RunId : runs'[q].results = runs[q].results
         /\ \A q \in RunId : q # r => runs'[q] = runs[q]
         /\ r \in RunId => runs'[r].status = run.status
<1>1. /\ RunsOK(runs') /\ Later(runs, runs') /\ finding' = finding
      /\ \A q \in RunId : q # r => runs'[q] = runs[q]
      /\ r \in RunId => runs'[r].results = run.results /\ runs'[r].status = run.status
  BY LifeStores
<1> QED BY <1>1

LEMMA LifeTouches ==
  ASSUME RunsOK(runs), finding \in [RunId -> Finding], NEW r,
         Life!Simulate(r) \/ Life!Approve(r, [steps |-> {1}, token |-> TRUE]) \/ Life!Complete(r)
  PROVE  /\ RunsOK(runs') /\ Later(runs, runs') /\ finding' = finding
         /\ \A q \in RunId : runs'[q].results = runs[q].results
         /\ \A q \in RunId : q # r => runs'[q] = runs[q]
<1> DEFINE a == [steps |-> {1}, token |-> TRUE]
           res == Result("failed")
<1>1. a \in Approval /\ res \in StepResult /\ <<>> \in Seq(StepResult)
  BY SomeInputs
<1> HIDE DEF a, res
<1>2. ASSUME r \in RunId PROVE runs[r] \in Run /\ finding[r] \in Finding
  BY <1>2 DEF RunsOK
<1>3. CASE Life!Simulate(r)
  <2> DEFINE run == Simulated(runs[r], finding[r])
  <2>1. Life!Store(r, run)
    BY <1>3, LifeIs DEF Life!Simulate
  <2>2. SimulatedStatus(finding[r], runs[r].approvals) # "completed"
    BY DEF SimulatedStatus
  <2>3. r \in RunId => run \in Run /\ run.results = runs[r].results /\ run.status # "completed"
    BY <1>1, <1>2, <2>2, RuleTypes DEF Simulated, Run
  <2> HIDE DEF run
  <2> QED BY <2>1, <2>3, ResultsKept
<1>4. CASE Life!Approve(r, a)
  <2> DEFINE run == WithApproval(runs[r], finding[r], a)
  <2>1. Life!Store(r, run)
    BY <1>4, LifeIs DEF Life!Approve
  <2>2. ApprovalStatus(finding[r], runs[r].approvals \cup {a}) # "completed"
    BY DEF ApprovalStatus
  <2>3. r \in RunId => run \in Run
    BY <1>1, <1>2, RuleTypes
  <2>4. r \in RunId => run.results = runs[r].results /\ run.status # "completed"
    BY <1>2, <2>2 DEF WithApproval, Run
  <2> HIDE DEF run
  <2> QED BY <2>1, <2>3, <2>4, ResultsKept
<1>5. CASE Life!Complete(r)
  <2> DEFINE run == Completed(runs[r])
  <2>1. Life!Store(r, run) /\ AllSucceeded(runs[r].results)
    BY <1>5, LifeIs DEF Life!Complete
  <2>2. r \in RunId => run \in Run /\ run.results = runs[r].results
    BY <1>1, <1>2, RuleTypes DEF Completed, Run
  <2> HIDE DEF run
  <2> QED BY <2>1, <2>2, ResultsKept
<1> QED BY <1>3, <1>4, <1>5 DEF a

LEMMA LifeHalts ==
  ASSUME RunsOK(runs), finding \in [RunId -> Finding], NEW r, Life!Halt(r)
  PROVE  /\ RunsOK(runs') /\ Later(runs, runs') /\ finding' = finding
         /\ \A q \in RunId : runs'[q].results = runs[q].results
         /\ \A q \in RunId : runs'[q].status \in {runs[q].status, "halted"}
<1> DEFINE run == Halted(runs[r])
<1>1. Life!Store(r, run)
  BY LifeIs DEF Life!Halt
<1>2. ASSUME r \in RunId PROVE runs[r] \in Run /\ finding[r] \in Finding
  BY <1>2 DEF RunsOK
<1>3. r \in RunId => run \in Run
  BY <1>2, SomeInputs, RuleTypes
<1>4. r \in RunId => run.results = runs[r].results /\ run.status = "halted"
  BY <1>2 DEF Halted, Run
<1> HIDE DEF run
<1>5. /\ RunsOK(runs') /\ Later(runs, runs') /\ finding' = finding
      /\ \A q \in RunId : runs'[q].results = runs[q].results
      /\ \A q \in RunId : q # r => runs'[q] = runs[q]
      /\ r \in RunId => runs'[r].status = run.status
  BY <1>1, <1>3, <1>4, ResultsKept
<1> QED BY <1>4, <1>5

\* A step of the run ends, well or not.
LEMMA LifeActs ==
  ASSUME RunsOK(runs), NEW r \in RunId,
         \/ Life!StepSucceeds(r, Result("succeeded")) \/ Life!StepFails(r, Result("failed"))
  PROVE  /\ RunsOK(runs') /\ Later(runs, runs') /\ finding' = finding
         /\ \A q \in RunId : q # r => runs'[q] = runs[q]
<1>1. runs[r] \in Run /\ runs[r].results \in Seq(StepResult)
  BY DEF RunsOK, Run
<1>2. ASSUME NEW res \in StepResult, NEW run \in Run,
             run.results = Append(runs[r].results, res), run.status \in {runs[r].status, "failed"},
             Life!Store(r, run)
      PROVE  /\ RunsOK(runs') /\ Later(runs, runs') /\ finding' = finding
             /\ \A q \in RunId : q # r => runs'[q] = runs[q]
  <2>1. Succeeded(runs[r].results) \subseteq Succeeded(run.results)
    BY <1>1, <1>2, SucceededAppend
  <2>2. AllSucceeded(runs[r].results) => AllSucceeded(run.results)
    BY <2>1 DEF AllSucceeded, Succeeded
  <2>3. run.status = "completed" => AllSucceeded(run.results)
    BY <1>2, <2>2 DEF RunsOK
  <2> QED BY <1>2, <2>2, <2>3, LifeStores
<1>3. CASE Life!StepSucceeds(r, Result("succeeded"))
  <2> DEFINE res == Result("succeeded")
             run == WithSuccess(runs[r], res)
  <2>1. Life!Store(r, run)
    BY <1>3, LifeIs DEF Life!StepSucceeds
  <2>2. res \in StepResult
    BY SomeInputs
  <2> HIDE DEF res
  <2>3. run.results = Append(runs[r].results, res) /\ run.status = runs[r].status
    BY <1>1 DEF WithSuccess, Run
  <2>4. run \in Run
    BY <1>1, <2>2, AppendProperties DEF WithSuccess, Run
  <2> HIDE DEF run
  <2> QED BY <1>2, <2>1, <2>2, <2>3, <2>4
<1>4. CASE Life!StepFails(r, Result("failed"))
  <2> DEFINE res == Result("failed")
             run == WithFailure(runs[r], res)
  <2>1. Life!Store(r, run)
    BY <1>4, LifeIs DEF Life!StepFails
  <2>2. res \in StepResult
    BY SomeInputs
  <2> HIDE DEF res
  <2>3. run.results = Append(runs[r].results, res) /\ run.status = "failed"
    BY <1>1 DEF WithFailure, Run
  <2>4. run \in Run
    BY <1>1, <2>2, AppendProperties DEF WithFailure, Run, RunStatus
  <2> HIDE DEF run
  <2> QED BY <1>2, <2>1, <2>2, <2>3, <2>4
<1> QED BY <1>3, <1>4

\* A run is proposed.
LEMMA LifeProposes ==
  ASSUME RunsOK(runs), finding \in [RunId -> Finding], NEW r, NEW f \in Finding, Life!Propose(r, f)
  PROVE  /\ RunsOK(runs') /\ Later(runs, runs') /\ finding' \in [RunId -> Finding]
         /\ \A q \in RunId : runs'[q].results = runs[q].results
         /\ \A q \in RunId : q # r => runs'[q] = runs[q]
<1>1. /\ runs[r].version = 0 \/ ~ (runs[r].version > 0)
      /\ runs' = [runs EXCEPT ![r] = NewRun] /\ finding' = [finding EXCEPT ![r] = f]
  BY LifeIs DEF Life!Propose, Life!Exists
<1>2. /\ NewRun \in Run /\ NewRun.status = "proposed" /\ NewRun.results = <<>>
  BY SomeInputs DEF NewRun, NoRun, Run, RunStatus
<1>3. r \in RunId => runs[r].results = <<>>
  <2>1. r \in RunId => runs[r].version \in Nat
    BY DEF RunsOK, Run
  <2> QED BY <1>1, <2>1 DEF RunsOK
<1>4. finding' \in [RunId -> Finding]
  <2>1. CASE r \in RunId
    BY <1>1, <2>1
  <2>2. CASE r \notin RunId
    BY <1>1, <2>2
  <2> QED BY <2>1, <2>2
<1>5. /\ RunsOK(runs') /\ Later(runs, runs')
      /\ \A q \in RunId : q # r => runs'[q] = runs[q]
      /\ r \in RunId => runs'[r] = NewRun
  BY <1>1, <1>2, <1>3, RunReplaced
<1> QED BY <1>2, <1>3, <1>4, <1>5

-----------------------------------------------------------------------------
(* What is computed from a copy                                             *)
LEMMA PhaseStatusIs ==
  ASSUME NEW p, NEW mirror
  PROVE  /\ PhaseStatus(p, mirror) \in PhaseStatuses
         /\ PhaseStatus(p, mirror) = "completed" => \A r \in ToSet(RefsOf(p)) : mirror[r] = "completed"
         /\ (\A r \in ToSet(RefsOf(p)) : mirror[r] \in Terminal) =>
              PhaseStatus(p, mirror) \in {"failed", "completed"}
<1> DEFINE statuses == {mirror[r] : r \in ToSet(RefsOf(p))}
<1>1. PhaseStatus(p, mirror) \in PhaseStatuses
  BY DEF PhaseStatus, PhaseStatuses
<1>2. PhaseStatus(p, mirror) = "completed" => statuses \subseteq {"completed"}
  BY DEF PhaseStatus
<1>3. ASSUME statuses \subseteq Terminal PROVE PhaseStatus(p, mirror) \in {"failed", "completed"}
  <2>1. statuses \cap {"failed", "halted"} # {} \/ statuses \subseteq {"completed"}
    BY <1>3 DEF Terminal
  <2>2. CASE statuses \cap {"failed", "halted"} # {}
    BY <2>2 DEF PhaseStatus
  <2>3. CASE statuses \cap {"failed", "halted"} = {}
    BY <2>1, <2>3 DEF PhaseStatus
  <2> QED BY <2>2, <2>3
<1> QED BY <1>1, <1>2, <1>3

LEMMA BlocksAre ==
  ASSUME NEW phases \in [Phase -> PhaseStatuses]
  PROVE  /\ DependencyBlocks(phases) \in [Phase -> PhaseStatuses]
         /\ \A p \in Phase : /\ DependencyBlocks(phases)[p] = "completed" => phases[p] = "completed"
                             /\ phases[p] # "pending" => DependencyBlocks(phases)[p] = phases[p]
BY DEF DependencyBlocks, PhaseStatuses

LEMMA WithPhasesOK ==
  ASSUME NEW store, NEW k, RecordOK(k, store), NEW phases \in [Phase -> PhaseStatuses],
         \A p \in Phase : phases[p] = "completed" => Over(p, store)
  PROVE  LET new == WithPhases(k, phases) IN
         /\ RecordOK(new, store) /\ new.version = k.version /\ new.trail = k.trail
         /\ new.mirror = k.mirror /\ new.phase = phases
<1> DEFINE new == WithPhases(k, phases)
<1>1. /\ new = [x \in RecordFields |-> new[x]]
      /\ new.status = CampaignStatus(phases) /\ new.version = k.version /\ new.trail = k.trail
      /\ new.mirror = k.mirror /\ new.phase = phases
  BY DEF WithPhases, RecordOK, IsRecord, RecordFields
<1>2. CampaignStatus(phases) = "completed" => \A p \in Phase : phases[p] = "completed"
  BY DEF CampaignStatus
<1> HIDE DEF new
<1>3. RecordOK(new, store)
  BY <1>1, <1>2 DEF RecordOK, IsRecord, Honest
<1> QED BY <1>1, <1>3 DEF new

LEMMA DerivedOK ==
  ASSUME NEW store, NEW k, RecordOK(k, store)
  PROVE  /\ RecordOK(Derived(k), store)
         /\ Derived(k).version = k.version /\ Derived(k).trail = k.trail /\ Derived(k).mirror = k.mirror
         /\ (\A r \in ToSet(Refs) : k.mirror[r] \in Terminal) => NextPhases(Derived(k)) = {}
<1> DEFINE raw == [p \in Phase |-> PhaseStatus(p, k.mirror)]
           phases == DependencyBlocks(raw)
<1>1. raw \in [Phase -> PhaseStatuses]
  BY PhaseStatusIs
<1>2. ASSUME NEW p \in Phase, raw[p] = "completed" PROVE Over(p, store)
  <2>1. PhaseStatus(p, k.mirror) = "completed"
    BY <1>2
  <2>2. \A r \in ToSet(RefsOf(p)) : k.mirror[r] = "completed" /\ r \in RunId
    BY <2>1, PhaseStatusIs, PhaseFacts
  <2> QED BY <2>2 DEF RecordOK, Honest, Over
<1>3. (\A r \in ToSet(Refs) : k.mirror[r] \in Terminal) =>
        \A p \in Phase : raw[p] \in {"failed", "completed"}
  BY PhaseStatusIs, PhaseFacts
<1> HIDE DEF raw
<1>4. phases \in [Phase -> PhaseStatuses] /\ \A p \in Phase : phases[p] = "completed" => Over(p, store)
  BY <1>1, <1>2, BlocksAre
<1>5. (\A r \in ToSet(Refs) : k.mirror[r] \in Terminal) =>
        \A p \in Phase : phases[p] \in {"failed", "completed"}
  BY <1>1, <1>3, BlocksAre
<1>6. Derived(k) = WithPhases(k, phases)
  BY DEF Derived, raw
<1> HIDE DEF phases
<1>7. /\ RecordOK(Derived(k), store)
      /\ Derived(k).version = k.version /\ Derived(k).trail = k.trail
      /\ Derived(k).mirror = k.mirror /\ Derived(k).phase = phases
  BY <1>4, <1>6, WithPhasesOK
<1> QED BY <1>5, <1>7 DEF NextPhases, Ready

LEMMA MirroredOK ==
  ASSUME NEW store, NEW k, RecordOK(k, store), NEW r, NEW status,
         r \in RunId => /\ status \in RunStatus
                        /\ status = "completed" => AllSucceeded(store[r].results)
  PROVE  LET new == Mirrored(k, r, status) IN
         /\ RecordOK(new, store) /\ new.version = k.version /\ new.trail = k.trail
         /\ \A q \in RunId : new.mirror[q] = IF q = r THEN status ELSE k.mirror[q]
<1> DEFINE new == Mirrored(k, r, status)
           mirror == [k.mirror EXCEPT ![r] = status]
<1>1. k.mirror \in [RunId -> RunStatus]
  BY DEF RecordOK, IsRecord
<1>2. /\ mirror \in [RunId -> RunStatus]
      /\ \A q \in RunId : mirror[q] = IF q = r THEN status ELSE k.mirror[q]
  <2>1. CASE r \in RunId
    BY <1>1, <2>1
  <2>2. CASE r \notin RunId
    <3>1. mirror = k.mirror
      BY <1>1, <2>2
    <3> QED BY <1>1, <2>2, <3>1
  <2> QED BY <2>1, <2>2
<1>3. /\ new = [x \in RecordFields |-> new[x]]
      /\ new.status = k.status /\ new.version = k.version /\ new.trail = k.trail
      /\ new.mirror = mirror /\ new.phase = k.phase
  BY DEF Mirrored, RecordOK, IsRecord, RecordFields
<1> HIDE DEF new, mirror
<1>4. RecordOK(new, store)
  <2>1. IsRecord(new)
    BY <1>2, <1>3 DEF RecordOK, IsRecord
  <2>2. \A q \in RunId : new.mirror[q] = "completed" => AllSucceeded(store[q].results)
    BY <1>2, <1>3 DEF RecordOK, Honest
  <2> QED BY <1>3, <2>1, <2>2 DEF RecordOK, Honest
<1> QED BY <1>2, <1>3, <1>4 DEF new

LEMMA NothingYet ==
  ASSUME NEW store
  PROVE  /\ RecordOK(NoCampaign, store) /\ NoCampaign.version = 0 /\ NoCampaign.trail = {}
         /\ Idle.pc = "idle" /\ Idle.op = "none" /\ Idle.copy = NoCampaign /\ CallOK(Idle, store)
<1>1. RecordOK(NoCampaign, store)
  BY DEF RecordOK, IsRecord, RecordFields, Honest, NoCampaign, RunStatus, PhaseStatuses
<1>2. Idle.pc = "idle" /\ Idle.op = "none" /\ Idle.copy = NoCampaign /\ IsCall(Idle)
  BY DEF Idle, IsCall, CallFields
<1> QED BY <1>1, <1>2 DEF CallOK, NoCampaign

-----------------------------------------------------------------------------
(* What a step has to show                                                  *)
LEMMA CallIs ==
  ASSUME CampaignInv, NEW c \in Client, NEW next, call' = [call EXCEPT ![c] = next]
  PROVE  /\ call'[c] = next /\ \A d \in Client : d # c => call'[d] = call[d]
         /\ call' = [d \in Client |-> call'[d]]
         /\ \A d \in Client : d = c \/ call'[d] = call[d]
<1>1. call = [d \in Client |-> call[d]]
  BY DEF CampaignInv
<1>2. call' = [d \in Client |-> IF d = c THEN next ELSE call[d]]
  BY <1>1
<1> QED BY <1>2

LEMMA CampaignMoves ==
  ASSUME CampaignInv, NEW c \in Client, NEW next, call' = [call EXCEPT ![c] = next],
         RunsOK(runs'), Later(runs, runs'), finding' \in [RunId -> Finding], PhasesInOrder',
         RecordOK(campaign', runs'), CallOK(next, runs'), VersionsOK', QuietOK'
  PROVE  CampaignInv'
<1>1. /\ call'[c] = next /\ \A d \in Client : d = c \/ call'[d] = call[d]
      /\ call' = [d \in Client |-> call'[d]]
  BY CallIs
<1>2. \A d \in Client : CallOK(call[d], runs')
  BY LaterKeeps DEF CampaignInv
<1>3. \A d \in Client : CallOK(call'[d], runs')
  BY <1>1, <1>2
<1> QED BY <1>1, <1>3 DEF CampaignInv

\* The record stays; the call holds a copy of it that is not newer.
LEMMA VersionsMove ==
  ASSUME CampaignInv, NEW c \in Client, NEW next, call' = [call EXCEPT ![c] = next],
         campaign' = campaign, VersionOK(next.copy, campaign),
         next.pc \notin {"idle", "propose"} => next.copy.version > 0,
         next.pc = "propose" => call[c].pc = "propose" /\ next.op = call[c].op
  PROVE  VersionsOK'
<1>1. call'[c] = next /\ \A d \in Client : d = c \/ call'[d] = call[d]
  BY CallIs
<1>2. \A d \in Client : call'[d].pc = "propose" => call[d].pc = "propose" /\ call'[d].op = call[d].op
  BY <1>1
<1>3. VersionsOK
  BY DEF CampaignInv
<1>4. ASSUME NEW d \in Client
      PROVE  /\ VersionOK(call'[d].copy, campaign')
             /\ call'[d].pc \notin {"idle", "propose"} => call'[d].copy.version > 0
  BY <1>1, <1>3 DEF VersionsOK
<1> QED BY <1>2, <1>3, <1>4 DEF VersionsOK

LEMMA QuietMoves ==
  ASSUME CampaignInv, NEW c \in Client, NEW next, call' = [call EXCEPT ![c] = next],
         quietHalt' => /\ quietHalt /\ campaign'.version > 0 /\ AllTerminal(runs')
                       /\ QuietCall(next)
  PROVE  QuietOK'
<1>1. call'[c] = next /\ \A d \in Client : d = c \/ call'[d] = call[d]
  BY CallIs
<1>2. ASSUME quietHalt' PROVE \A d \in Client : QuietCall(call'[d])
  <2>1. \A d \in Client : QuietCall(call[d])
    BY <1>2 DEF CampaignInv, QuietOK
  <2> QED BY <1>1, <1>2, <2>1
<1> QED BY <1>2 DEF QuietOK

\* A call goes on, and the runs and the record stay.
LEMMA CallWorks ==
  ASSUME CampaignInv, NEW c \in Client, NEW next, call' = [call EXCEPT ![c] = next],
         UNCHANGED <<runs, finding, campaign, quietHalt>>,
         call[c].pc \notin {"idle", "propose"}, next.pc \notin {"idle", "propose"},
         CallOK(next, runs), next.copy.version = call[c].copy.version,
         next.copy.trail = call[c].copy.trail, quietHalt => QuietCall(next)
  PROVE  CampaignInv'
<1>1. /\ RunsOK(runs') /\ Later(runs, runs') /\ finding' \in [RunId -> Finding] /\ PhasesInOrder'
      /\ RecordOK(campaign', runs') /\ CallOK(next, runs')
  BY DEF CampaignInv, Later, PhasesInOrder
<1>2. /\ VersionOK(next.copy, campaign) /\ next.copy.version > 0
  BY DEF CampaignInv, VersionsOK, VersionOK
<1>3. VersionsOK'
  BY <1>2, VersionsMove
<1>4. QuietOK'
  BY QuietMoves DEF CampaignInv, QuietOK
<1> QED BY <1>1, <1>3, <1>4, CampaignMoves

\* A run moves on, under a call or without one, to a status that is still terminal
\* when the campaign is quietly halted.
LEMMA CallActs ==
  ASSUME CampaignInv, NEW c \in Client, NEW next, call' = [call EXCEPT ![c] = next],
         UNCHANGED <<campaign, quietHalt>>,
         RunsOK(runs'), Later(runs, runs'), finding' \in [RunId -> Finding], PhasesInOrder',
         quietHalt => AllTerminal(runs'),
         call[c].pc \notin {"idle", "propose"}, next.pc \notin {"idle", "propose"},
         CallOK(next, runs'), next.copy.version = call[c].copy.version,
         next.copy.trail = call[c].copy.trail, quietHalt => QuietCall(next)
  PROVE  CampaignInv'
<1>1. RecordOK(campaign', runs')
  BY LaterKeeps DEF CampaignInv
<1>2. /\ VersionOK(next.copy, campaign) /\ next.copy.version > 0
  BY DEF CampaignInv, VersionsOK, VersionOK
<1>3. VersionsOK'
  BY <1>2, VersionsMove
<1>4. QuietOK'
  BY QuietMoves DEF CampaignInv, QuietOK
<1> QED BY <1>1, <1>3, <1>4, CampaignMoves

LEMMA CallEnds ==
  ASSUME CampaignInv, NEW c \in Client, Ends(c), UNCHANGED <<runs, finding, campaign, quietHalt>>
  PROVE  CampaignInv'
<1>1. /\ RunsOK(runs') /\ Later(runs, runs') /\ finding' \in [RunId -> Finding] /\ PhasesInOrder'
      /\ RecordOK(campaign', runs') /\ CallOK(Idle, runs')
  BY NothingYet DEF CampaignInv, Later, PhasesInOrder
<1>2. call' = [call EXCEPT ![c] = Idle]
  BY DEF Ends
<1>3. Idle.pc = "idle" /\ Idle.op = "none" /\ VersionOK(Idle.copy, campaign)
  <2>1. campaign.version \in Nat /\ (campaign.version = 0 => campaign.trail = {})
    BY DEF CampaignInv, VersionsOK, RecordOK, IsRecord
  <2> QED BY <2>1, NothingYet DEF VersionOK
<1>4. VersionsOK'
  BY <1>2, <1>3, VersionsMove
<1>5. quietHalt => QuietCall(Idle)
  BY <1>3 DEF QuietCall
<1>6. QuietOK'
  BY <1>2, <1>5, QuietMoves DEF CampaignInv, QuietOK
<1> QED BY <1>1, <1>2, <1>4, <1>6, CampaignMoves

\* The runs change under no call, or all calls are lost.
LEMMA RunMoves ==
  ASSUME CampaignInv, UNCHANGED <<campaign, call>>,
         RunsOK(runs'), Later(runs, runs'), finding' \in [RunId -> Finding], PhasesInOrder',
         quietHalt' => quietHalt /\ AllTerminal(runs')
  PROVE  CampaignInv'
<1>1. \A d \in Client : CallOK(call[d], runs')
  BY LaterKeeps DEF CampaignInv
<1>2. RecordOK(campaign, runs')
  BY LaterKeeps DEF CampaignInv
<1>3. VersionsOK' /\ QuietOK'
  BY DEF CampaignInv, VersionsOK, QuietOK
<1> QED BY <1>1, <1>2, <1>3 DEF CampaignInv

-----------------------------------------------------------------------------
(* The calls that an operation starts with                                  *)
LEMMA FirstCalls ==
  ASSUME NEW op, NEW auto
  PROVE  /\ LET k == [[Idle EXCEPT !.pc = "derive", !.copy = campaign, !.todo = Refs] EXCEPT !.op = op]
            IN  /\ IsCall(k) /\ k.pc = "derive" /\ k.op = op /\ k.copy = campaign /\ k.todo = Refs
         /\ LET k == [[Idle EXCEPT !.pc = "propose", !.todo = Refs, !.auto = auto] EXCEPT !.op = op]
            IN  /\ IsCall(k) /\ k.pc = "propose" /\ k.op = op /\ k.copy = NoCampaign /\ k.todo = Refs
<1> DEFINE j == [Idle EXCEPT !.pc = "derive", !.copy = campaign, !.todo = Refs]
           m == [Idle EXCEPT !.pc = "propose", !.todo = Refs, !.auto = auto]
<1>1. IsCall(Idle) /\ Idle.copy = NoCampaign
  BY DEF Idle, IsCall, CallFields
<1>2. IsCall(j) /\ j.pc = "derive" /\ j.copy = campaign /\ j.todo = Refs
  BY <1>1 DEF IsCall, CallFields
<1>3. IsCall(m) /\ m.pc = "propose" /\ m.copy = NoCampaign /\ m.todo = Refs
  BY <1>1 DEF IsCall, CallFields
<1> HIDE DEF j, m
<1>4. LET k == [j EXCEPT !.op = op]
      IN  IsCall(k) /\ k.pc = "derive" /\ k.op = op /\ k.copy = campaign /\ k.todo = Refs
  BY <1>2 DEF IsCall, CallFields
<1>5. LET k == [m EXCEPT !.op = op]
      IN  IsCall(k) /\ k.pc = "propose" /\ k.op = op /\ k.copy = NoCampaign /\ k.todo = Refs
  BY <1>3 DEF IsCall, CallFields
<1> QED BY <1>4, <1>5 DEF j, m

-----------------------------------------------------------------------------
(* The steps of plan_campaign                                               *)
LEMMA BeginKeeps ==
  ASSUME CampaignInv, NEW c \in Client, NEW op \in {"advance", "halt", "verify"}, Begin(c, op)
  PROVE  CampaignInv'
<1> DEFINE next == [[Idle EXCEPT !.pc = "derive", !.copy = campaign, !.todo = Refs] EXCEPT !.op = op]
<1>1. /\ call' = [call EXCEPT ![c] = next] /\ campaign.version > 0
      /\ UNCHANGED <<runs, finding, campaign, quietHalt>>
  BY DEF Begin, Starts, KeepRuns, KeepRecord
<1>2. /\ IsCall(next) /\ next.pc = "derive" /\ next.op = op /\ next.copy = campaign
      /\ next.todo = Refs
  BY FirstCalls
<1> HIDE DEF next
<1>3. /\ RunsOK(runs') /\ Later(runs, runs') /\ finding' \in [RunId -> Finding] /\ PhasesInOrder'
      /\ RecordOK(campaign', runs')
  BY <1>1 DEF CampaignInv, Later, PhasesInOrder
<1>4. CallOK(next, runs')
  BY <1>1, <1>2, <1>3, PhaseFacts DEF CallOK
<1>5. VersionOK(campaign, campaign)
  BY DEF CampaignInv, RecordOK, IsRecord, VersionOK
<1>6. VersionsOK'
  BY <1>1, <1>2, <1>5, VersionsMove
<1>7. QuietCall(next)
  BY <1>2 DEF QuietCall
<1>8. QuietOK'
  BY <1>1, <1>7, QuietMoves DEF CampaignInv, QuietOK
<1> QED BY <1>1, <1>3, <1>4, <1>6, <1>8, CampaignMoves

LEMMA PlanBeginKeeps ==
  ASSUME CampaignInv, NEW c \in Client, NEW op \in {"plan", "trigger"}, NEW auto \in BOOLEAN,
         PlanBegin(c, op, auto)
  PROVE  CampaignInv'
<1> DEFINE next == [[Idle EXCEPT !.pc = "propose", !.todo = Refs, !.auto = auto] EXCEPT !.op = op]
<1>1. /\ call' = [call EXCEPT ![c] = next] /\ campaign.version = 0
      /\ \A d \in Client : call[d].op \notin {"plan", "trigger"}
      /\ UNCHANGED <<runs, finding, campaign, quietHalt>>
  BY DEF PlanBegin, Starts, KeepRuns, KeepRecord
<1>2. /\ IsCall(next) /\ next.pc = "propose" /\ next.op = op /\ next.copy = NoCampaign
      /\ next.todo = Refs
  BY FirstCalls
<1> HIDE DEF next
<1>3. /\ RunsOK(runs') /\ Later(runs, runs') /\ finding' \in [RunId -> Finding] /\ PhasesInOrder'
      /\ RecordOK(campaign', runs')
  BY <1>1 DEF CampaignInv, Later, PhasesInOrder
<1>4. CallOK(next, runs')
  BY <1>2, PhaseFacts, NothingYet DEF CallOK
<1>5. ~ quietHalt'
  BY <1>1 DEF CampaignInv, QuietOK
<1>6. VersionsOK'
  <2>1. call'[c] = next /\ \A d \in Client : d = c \/ call'[d] = call[d]
    BY <1>1, CallIs
  <2>2. VersionsOK /\ campaign.trail = {}
    BY <1>1 DEF CampaignInv, VersionsOK
  <2>5. VersionOK(next.copy, campaign)
    BY <1>1, <1>2, <2>2, NothingYet DEF VersionOK
  <2>3. \A d \in Client : call'[d].pc = "propose" => d = c
    BY <1>1, <2>1, <2>2 DEF VersionsOK
  <2>4. ASSUME NEW d \in Client
        PROVE  /\ VersionOK(call'[d].copy, campaign')
               /\ call'[d].pc \notin {"idle", "propose"} => call'[d].copy.version > 0
               /\ call'[d].pc = "propose" => campaign'.version = 0 /\ call'[d].op \in {"plan", "trigger"}
    BY <1>1, <1>2, <2>1, <2>2, <2>5 DEF VersionsOK
  <2> QED BY <1>1, <2>2, <2>3, <2>4 DEF VersionsOK
<1>7. QuietOK'
  BY <1>5 DEF QuietOK
<1> QED BY <1>1, <1>3, <1>4, <1>6, <1>7, CampaignMoves

LEMMA PlanProposesKeeps ==
  ASSUME CampaignInv, NEW c \in Client, NEW f \in Finding, PlanProposes(c, f)
  PROVE  CampaignInv'
<1> DEFINE k == call[c]
           next == [k EXCEPT !.todo = Tail(k.todo)]
<1>1. /\ call' = [call EXCEPT ![c] = next] /\ k.pc = "propose" /\ k.todo # <<>>
      /\ Life!Propose(Head(k.todo), f) /\ UNCHANGED <<campaign, quietHalt>>
  BY DEF PlanProposes, At, Next1, KeepRecord
<1>2. CallOK(k, runs) /\ VersionsOK
  BY DEF CampaignInv
<1>3. ~ quietHalt /\ k.op \in {"plan", "trigger"} /\ VersionOK(k.copy, campaign)
  BY <1>1, <1>2 DEF CampaignInv, VersionsOK, QuietOK
<1>4. /\ RunsOK(runs') /\ Later(runs, runs') /\ finding' \in [RunId -> Finding]
      /\ \A q \in RunId : runs'[q].results = runs[q].results
  BY <1>1, LifeProposes DEF CampaignInv
<1>5. PhasesInOrder' /\ RecordOK(campaign', runs') /\ CallOK(k, runs')
  BY <1>1, <1>2, <1>4, ResultsStay, LaterKeeps DEF CampaignInv
<1>6. k.todo \in Seq(RunId) /\ Tail(k.todo) \in Seq(RunId)
  BY <1>1, <1>2, HeadTailProperties DEF CallOK
<1>7. /\ IsCall(next) /\ next.pc = k.pc /\ next.op = k.op /\ next.copy = k.copy
      /\ next.todo = Tail(k.todo)
  BY <1>2 DEF CallOK, IsCall, CallFields
<1> HIDE DEF next
<1>8. CallOK(next, runs')
  BY <1>1, <1>5, <1>6, <1>7 DEF CallOK
<1>9. VersionsOK'
  BY <1>1, <1>3, <1>7, VersionsMove
<1>10. QuietOK'
  BY <1>1, <1>3 DEF QuietOK
<1> QED BY <1>1, <1>4, <1>5, <1>8, <1>9, <1>10, CampaignMoves

LEMMA PlanStoresKeeps ==
  ASSUME CampaignInv, NEW c \in Client, PlanStores(c)
  PROVE  CampaignInv'
<1> DEFINE k == call[c]
           created == [Derived(NoCampaign) EXCEPT !.version = 1]
           next == [k EXCEPT !.copy = created, !.pc = "planned"]
<1>1. /\ call' = [call EXCEPT ![c] = next] /\ k.pc = "propose" /\ campaign' = created
      /\ UNCHANGED <<runs, finding, quietHalt>>
  BY DEF PlanStores, At, KeepRuns
<1>2. CallOK(k, runs) /\ VersionsOK
  BY DEF CampaignInv
<1>3. RecordOK(Derived(NoCampaign), runs) /\ Derived(NoCampaign).trail = {}
  BY NothingYet, DerivedOK
<1>4. RecordOK(created, runs) /\ created.version = 1 /\ created.trail = {}
  BY <1>3 DEF RecordOK, IsRecord, RecordFields, Honest
<1> HIDE DEF created
<1>5. IsCall(next) /\ next.pc = "planned" /\ next.copy = created
  BY <1>2 DEF CallOK, IsCall, CallFields
<1> HIDE DEF next
<1>6. /\ RunsOK(runs') /\ Later(runs, runs') /\ finding' \in [RunId -> Finding] /\ PhasesInOrder'
      /\ RecordOK(campaign', runs') /\ CallOK(next, runs')
  BY <1>1, <1>4, <1>5 DEF CampaignInv, Later, PhasesInOrder, CallOK
<1>7. ~ quietHalt /\ campaign.version = 0 /\ \A d \in Client : call[d].pc = "propose" => d = c
  BY <1>1, <1>2 DEF CampaignInv, VersionsOK, QuietOK
<1>8. VersionsOK'
  <2>1. call'[c] = next /\ \A d \in Client : d = c \/ call'[d] = call[d]
    BY <1>1, CallIs
  <2>2. ASSUME NEW d \in Client
        PROVE  /\ VersionOK(call'[d].copy, campaign') /\ call'[d].pc # "propose"
               /\ call'[d].pc \notin {"idle", "propose"} => call'[d].copy.version > 0
    <3>1. CASE d = c
      BY <1>1, <1>4, <1>5, <2>1, <3>1 DEF VersionOK
    <3>2. CASE d # c
      <4>1. call'[d] = call[d] /\ call[d].pc # "propose" /\ call[d].copy.version \in Nat
        BY <1>7, <2>1, <3>2 DEF CampaignInv, CallOK, RecordOK, IsRecord
      <4>2. VersionOK(call[d].copy, campaign) /\
            (call[d].pc \notin {"idle", "propose"} => call[d].copy.version > 0)
        BY <1>2 DEF VersionsOK
      <4> QED BY <1>1, <1>4, <1>7, <4>1, <4>2 DEF VersionOK
    <3> QED BY <3>1, <3>2
  <2> QED BY <1>1, <1>4, <2>2 DEF VersionsOK
<1>9. QuietOK'
  BY <1>1, <1>7 DEF QuietOK
<1> QED BY <1>1, <1>6, <1>8, <1>9, CampaignMoves

-----------------------------------------------------------------------------
(* The steps that store a copy                                              *)
LEMMA UpsertedOK ==
  ASSUME CampaignInv, NEW c \in Client, NEW kind,
         \/ campaign' = [call[c].copy EXCEPT !.version = campaign.version + 1]
         \/ Upsert(call[c].copy, kind)
  PROVE  RecordOK(campaign', runs) /\ campaign'.version = campaign.version + 1
<1> DEFINE copy == call[c].copy
           version == campaign.version + 1
           trail == copy.trail \cup {kind}
<1>1. RecordOK(copy, runs) /\ version \in Nat
  BY DEF CampaignInv, CallOK, RecordOK, IsRecord
<1>2. \/ campaign' = [copy EXCEPT !.version = version]
      \/ campaign' = [copy EXCEPT !.trail = trail, !.version = version]
  BY DEF Upsert
<1> HIDE DEF copy, version, trail
<1>3. /\ campaign' = [x \in RecordFields |-> campaign'[x]] /\ campaign'.version = version
      /\ campaign'.status = copy.status /\ campaign'.mirror = copy.mirror
      /\ campaign'.phase = copy.phase
  <2>1. copy = [x \in RecordFields |-> copy[x]]
    BY <1>1 DEF RecordOK, IsRecord
  <2> QED BY <1>2, <2>1 DEF RecordFields
<1>4. RecordOK(campaign', runs)
  BY <1>1, <1>3 DEF RecordOK, IsRecord, Honest
<1> QED BY <1>3, <1>4 DEF version

LEMMA UpsertMoves ==
  ASSUME CampaignInv, NEW c \in Client, NEW next, call' = [call EXCEPT ![c] = next],
         UNCHANGED <<runs, finding>>, call[c].pc \notin {"idle", "propose"}, Fresh(call[c].copy),
         RecordOK(campaign', runs), campaign'.version = campaign.version + 1,
         CallOK(next, runs), next.pc # "propose",
         \/ next.copy = campaign' \/ next.copy = call[c].copy
         \/ next.pc = "idle" /\ next.copy = NoCampaign,
         quietHalt' => /\ AllTerminal(runs) /\ QuietCall(next)
                       /\ \A d \in Client : d # c => QuietCall(call[d])
  PROVE  CampaignInv'
<1>1. /\ RunsOK(runs') /\ Later(runs, runs') /\ finding' \in [RunId -> Finding] /\ PhasesInOrder'
      /\ RecordOK(campaign', runs') /\ CallOK(next, runs')
  BY DEF CampaignInv, Later, PhasesInOrder
<1>2. call'[c] = next /\ \A d \in Client : d = c \/ call'[d] = call[d]
  BY CallIs
<1>3. /\ VersionsOK /\ campaign.version \in Nat /\ campaign.version > 0
      /\ call[c].copy.version = campaign.version
  BY DEF CampaignInv, VersionsOK, Fresh, RecordOK, IsRecord
<1>4. VersionsOK'
  <2>1. VersionOK(next.copy, campaign') /\ (next.pc # "idle" => next.copy.version > 0)
    <3>1. CASE next.copy = campaign'
      BY <1>3, <3>1 DEF VersionOK
    <3>2. CASE next.copy = call[c].copy
      BY <1>3, <3>2 DEF VersionOK
    <3>3. CASE next.pc = "idle" /\ next.copy = NoCampaign
      BY <1>3, <3>3, NothingYet DEF VersionOK
    <3> QED BY <3>1, <3>2, <3>3
  <2>2. ASSUME NEW d \in Client, d # c
        PROVE  /\ VersionOK(call'[d].copy, campaign') /\ call'[d].pc # "propose"
               /\ call'[d].pc \notin {"idle", "propose"} => call'[d].copy.version > 0
    <3>1. call'[d] = call[d] /\ call[d].copy.version \in Nat
      BY <1>2, <2>2 DEF CampaignInv, CallOK, RecordOK, IsRecord
    <3>2. /\ VersionOK(call[d].copy, campaign) /\ call[d].pc # "propose"
          /\ call[d].pc \notin {"idle", "propose"} => call[d].copy.version > 0
      BY <1>3 DEF VersionsOK
    <3> QED BY <1>3, <3>1, <3>2 DEF VersionOK
  <2> QED BY <1>2, <1>3, <2>1, <2>2 DEF VersionsOK
<1>5. QuietOK'
  <2>1. \A d \in Client : d # c => call'[d] = call[d]
    BY <1>2
  <2> QED BY <1>2, <1>3, <2>1 DEF QuietOK, AllTerminal
<1> QED BY <1>1, <1>4, <1>5, CampaignMoves

LEMMA PlanStoredKeeps ==
  ASSUME CampaignInv, NEW c \in Client, PlanEvidenced(c) \/ TriggerFired(c) \/ Routed(c)
  PROVE  CampaignInv'
<1> DEFINE k == call[c]
<1>1. /\ k.pc \in {"planned", "fired", "routed"} /\ Fresh(k.copy)
      /\ \E kind : Upsert(k.copy, kind)
      /\ UNCHANGED <<runs, finding, quietHalt>>
  BY DEF PlanEvidenced, TriggerFired, Routed, At, KeepRuns
<1>2. CallOK(k, runs) /\ VersionsOK /\ campaign.version \in Nat
  BY DEF CampaignInv, RecordOK, IsRecord
<1>3. ~ quietHalt'
  BY <1>1 DEF CampaignInv, QuietOK, QuietCall
<1>4. RecordOK(campaign', runs) /\ campaign'.version = campaign.version + 1
  BY <1>1, UpsertedOK
<1>5. ASSUME NEW pc \in {"fired", "start", "route"}, NEW next,
             next = [k EXCEPT !.pc = pc, !.copy = campaign']
      PROVE  CallOK(next, runs) /\ next.pc # "propose" /\ next.copy = campaign'
  <2>1. IsCall(next) /\ next.pc = pc /\ next.copy = campaign'
    BY <1>2, <1>5 DEF CallOK, IsCall, CallFields
  <2> QED BY <1>4, <2>1 DEF CallOK
<1>6. CallOK(Idle, runs) /\ Idle.pc = "idle" /\ Idle.copy = NoCampaign
  BY NothingYet
<1>7. CASE PlanEvidenced(c)
  <2> DEFINE next == IF k.op = "plan" THEN Idle ELSE [k EXCEPT !.pc = "fired", !.copy = campaign']
  <2>1. call' = [call EXCEPT ![c] = next]
    BY <1>7 DEF PlanEvidenced
  <2>2. /\ CallOK(next, runs) /\ next.pc # "propose"
        /\ next.copy = campaign' \/ (next.pc = "idle" /\ next.copy = NoCampaign)
    BY <1>5, <1>6
  <2> HIDE DEF next
  <2> QED BY <1>1, <1>3, <1>4, <2>1, <2>2, UpsertMoves
<1>8. CASE TriggerFired(c)
  <2> DEFINE pc == IF call[c].auto THEN "start" ELSE "route"
             next == [k EXCEPT !.copy = campaign', !.pc = pc]
  <2>1. call' = [call EXCEPT ![c] = next]
    BY <1>8 DEF TriggerFired
  <2>2. IsCall(next) /\ next.pc = pc /\ next.copy = campaign'
    BY <1>2 DEF CallOK, IsCall, CallFields
  <2> HIDE DEF next
  <2>3. CallOK(next, runs) /\ next.pc # "propose"
    BY <1>4, <2>2 DEF CallOK
  <2> QED BY <1>1, <1>3, <1>4, <2>1, <2>2, <2>3, UpsertMoves
<1>9. CASE Routed(c)
  <2>1. call' = [call EXCEPT ![c] = Idle]
    BY <1>9 DEF Routed, Ends
  <2>2. Idle.pc # "propose"
    BY <1>6
  <2> QED BY <1>1, <1>3, <1>4, <1>6, <2>1, <2>2, UpsertMoves
<1> QED BY <1>7, <1>8, <1>9

LEMMA StoresKeeps ==
  ASSUME CampaignInv, NEW c \in Client, Stores(c)
  PROVE  CampaignInv'
<1> DEFINE k == call[c]
           blocked == k.op = "blocked" /\ k.auto
           next == IF blocked THEN [k EXCEPT !.pc = "route"] ELSE Idle
<1>1. /\ k.pc = "store" /\ Fresh(k.copy) /\ call' = [call EXCEPT ![c] = next]
      /\ \/ campaign' = [k.copy EXCEPT !.version = campaign.version + 1]
         \/ \E kind : Upsert(k.copy, kind)
      /\ UNCHANGED <<runs, finding>>
      /\ quietHalt' => \/ quietHalt
                       \/ /\ k.op = "halt" /\ \A d \in Client \ {c} : At(d, "idle")
                          /\ AllTerminal(runs)
  BY DEF Stores, At, KeepRuns, AllTerminal
<1>2. CallOK(k, runs) /\ VersionsOK /\ campaign.version \in Nat
  BY DEF CampaignInv, RecordOK, IsRecord
<1>3. RecordOK(campaign', runs) /\ campaign'.version = campaign.version + 1
  BY <1>1, UpsertedOK
<1>4. CallOK(Idle, runs) /\ Idle.pc = "idle" /\ Idle.op = "none" /\ Idle.copy = NoCampaign
  BY NothingYet
<1>5. /\ CallOK(next, runs) /\ next.pc # "propose"
      /\ next.copy = k.copy \/ (next.pc = "idle" /\ next.copy = NoCampaign)
  <2>1. CASE blocked
    <3> DEFINE routing == [k EXCEPT !.pc = "route"]
    <3>1. IsCall(routing) /\ routing.pc = "route" /\ routing.copy = k.copy
      BY <1>2 DEF CallOK, IsCall, CallFields
    <3> HIDE DEF routing
    <3>2. CallOK(routing, runs)
      BY <1>2, <3>1 DEF CallOK
    <3> QED BY <2>1, <3>1, <3>2 DEF routing
  <2>2. CASE ~ blocked
    BY <1>4, <2>2
  <2> QED BY <2>1, <2>2
<1>6. ASSUME quietHalt'
      PROVE  /\ AllTerminal(runs) /\ QuietCall(next)
             /\ \A d \in Client : d # c => QuietCall(call[d])
  <2>1. QuietCall(Idle)
    BY <1>4 DEF QuietCall
  <2>2. CASE quietHalt
    <3>1. AllTerminal(runs) /\ \A d \in Client : QuietCall(call[d])
      BY <2>2 DEF CampaignInv, QuietOK
    <3>2. ~ blocked
      BY <3>1 DEF QuietCall
    <3> QED BY <2>1, <3>1, <3>2
  <2>3. CASE /\ k.op = "halt" /\ \A d \in Client \ {c} : At(d, "idle")
             /\ AllTerminal(runs)
    <3>1. \A d \in Client : d # c => call[d].pc = "idle" /\ call[d].op = "none"
      BY <2>3 DEF CampaignInv, CallOK, At
    <3>2. ~ blocked
      BY <2>3
    <3> QED BY <2>1, <2>3, <3>1, <3>2 DEF QuietCall
  <2> QED BY <1>1, <1>6, <2>2, <2>3
<1> HIDE DEF next
<1> QED BY <1>1, <1>3, <1>5, <1>6, UpsertMoves

-----------------------------------------------------------------------------
(* The steps of advance, halt_campaign and verify_recovery that read        *)
LEMMA TriggerAdvancesKeeps ==
  ASSUME CampaignInv, NEW c \in Client, TriggerAdvances(c) \/ Route(c)
  PROVE  CampaignInv'
<1> DEFINE k == call[c]
           advancing == [k EXCEPT !.pc = "derive", !.todo = Refs]
           routed == [k EXCEPT !.pc = "routed"]
<1>1. /\ \/ call' = [call EXCEPT ![c] = advancing]
         \/ call' = [call EXCEPT ![c] = routed]
      /\ k.pc \in {"start", "route"} /\ UNCHANGED <<runs, finding, campaign, quietHalt>>
  BY DEF TriggerAdvances, Route, Goto, At, KeepRuns, KeepRecord
<1>2. CallOK(k, runs) /\ ~ quietHalt
  BY <1>1 DEF CampaignInv, QuietOK, QuietCall
<1>3. /\ IsCall(advancing) /\ advancing.pc = "derive" /\ advancing.todo = Refs /\ advancing.copy = k.copy
      /\ IsCall(routed) /\ routed.pc = "routed" /\ routed.copy = k.copy
  BY <1>2 DEF CallOK, IsCall, CallFields
<1> HIDE DEF advancing, routed
<1>4. CallOK(advancing, runs) /\ CallOK(routed, runs)
  BY <1>2, <1>3, PhaseFacts DEF CallOK
<1>5. CASE call' = [call EXCEPT ![c] = advancing]
  BY <1>1, <1>2, <1>3, <1>4, <1>5, CallWorks
<1>6. CASE call' = [call EXCEPT ![c] = routed]
  BY <1>1, <1>2, <1>3, <1>4, <1>6, CallWorks
<1> QED BY <1>1, <1>5, <1>6

\* What is in a sequence and not its head is in its tail.
LEMMA TailKeepsRest ==
  ASSUME NEW S, NEW q \in Seq(S), q # <<>>
  PROVE  \A x \in ToSet(q) : x = Head(q) \/ x \in ToSet(Tail(q))
<1> SUFFICES ASSUME NEW x \in ToSet(q), x # Head(q) PROVE x \in ToSet(Tail(q))
  OBVIOUS
<1>1. PICK i \in 1 .. Len(q) : q[i] = x
  BY LenProperties DEF ToSet
<1>2. /\ Tail(q) \in Seq(S) /\ Len(Tail(q)) = Len(q) - 1 /\ Len(q) \in Nat /\ Head(q) = q[1]
      /\ \A j \in 1 .. Len(Tail(q)) : Tail(q)[j] = q[j + 1]
  BY HeadTailProperties, LenProperties
<1>3. i - 1 \in 1 .. Len(Tail(q)) /\ (i - 1) + 1 = i
  BY <1>1, <1>2
<1>4. Tail(q)[i - 1] = x
  BY <1>1, <1>2, <1>3
<1> QED BY <1>2, <1>3, <1>4, LenProperties DEF ToSet

LEMMA RefreshKeeps ==
  ASSUME CampaignInv, NEW c \in Client, Refresh(c)
  PROVE  CampaignInv'
<1> DEFINE k == call[c]
           r == Head(k.todo)
           copy == Mirrored(k.copy, r, runs[r].status)
           next == [k EXCEPT !.copy = copy, !.todo = Tail(k.todo)]
<1>1. /\ call' = [call EXCEPT ![c] = next] /\ k.pc = "derive" /\ k.todo # <<>>
      /\ UNCHANGED <<runs, finding, campaign, quietHalt>>
  BY DEF Refresh, At, Next1, KeepRuns, KeepRecord
<1>2. CallOK(k, runs) /\ RunsOK(runs)
  BY DEF CampaignInv
<1>3. /\ k.todo \in Seq(RunId) /\ r \in RunId /\ Tail(k.todo) \in Seq(RunId)
      /\ \A q \in ToSet(k.todo) : q = r \/ q \in ToSet(Tail(k.todo))
  <2>1. k.todo \in Seq(RunId)
    BY <1>1, <1>2 DEF CallOK
  <2>2. r \in RunId /\ Tail(k.todo) \in Seq(RunId)
    BY <1>1, <2>1, HeadTailProperties
  <2>3. \A q \in ToSet(k.todo) : q = r \/ q \in ToSet(Tail(k.todo))
    BY <1>1, <2>1, TailKeepsRest
  <2> QED BY <2>1, <2>2, <2>3
<1>4. runs[r].status \in RunStatus /\ (runs[r].status = "completed" => AllSucceeded(runs[r].results))
  BY <1>2, <1>3 DEF RunsOK, Run
<1>5. /\ RecordOK(copy, runs) /\ copy.version = k.copy.version /\ copy.trail = k.copy.trail
      /\ \A q \in RunId : copy.mirror[q] = IF q = r THEN runs[r].status ELSE k.copy.mirror[q]
  <2>1. RecordOK(k.copy, runs)
    BY <1>2 DEF CallOK
  <2> QED BY <1>3, <1>4, <2>1, MirroredOK
<1> HIDE DEF copy
<1>6. /\ IsCall(next) /\ next.pc = "derive" /\ next.op = k.op /\ next.copy = copy
      /\ next.todo = Tail(k.todo)
  BY <1>1, <1>2 DEF CallOK, IsCall, CallFields
<1> HIDE DEF next
<1>7. CallOK(next, runs)
  BY <1>3, <1>5, <1>6 DEF CallOK
<1>8. ASSUME quietHalt PROVE QuietCall(next)
  <2>1. QuietCall(k) /\ AllTerminal(runs)
    BY <1>8 DEF CampaignInv, QuietOK
  <2>2. ASSUME NEW q \in ToSet(Refs) PROVE q \in ToSet(Tail(k.todo)) \/ copy.mirror[q] \in Terminal
    <3>1. q \in RunId /\ (q \in ToSet(k.todo) \/ k.copy.mirror[q] \in Terminal)
      BY <1>1, <2>1, PhaseFacts DEF QuietCall
    <3>2. runs[q].status \in Terminal
      BY <2>1 DEF AllTerminal
    <3> QED BY <1>3, <1>5, <3>1, <3>2
  <2> QED BY <1>1, <1>6, <2>1, <2>2 DEF QuietCall
<1> QED BY <1>1, <1>5, <1>6, <1>7, <1>8, CallWorks

LEMMA AdvanceSelectsKeeps ==
  ASSUME CampaignInv, NEW c \in Client, AdvanceSelects(c)
  PROVE  CampaignInv'
<1> DEFINE k == call[c]
           current == Derived(k.copy)
<1>1. /\ k.pc = "derive" /\ k.todo = <<>>
      /\ \/ NextPhases(current) = {} /\ Ends(c)
         \/ \E p \in NextPhases(current) :
              call' = [call EXCEPT ![c] = [k EXCEPT !.copy = current, !.phase = p,
                                                    !.pc = "execute", !.todo = RefsOf(p)]]
      /\ UNCHANGED <<runs, finding, campaign, quietHalt>>
  BY DEF AdvanceSelects, At, KeepRuns, KeepRecord
<1>2. CallOK(k, runs) /\ RunsOK(runs) /\ PhasesInOrder
  BY DEF CampaignInv
<1>3. /\ RecordOK(current, runs) /\ current.version = k.copy.version /\ current.trail = k.copy.trail
      /\ (\A r \in ToSet(Refs) : k.copy.mirror[r] \in Terminal) => NextPhases(current) = {}
  <2>1. RecordOK(k.copy, runs)
    BY <1>2 DEF CallOK
  <2> QED BY <2>1, DerivedOK
<1>4. CASE Ends(c)
  BY <1>1, <1>4, CallEnds
<1>5. ASSUME NEW p \in NextPhases(current),
             call' = [call EXCEPT ![c] = [k EXCEPT !.copy = current, !.phase = p,
                                                   !.pc = "execute", !.todo = RefsOf(p)]]
      PROVE  CampaignInv'
  <2> DEFINE next == [k EXCEPT !.copy = current, !.phase = p, !.pc = "execute", !.todo = RefsOf(p)]
  <2> HIDE DEF current
  <2>1. /\ IsCall(next) /\ next.pc = "execute" /\ next.copy = current /\ next.phase = p
        /\ next.todo = RefsOf(p)
    BY <1>2 DEF CallOK, IsCall, CallFields
  <2>2. p \in Phase /\ Ready(current, p)
    BY DEF NextPhases
  <2>3. p > 1 => Over(p - 1, runs)
    <3>1. ASSUME p > 1 PROVE p - 1 \in Phase /\ current.phase[p - 1] = "completed"
      BY <2>2, <3>1, PhaseFacts DEF Ready
    <3> QED BY <1>3, <3>1 DEF RecordOK, Honest
  <2>4. \A q \in Phase : q < p => Over(q, runs)
    BY <1>2, <2>2, <2>3, EarlierOver
  <2>5. RefsOf(p) \in Seq(ToSet(RefsOf(p)))
    BY <2>2, PhaseFacts
  <2>6. ~ quietHalt
    <3>1. SUFFICES ASSUME quietHalt PROVE FALSE
      OBVIOUS
    <3>2. \A r \in ToSet(Refs) : r \in ToSet(k.todo) \/ k.copy.mirror[r] \in Terminal
      BY <1>1, <3>1 DEF CampaignInv, QuietOK, QuietCall
    <3>3. ToSet(k.todo) = {}
      <4>1. <<>> \in Seq(RunId) /\ Len(<<>>) = 0
        BY EmptySeq
      <4>2. DOMAIN k.todo = 1 .. 0
        BY <1>1, <4>1, LenProperties
      <4> QED BY <4>2 DEF ToSet
    <3> QED BY <1>3, <3>2, <3>3
  <2> HIDE DEF next
  <2>7. CallOK(next, runs)
    BY <1>3, <2>1, <2>2, <2>4, <2>5 DEF CallOK
  <2> QED BY <1>1, <1>3, <1>5, <2>1, <2>6, <2>7, CallWorks DEF next
<1> QED BY <1>1, <1>4, <1>5

LEMMA PhaseEditOK ==
  ASSUME NEW store, NEW k, RecordOK(k, store), NEW p \in Phase, NEW status \in PhaseStatuses,
         status = "completed" => Over(p, store)
  PROVE  LET phases == [k.phase EXCEPT ![p] = status]
         IN  /\ phases \in [Phase -> PhaseStatuses]
             /\ \A q \in Phase : phases[q] = "completed" => Over(q, store)
BY DEF RecordOK, IsRecord, Honest

\* A step of advance, halt_campaign or verify_recovery that edits the copy and goes on to store it
LEMMA CopyEdited ==
  ASSUME CampaignInv, NEW c \in Client, NEW next, call' = [call EXCEPT ![c] = next],
         UNCHANGED <<runs, finding, campaign, quietHalt>>,
         call[c].pc \notin {"idle", "propose"}, next.pc \in {"store", "reopen", "halt"},
         IsCall(next), RecordOK(next.copy, runs),
         next.copy.version = call[c].copy.version, next.copy.trail = call[c].copy.trail,
         next.op = call[c].op \/ call[c].pc = "execute"
  PROVE  CampaignInv'
<1>1. CallOK(next, runs)
  BY DEF CallOK
<1>2. quietHalt => QuietCall(next)
  BY DEF CampaignInv, QuietOK, QuietCall
<1> QED BY <1>1, <1>2, CallWorks

LEMMA HaltSelectsKeeps ==
  ASSUME CampaignInv, NEW c \in Client, HaltSelects(c) \/ \E v \in BOOLEAN : VerifyAssesses(c, v)
  PROVE  CampaignInv'
<1> DEFINE k == call[c]
           copy == Derived(k.copy)
           todo == SelectSeq(Refs, LAMBDA r : call[c].copy.mirror[r] \notin Terminal)
           halting == [k EXCEPT !.copy = copy, !.pc = "halt", !.rv = 0, !.todo = todo]
<1>1. CallOK(k, runs)
  BY DEF CampaignInv
<1>2. RecordOK(copy, runs) /\ copy.version = k.copy.version /\ copy.trail = k.copy.trail
  <2>1. RecordOK(k.copy, runs)
    BY <1>1 DEF CallOK
  <2> QED BY <2>1, DerivedOK
<1>3. CASE HaltSelects(c)
  <2>1. call' = [call EXCEPT ![c] = halting] /\ k.pc = "derive" /\ UNCHANGED <<runs, finding, campaign, quietHalt>>
    BY <1>3 DEF HaltSelects, At, KeepRuns, KeepRecord
  <2> HIDE DEF copy, todo
  <2>2. IsCall(halting) /\ halting.pc = "halt" /\ halting.op = k.op /\ halting.copy = copy
    BY <1>1 DEF CallOK, IsCall, CallFields
  <2> HIDE DEF halting
  <2> QED BY <1>2, <2>1, <2>2, CopyEdited
<1>4. ASSUME NEW v \in BOOLEAN, VerifyAssesses(c, v) PROVE CampaignInv'
  <2> DEFINE pc == IF v THEN "store" ELSE "reopen"
             next == [k EXCEPT !.copy = copy, !.pc = pc]
  <2>1. call' = [call EXCEPT ![c] = next] /\ k.pc = "derive" /\ UNCHANGED <<runs, finding, campaign, quietHalt>>
    BY <1>4 DEF VerifyAssesses, At, KeepRuns, KeepRecord
  <2> HIDE DEF copy
  <2>2. IsCall(next) /\ next.pc \in {"store", "reopen"} /\ next.op = k.op /\ next.copy = copy
    BY <1>1 DEF CallOK, IsCall, CallFields
  <2> HIDE DEF next
  <2> QED BY <1>2, <2>1, <2>2, CopyEdited
<1> QED BY <1>3, <1>4

LEMMA HaltReadsKeeps ==
  ASSUME CampaignInv, NEW c \in Client, HaltReads(c)
  PROVE  CampaignInv'
<1> DEFINE k == call[c]
           rv == runs[Next1(c)].version
           next == [k EXCEPT !.rv = rv]
<1>1. call' = [call EXCEPT ![c] = next] /\ k.pc = "halt" /\ UNCHANGED <<runs, finding, campaign, quietHalt>>
  BY DEF HaltReads, At, KeepRuns, KeepRecord
<1>2. CallOK(k, runs)
  BY DEF CampaignInv
<1> HIDE DEF rv
<1>3. IsCall(next) /\ next.pc = k.pc /\ next.op = k.op /\ next.copy = k.copy
  BY <1>2 DEF CallOK, IsCall, CallFields
<1> HIDE DEF next
<1>4. RecordOK(next.copy, runs)
  BY <1>2, <1>3 DEF CallOK
<1> QED BY <1>1, <1>3, <1>4, CopyEdited

LEMMA PhaseDoneKeeps ==
  ASSUME CampaignInv, NEW c \in Client, PhaseDone(c) \/ HaltDone(c)
  PROVE  CampaignInv'
<1> DEFINE k == call[c]
<1>1. CallOK(k, runs) /\ RecordOK(k.copy, runs)
  BY DEF CampaignInv, CallOK
<1>2. ASSUME NEW p \in Phase, PhaseStatus(p, k.copy.mirror) = "completed" PROVE Over(p, runs)
  <2>1. \A r \in ToSet(RefsOf(p)) : k.copy.mirror[r] = "completed" /\ r \in RunId
    BY <1>2, PhaseStatusIs, PhaseFacts
  <2> QED BY <1>1, <2>1 DEF RecordOK, Honest, Over
<1>3. CASE PhaseDone(c)
  <2> DEFINE status == PhaseStatus(k.phase, k.copy.mirror)
             edited == [k.copy.phase EXCEPT ![k.phase] = status]
             phases == DependencyBlocks(edited)
             copy == WithPhases(k.copy, phases)
             next == [k EXCEPT !.pc = "store", !.copy = copy]
  <2>1. call' = [call EXCEPT ![c] = next] /\ k.pc = "execute" /\ UNCHANGED <<runs, finding, campaign, quietHalt>>
    BY <1>3 DEF PhaseDone, At, KeepRuns, KeepRecord
  <2>2. k.phase \in Phase
    BY <1>1, <2>1 DEF CallOK
  <2>3. status \in PhaseStatuses /\ (status = "completed" => Over(k.phase, runs))
    BY <1>2, <2>2, PhaseStatusIs
  <2> HIDE DEF status
  <2>4. edited \in [Phase -> PhaseStatuses] /\ \A q \in Phase : edited[q] = "completed" => Over(q, runs)
    BY <1>1, <2>2, <2>3, PhaseEditOK
  <2> HIDE DEF edited
  <2>5. phases \in [Phase -> PhaseStatuses] /\ \A q \in Phase : phases[q] = "completed" => Over(q, runs)
    BY <2>4, BlocksAre
  <2> HIDE DEF phases
  <2>6. RecordOK(copy, runs) /\ copy.version = k.copy.version /\ copy.trail = k.copy.trail
    BY <1>1, <2>5, WithPhasesOK
  <2> HIDE DEF copy
  <2>7. IsCall(next) /\ next.pc = "store" /\ next.copy = copy
    BY <1>1 DEF CallOK, IsCall, CallFields
  <2> HIDE DEF next
  <2> QED BY <2>1, <2>6, <2>7, CopyEdited
<1>4. CASE HaltDone(c)
  <2> DEFINE phases == [p \in Phase |-> PhaseStatus(p, k.copy.mirror)]
             old == k.copy
             copy == [old EXCEPT !.phase = phases, !.status = "halted"]
             next == [k EXCEPT !.pc = "store", !.copy = copy]
  <2>1. call' = [call EXCEPT ![c] = next] /\ k.pc = "halt" /\ UNCHANGED <<runs, finding, campaign, quietHalt>>
    BY <1>4 DEF HaltDone, At, KeepRuns, KeepRecord
  <2>2. phases \in [Phase -> PhaseStatuses] /\ \A q \in Phase : phases[q] = "completed" => Over(q, runs)
    BY <1>2, PhaseStatusIs
  <2> HIDE DEF phases, old
  <2>3. /\ copy = [x \in RecordFields |-> copy[x]] /\ copy.version = old.version /\ copy.trail = old.trail
        /\ copy.mirror = old.mirror /\ copy.phase = phases /\ copy.status = "halted"
    BY <1>1 DEF old, RecordOK, IsRecord, RecordFields
  <2> HIDE DEF copy
  <2>4. RecordOK(copy, runs)
    BY <1>1, <2>2, <2>3 DEF old, RecordOK, IsRecord, Honest
  <2>5. IsCall(next) /\ next.pc = "store" /\ next.op = k.op /\ next.copy = copy
    BY <1>1 DEF CallOK, IsCall, CallFields
  <2> HIDE DEF next
  <2> QED BY <2>1, <2>3, <2>4, <2>5, CopyEdited DEF old
<1> QED BY <1>3, <1>4

LEMMA ExecuteRefusedKeeps ==
  ASSUME CampaignInv, NEW c \in Client, ExecuteRefused(c)
  PROVE  CampaignInv'
<1> DEFINE k == call[c]
           phases == [k.copy.phase EXCEPT ![k.phase] = "blocked"]
           copy == WithPhases(k.copy, phases)
           next == [k EXCEPT !.pc = "store", !.op = "blocked", !.copy = copy]
<1>1. CallOK(k, runs) /\ RecordOK(k.copy, runs)
  BY DEF CampaignInv, CallOK
<1>2. call' = [call EXCEPT ![c] = next] /\ k.pc = "execute" /\ UNCHANGED <<runs, finding, campaign, quietHalt>>
  BY DEF ExecuteRefused, At, KeepRuns, KeepRecord
<1>3. k.phase \in Phase /\ "blocked" \in PhaseStatuses
  BY <1>1, <1>2 DEF CallOK, PhaseStatuses
<1>4. phases \in [Phase -> PhaseStatuses] /\ \A q \in Phase : phases[q] = "completed" => Over(q, runs)
  BY <1>1, <1>3, PhaseEditOK
<1> HIDE DEF phases
<1>5. RecordOK(copy, runs) /\ copy.version = k.copy.version /\ copy.trail = k.copy.trail
  BY <1>1, <1>4, WithPhasesOK
<1> HIDE DEF copy
<1>6. IsCall(next) /\ next.pc = "store" /\ next.copy = copy
  BY <1>1 DEF CallOK, IsCall, CallFields
<1> HIDE DEF next
<1> QED BY <1>2, <1>5, <1>6, CopyEdited

-----------------------------------------------------------------------------
(* The steps that execute a run                                             *)
LEMMA ReturnedOK ==
  ASSUME NEW store, RunsOK(store), NEW k, CallOK(k, store), k.pc \in {"execute", "act", "complete"},
         k.todo # <<>>, NEW status \in RunStatus,
         status = "completed" => AllSucceeded(store[Head(k.todo)].results)
  PROVE  /\ CallOK(Returned(k, status), store)
         /\ Returned(k, status).pc = "execute"
         /\ Returned(k, status).copy.version = k.copy.version
         /\ Returned(k, status).copy.trail = k.copy.trail
<1> DEFINE r == Head(k.todo)
           copy == Mirrored(k.copy, r, status)
           next == [k EXCEPT !.copy = copy, !.todo = Tail(k.todo), !.pc = "execute"]
<1>1. /\ k.phase \in Phase /\ k.todo \in Seq(ToSet(RefsOf(k.phase)))
      /\ \A q \in Phase : q < k.phase => Over(q, store)
  BY DEF CallOK
<1>2. Tail(k.todo) \in Seq(ToSet(RefsOf(k.phase)))
  BY <1>1, HeadTailProperties
<1>3. RecordOK(copy, store) /\ copy.version = k.copy.version /\ copy.trail = k.copy.trail
  <2>1. RecordOK(k.copy, store)
    BY DEF CallOK
  <2> QED BY <2>1, MirroredOK
<1> HIDE DEF copy
<1>4. /\ IsCall(next) /\ next.pc = "execute" /\ next.copy = copy /\ next.todo = Tail(k.todo)
      /\ next.phase = k.phase
  BY DEF CallOK, IsCall, CallFields
<1>5. Returned(k, status) = next
  BY DEF Returned, copy
<1> HIDE DEF next
<1>6. CallOK(next, store)
  BY <1>1, <1>2, <1>3, <1>4 DEF CallOK
<1> QED BY <1>3, <1>4, <1>5, <1>6

\* What a call that executes a run knows.
LEMMA ExecutingKnows ==
  ASSUME CampaignInv, NEW c \in Client, call[c].pc \in {"execute", "act", "complete"},
         call[c].todo # <<>>
  PROVE  /\ Head(call[c].todo) \in ToSet(RefsOf(call[c].phase)) /\ call[c].phase \in Phase
         /\ Head(call[c].todo) \in RunId /\ ~ quietHalt
         /\ \A q \in Phase : q < call[c].phase => Over(q, runs)
<1>1. /\ call[c].phase \in Phase /\ call[c].todo \in Seq(ToSet(RefsOf(call[c].phase)))
      /\ \A q \in Phase : q < call[c].phase => Over(q, runs)
  BY DEF CampaignInv, CallOK
<1>2. Head(call[c].todo) \in ToSet(RefsOf(call[c].phase))
  BY <1>1, HeadTailProperties
<1>3. ~ quietHalt
  BY DEF CampaignInv, QuietOK, QuietCall
<1> QED BY <1>1, <1>2, <1>3, PhaseFacts

LEMMA ExecuteBeginsKeeps ==
  ASSUME CampaignInv, NEW c \in Client, ExecuteBegins(c)
  PROVE  CampaignInv'
<1> DEFINE k == call[c]
           r == Head(k.todo)
           pc == IF AllSucceeded(runs[r].results) THEN "complete" ELSE "act"
           rv == runs[r].version
           begun == [k EXCEPT !.rv = rv, !.pc = pc]
<1>1. /\ k.pc = "execute" /\ k.todo # <<>> /\ UNCHANGED <<runs, finding, campaign, quietHalt>>
      /\ \/ AllSucceeded(runs[r].results) /\ call' = [call EXCEPT ![c] = Returned(k, "completed")]
         \/ call' = [call EXCEPT ![c] = begun]
  BY DEF ExecuteBegins, Returns, At, Next1, KeepRuns, KeepRecord
<1>2. CallOK(k, runs) /\ RunsOK(runs)
  BY DEF CampaignInv
<1>3. ~ quietHalt
  BY <1>1, ExecutingKnows
<1>4. CASE AllSucceeded(runs[r].results) /\ call' = [call EXCEPT ![c] = Returned(k, "completed")]
  <2>1. /\ CallOK(Returned(k, "completed"), runs) /\ Returned(k, "completed").pc = "execute"
        /\ Returned(k, "completed").copy.version = k.copy.version
        /\ Returned(k, "completed").copy.trail = k.copy.trail
    <3>1. "completed" \in RunStatus
      BY DEF RunStatus
    <3> QED BY <1>1, <1>2, <1>4, <3>1, ReturnedOK
  <2> QED BY <1>1, <1>3, <1>4, <2>1, CallWorks
<1>5. CASE call' = [call EXCEPT ![c] = begun]
  <2> HIDE DEF rv
  <2>1. /\ IsCall(begun) /\ begun.pc = pc /\ begun.copy = k.copy /\ begun.todo = k.todo
        /\ begun.phase = k.phase
    BY <1>2 DEF CallOK, IsCall, CallFields
  <2> HIDE DEF begun
  <2>2. CallOK(begun, runs)
    BY <1>1, <1>2, <2>1 DEF CallOK
  <2> QED BY <1>1, <1>3, <1>5, <2>1, <2>2, CallWorks
<1> QED BY <1>1, <1>4, <1>5

\* A result more for a run of the phase that a call executes: the order of phases holds.
LEMMA ActsInOrder ==
  ASSUME CampaignInv, NEW p \in Phase, NEW r \in ToSet(RefsOf(p)), Later(runs, runs'),
         \A q \in RunId : q # r => runs'[q] = runs[q],
         \A q \in Phase : q < p => Over(q, runs)
  PROVE  PhasesInOrder'
<1> SUFFICES ASSUME NEW i \in Phase, NEW j \in Phase, NEW x \in ToSet(RefsOf(i)),
                    NEW y \in ToSet(RefsOf(j)), i < j, Len(runs'[y].results) > 0
             PROVE  AllSucceeded(runs'[x].results)
  BY DEF PhasesInOrder
<1>1. x \in RunId /\ y \in RunId
  BY PhaseFacts
<1>2. AllSucceeded(runs[x].results)
  <2>1. CASE y = r
    <3>1. j = p
      BY <2>1, PhaseFacts
    <3> QED BY <3>1 DEF Over
  <2>2. CASE y # r
    <3>1. Len(runs[y].results) > 0
      BY <1>1, <2>2
    <3> QED BY <3>1 DEF CampaignInv, PhasesInOrder
  <2> QED BY <2>1, <2>2
<1> QED BY <1>1, <1>2 DEF Later

LEMMA StepEndsKeeps ==
  ASSUME CampaignInv, NEW c \in Client, NEW status \in {"succeeded", "failed"}, StepEnds(c, status)
  PROVE  CampaignInv'
<1> DEFINE k == call[c]
           r == Head(k.todo)
           rv == k.rv + 1
           goes == [k EXCEPT !.rv = rv, !.pc = "complete"]
<1>1. /\ k.pc = "act" /\ UNCHANGED <<campaign, quietHalt>>
      /\ \/ Ends(c) /\ UNCHANGED <<runs, finding>>
         \/ Life!StepSucceeds(r, Result("succeeded")) /\ call' = [call EXCEPT ![c] = goes]
         \/ Life!StepFails(r, Result("failed")) /\ call' = [call EXCEPT ![c] = Returned(k, "failed")]
  BY DEF StepEnds, Returns, At, Next1, KeepRecord, lifeVars
<1>2. CallOK(k, runs) /\ RunsOK(runs) /\ k.todo # <<>>
  BY <1>1 DEF CampaignInv, CallOK
<1>3. CASE Ends(c) /\ UNCHANGED <<runs, finding>>
  BY <1>1, <1>3, CallEnds
<1>4. /\ r \in RunId /\ r \in ToSet(RefsOf(k.phase)) /\ k.phase \in Phase /\ ~ quietHalt
      /\ \A q \in Phase : q < k.phase => Over(q, runs)
  BY <1>1, <1>2, ExecutingKnows
<1>5. ASSUME \/ Life!StepSucceeds(r, Result("succeeded")) \/ Life!StepFails(r, Result("failed"))
      PROVE  /\ RunsOK(runs') /\ Later(runs, runs') /\ finding' \in [RunId -> Finding]
             /\ PhasesInOrder' /\ CallOK(k, runs')
  <2>1. /\ RunsOK(runs') /\ Later(runs, runs') /\ finding' = finding
        /\ \A q \in RunId : q # r => runs'[q] = runs[q]
    BY <1>2, <1>4, <1>5, LifeActs
  <2>2. PhasesInOrder'
    BY <1>4, <2>1, ActsInOrder
  <2>3. CallOK(k, runs')
    BY <1>2, <2>1, LaterKeeps
  <2> QED BY <2>1, <2>2, <2>3 DEF CampaignInv
<1>6. CASE Life!StepSucceeds(r, Result("succeeded")) /\ call' = [call EXCEPT ![c] = goes]
  <2> HIDE DEF rv
  <2>1. /\ IsCall(goes) /\ goes.pc = "complete" /\ goes.copy = k.copy /\ goes.todo = k.todo
        /\ goes.phase = k.phase
    BY <1>2 DEF CallOK, IsCall, CallFields
  <2> HIDE DEF goes
  <2>2. CallOK(goes, runs')
    BY <1>1, <1>2, <1>5, <1>6, <2>1 DEF CallOK
  <2> QED BY <1>1, <1>4, <1>5, <1>6, <2>1, <2>2, CallActs
<1>7. CASE Life!StepFails(r, Result("failed")) /\ call' = [call EXCEPT ![c] = Returned(k, "failed")]
  <2>1. /\ CallOK(Returned(k, "failed"), runs') /\ Returned(k, "failed").pc = "execute"
        /\ Returned(k, "failed").copy.version = k.copy.version
        /\ Returned(k, "failed").copy.trail = k.copy.trail
    <3>1. "failed" \in RunStatus
      BY DEF RunStatus
    <3> QED BY <1>1, <1>2, <1>5, <1>7, <3>1, ReturnedOK
  <2> QED BY <1>1, <1>4, <1>5, <1>7, <2>1, CallActs
<1> QED BY <1>1, <1>3, <1>6, <1>7

LEMMA ExecuteEndsKeeps ==
  ASSUME CampaignInv, NEW c \in Client, ExecuteEnds(c)
  PROVE  CampaignInv'
<1> DEFINE k == call[c]
           r == Head(k.todo)
           next == Returned(k, "completed")
<1>1. /\ k.pc = "complete" /\ UNCHANGED <<campaign, quietHalt>>
      /\ \/ Ends(c) /\ UNCHANGED <<runs, finding>>
         \/ Life!Complete(r) /\ call' = [call EXCEPT ![c] = next]
  BY DEF ExecuteEnds, Returns, At, Next1, KeepRecord, lifeVars
<1>2. CallOK(k, runs) /\ RunsOK(runs) /\ finding \in [RunId -> Finding] /\ k.todo # <<>>
  BY <1>1 DEF CampaignInv, CallOK
<1>3. CASE Ends(c) /\ UNCHANGED <<runs, finding>>
  BY <1>1, <1>3, CallEnds
<1>4. CASE Life!Complete(r) /\ call' = [call EXCEPT ![c] = next]
  <2>1. r \in RunId /\ ~ quietHalt
    BY <1>1, <1>2, ExecutingKnows
  <2>2. /\ RunsOK(runs') /\ Later(runs, runs') /\ finding' = finding
        /\ \A q \in RunId : runs'[q].results = runs[q].results
    BY <1>2, <1>4, LifeTouches
  <2>3. AllSucceeded(runs'[r].results)
    BY <1>4, <2>1, <2>2, LifeIs DEF Life!Complete
  <2>4. PhasesInOrder' /\ CallOK(k, runs')
    BY <1>2, <2>2, ResultsStay, LaterKeeps DEF CampaignInv
  <2>5. /\ CallOK(next, runs') /\ next.pc = "execute"
        /\ next.copy.version = k.copy.version /\ next.copy.trail = k.copy.trail
    <3>1. "completed" \in RunStatus
      BY DEF RunStatus
    <3> QED BY <1>1, <1>2, <2>2, <2>3, <2>4, <3>1, ReturnedOK
  <2> HIDE DEF next
  <2>6. finding' \in [RunId -> Finding]
    BY <1>2, <2>2
  <2> QED BY <1>1, <1>4, <2>1, <2>2, <2>4, <2>5, <2>6, CallActs
<1> QED BY <1>1, <1>3, <1>4

-----------------------------------------------------------------------------
(* The other steps                                                          *)
LEMMA HaltWritesKeeps ==
  ASSUME CampaignInv, NEW c \in Client, HaltWrites(c)
  PROVE  CampaignInv'
<1> DEFINE k == call[c]
           r == Head(k.todo)
           copy == Mirrored(k.copy, r, "halted")
           next == [k EXCEPT !.copy = copy, !.todo = Tail(k.todo), !.rv = 0]
<1>1. /\ k.pc = "halt" /\ UNCHANGED <<campaign, quietHalt>>
      /\ \/ Ends(c) /\ UNCHANGED <<runs, finding>>
         \/ Life!Halt(r) /\ call' = [call EXCEPT ![c] = next]
  BY DEF HaltWrites, At, Next1, KeepRecord, lifeVars
<1>2. CallOK(k, runs) /\ RunsOK(runs) /\ finding \in [RunId -> Finding]
  BY DEF CampaignInv
<1>3. CASE Ends(c) /\ UNCHANGED <<runs, finding>>
  BY <1>1, <1>3, CallEnds
<1>4. CASE Life!Halt(r) /\ call' = [call EXCEPT ![c] = next]
  <2>1. /\ RunsOK(runs') /\ Later(runs, runs') /\ finding' = finding
        /\ \A q \in RunId : runs'[q].results = runs[q].results
        /\ \A q \in RunId : runs'[q].status \in {runs[q].status, "halted"}
    BY <1>2, <1>4, LifeHalts
  <2>2. PhasesInOrder' /\ CallOK(k, runs') /\ finding' \in [RunId -> Finding]
    BY <1>2, <2>1, ResultsStay, LaterKeeps DEF CampaignInv
  <2>3. quietHalt => AllTerminal(runs')
    BY <2>1, PhaseFacts DEF CampaignInv, QuietOK, AllTerminal, Terminal
  <2>4. RecordOK(copy, runs') /\ copy.version = k.copy.version /\ copy.trail = k.copy.trail
    <3>1. RecordOK(k.copy, runs') /\ "halted" \in RunStatus
      BY <2>2 DEF CallOK, RunStatus
    <3> QED BY <3>1, MirroredOK
  <2> HIDE DEF copy
  <2>5. IsCall(next) /\ next.pc = "halt" /\ next.op = k.op /\ next.copy = copy
    BY <1>1, <1>2 DEF CallOK, IsCall, CallFields
  <2> HIDE DEF next
  <2>6. CallOK(next, runs')
    BY <2>4, <2>5 DEF CallOK
  <2>7. quietHalt => QuietCall(next)
    BY <2>5 DEF CampaignInv, QuietOK, QuietCall
  <2> QED BY <1>1, <1>4, <2>1, <2>2, <2>3, <2>4, <2>5, <2>6, <2>7, CallActs
<1> QED BY <1>1, <1>3, <1>4

LEMMA VerifyReopensKeeps ==
  ASSUME CampaignInv, NEW c \in Client, VerifyReopens(c)
  PROVE  /\ CampaignInv'
         /\ \A q \in RunId : runs'[q].results = runs[q].results
<1> DEFINE k == call[c]
           f == CHOOSE f \in Finding : f.eligibility = "assisted"
           next == [k EXCEPT !.pc = "store"]
<1>1. /\ k.pc = "reopen" /\ UNCHANGED <<campaign, quietHalt>> /\ call' = [call EXCEPT ![c] = next]
      /\ UNCHANGED <<runs, finding>> \/ Life!Propose(FollowUp, f)
  BY DEF VerifyReopens, Goto, At
<1>2. f \in Finding
  BY CampaignAssumption DEF Finding
<1> HIDE DEF f
<1>3. CallOK(k, runs) /\ RunsOK(runs) /\ finding \in [RunId -> Finding]
  BY DEF CampaignInv
<1>4. /\ RunsOK(runs') /\ Later(runs, runs') /\ finding' \in [RunId -> Finding]
      /\ \A q \in RunId : runs'[q].results = runs[q].results
      /\ \A q \in RunId : q # FollowUp => runs'[q] = runs[q]
  <2>1. CASE UNCHANGED <<runs, finding>>
    BY <1>3, <2>1 DEF Later
  <2>2. CASE Life!Propose(FollowUp, f)
    BY <1>2, <1>3, <2>2, LifeProposes
  <2> QED BY <1>1, <2>1, <2>2
<1>5. PhasesInOrder' /\ CallOK(k, runs')
  BY <1>3, <1>4, ResultsStay, LaterKeeps DEF CampaignInv
<1>6. quietHalt => AllTerminal(runs')
  BY <1>4, PhaseFacts, CampaignAssumption DEF CampaignInv, QuietOK, AllTerminal
<1>7. IsCall(next) /\ next.pc = "store" /\ next.op = k.op /\ next.copy = k.copy
  BY <1>3 DEF CallOK, IsCall, CallFields
<1> HIDE DEF next
<1>8. CallOK(next, runs')
  BY <1>5, <1>7 DEF CallOK
<1>9. quietHalt => QuietCall(next)
  BY <1>7 DEF CampaignInv, QuietOK, QuietCall
<1>10. CampaignInv'
  BY <1>1, <1>4, <1>5, <1>6, <1>7, <1>8, <1>9, CallActs
<1> QED BY <1>4, <1>10

LEMMA TouchKeeps ==
  ASSUME CampaignInv, NEW r \in RunId, Approves(r) \/ Simulates(r) \/ HaltsRun(r)
  PROVE  /\ CampaignInv'
         /\ \A q \in RunId : runs'[q].results = runs[q].results
<1>1. RunsOK(runs) /\ finding \in [RunId -> Finding] /\ UNCHANGED <<campaign, call>>
  BY DEF CampaignInv, Approves, Simulates, HaltsRun, Touch, KeepRecord
<1>2. CASE Approves(r) \/ Simulates(r)
  <2>1. /\ RunsOK(runs') /\ Later(runs, runs') /\ finding' = finding
        /\ \A q \in RunId : runs'[q].results = runs[q].results
    BY <1>1, <1>2, LifeTouches DEF Approves, Simulates
  <2>2. ~ quietHalt'
    BY <1>2 DEF Approves, Simulates
  <2>3. PhasesInOrder' /\ finding' \in [RunId -> Finding]
    BY <1>1, <2>1, ResultsStay DEF CampaignInv
  <2> QED BY <1>1, <2>1, <2>2, <2>3, RunMoves
<1>3. CASE HaltsRun(r)
  <2>1. /\ RunsOK(runs') /\ Later(runs, runs') /\ finding' = finding
        /\ \A q \in RunId : runs'[q].results = runs[q].results
        /\ \A q \in RunId : runs'[q].status \in {runs[q].status, "halted"}
    BY <1>1, <1>3, LifeHalts DEF HaltsRun
  <2>2. quietHalt' => quietHalt /\ AllTerminal(runs')
    BY <1>3, <2>1, PhaseFacts DEF HaltsRun, CampaignInv, QuietOK, AllTerminal, Terminal
  <2>3. PhasesInOrder' /\ finding' \in [RunId -> Finding]
    BY <1>1, <2>1, ResultsStay DEF CampaignInv
  <2> QED BY <1>1, <2>1, <2>2, <2>3, RunMoves
<1> QED BY <1>2, <1>3

LEMMA RestartKeeps ==
  ASSUME CampaignInv, Restart
  PROVE  CampaignInv'
<1>1. call' = [c \in Client |-> Idle] /\ UNCHANGED <<runs, finding, campaign, quietHalt>>
  BY DEF Restart
<1>2. \A c \in Client : call'[c] = Idle
  BY <1>1
<1>3. /\ RunsOK(runs') /\ finding' \in [RunId -> Finding] /\ RecordOK(campaign', runs')
      /\ PhasesInOrder' /\ call' = [c \in Client |-> call'[c]]
  BY <1>1, <1>2 DEF CampaignInv, PhasesInOrder
<1>4. \A c \in Client : CallOK(call'[c], runs')
  BY <1>1, <1>2, NothingYet
<1>5. VersionOK(Idle.copy, campaign)
  <2>1. campaign.version \in Nat /\ (campaign.version = 0 => campaign.trail = {})
    BY DEF CampaignInv, VersionsOK, RecordOK, IsRecord
  <2> QED BY <2>1, NothingYet DEF VersionOK
<1>6. VersionsOK'
  BY <1>1, <1>2, <1>5, NothingYet DEF CampaignInv, VersionsOK
<1>7. QuietCall(Idle)
  BY NothingYet DEF QuietCall
<1>8. QuietOK'
  BY <1>1, <1>2, <1>7 DEF CampaignInv, QuietOK
<1> QED BY <1>3, <1>4, <1>6, <1>8 DEF CampaignInv

LEMMA EscalateKeeps ==
  ASSUME CampaignInv, UNCHANGED <<runs, finding, campaign, call, quietHalt>>
  PROVE  CampaignInv'
BY DEF CampaignInv, PhasesInOrder, VersionsOK, QuietOK

LEMMA CampaignBegins == CampaignInit => CampaignInv
<1> SUFFICES ASSUME CampaignInit PROVE CampaignInv
  OBVIOUS
<1>1. /\ runs = [r \in RunId |-> NoRun] /\ finding \in [RunId -> Finding]
      /\ campaign = NoCampaign /\ call = [c \in Client |-> Idle] /\ ~ quietHalt
  BY DEF CampaignInit, Life!Init, Life!NoRun, NoRun, Life!NoFinding, NoFinding, Finding
<1>2. NoRun \in Run /\ NoRun.results = <<>> /\ NoRun.status # "completed"
  BY SomeInputs DEF NoRun, Run, RunStatus
<1>3. RunsOK(runs) /\ \A r \in RunId : runs[r].results = <<>>
  BY <1>1, <1>2 DEF RunsOK
<1>4. PhasesInOrder
  <2>1. Len(<<>>) = 0
    BY EmptySeq
  <2> QED BY <1>3, <2>1, PhaseFacts DEF PhasesInOrder
<1>5. RecordOK(campaign, runs) /\ \A c \in Client : call[c] = Idle /\ CallOK(call[c], runs)
  BY <1>1, NothingYet
<1>6. VersionsOK
  BY <1>1, <1>5, NothingYet DEF VersionsOK, VersionOK
<1>7. QuietOK
  BY <1>1 DEF QuietOK
<1> QED BY <1>1, <1>3, <1>4, <1>5, <1>6, <1>7 DEF CampaignInv

LEMMA CampaignKeeps == CampaignInv /\ [CampaignNext]_campaignVars => CampaignInv'
<1> SUFFICES ASSUME CampaignInv, [CampaignNext]_campaignVars PROVE CampaignInv'
  OBVIOUS
<1>1. CASE UNCHANGED campaignVars
  BY <1>1, EscalateKeeps DEF campaignVars
<1>2. CASE EscalateOverdue
  BY <1>2, EscalateKeeps DEF EscalateOverdue, KeepRuns
<1>3. CASE Restart
  BY <1>3, RestartKeeps
<1>4. CASE \E r \in RunId : Approves(r) \/ Simulates(r) \/ HaltsRun(r)
  BY <1>4, TouchKeeps
<1>5. ASSUME NEW c \in Client,
             \/ PlanBegin(c, "plan", FALSE)
             \/ \E auto \in BOOLEAN : PlanBegin(c, "trigger", auto)
             \/ \E f \in Finding : PlanProposes(c, f)
             \/ PlanStores(c) \/ PlanEvidenced(c) \/ TriggerFired(c) \/ TriggerAdvances(c)
             \/ Route(c) \/ Routed(c)
             \/ \E op \in {"advance", "halt", "verify"} : Begin(c, op)
      PROVE  CampaignInv'
  BY <1>5, PlanBeginKeeps, PlanProposesKeeps, PlanStoresKeeps, PlanStoredKeeps,
     TriggerAdvancesKeeps, BeginKeeps
<1>6. ASSUME NEW c \in Client,
             \/ Refresh(c) \/ AdvanceSelects(c) \/ ExecuteBegins(c) \/ ExecuteRefused(c)
             \/ \E status \in {"succeeded", "failed"} : StepEnds(c, status)
             \/ ExecuteEnds(c) \/ PhaseDone(c)
      PROVE  CampaignInv'
  BY <1>6, RefreshKeeps, AdvanceSelectsKeeps, ExecuteBeginsKeeps, ExecuteRefusedKeeps,
     StepEndsKeeps, ExecuteEndsKeeps, PhaseDoneKeeps
<1>7. ASSUME NEW c \in Client,
             \/ HaltSelects(c) \/ HaltReads(c) \/ HaltWrites(c) \/ HaltDone(c)
             \/ \E verified \in BOOLEAN : VerifyAssesses(c, verified)
             \/ VerifyReopens(c) \/ Stores(c)
      PROVE  CampaignInv'
  BY <1>7, HaltSelectsKeeps, HaltReadsKeeps, HaltWritesKeeps, PhaseDoneKeeps,
     VerifyReopensKeeps, StoresKeeps
<1>8. ASSUME NEW c \in Client, StoreConflicts(c) \/ Interrupt(c)
      PROVE  CampaignInv'
  BY <1>8, CallEnds DEF StoreConflicts, Interrupt, KeepRuns, KeepRecord
<1> QED BY <1>1, <1>2, <1>3, <1>4, <1>5, <1>6, <1>7, <1>8 DEF CampaignNext

(***************************************************************************)
(* The inductive invariant: what the record, every copy of it and every    *)
(* call say of the runs is so.                                             *)
(***************************************************************************)
THEOREM CampaignInductive == CampaignSpec => []CampaignInv
BY CampaignBegins, CampaignKeeps, PTL DEF CampaignSpec

(***************************************************************************)
(* EA-0018 FR-9: a phase acts only after the phases before it succeeded.   *)
(***************************************************************************)
THEOREM PhasesInOrderTheorem == CampaignSpec => []PhasesInOrder
<1>1. CampaignInv => PhasesInOrder
  BY DEF CampaignInv
<1> QED BY <1>1, CampaignInductive, PTL

(***************************************************************************)
(* FR-8: what is stored as completed has succeeded, run by run.            *)
(***************************************************************************)
THEOREM MirrorIsHonestTheorem == CampaignSpec => []MirrorIsHonest
<1>1. CampaignInv => MirrorIsHonest
  BY DEF CampaignInv, RecordOK, Honest, Over, MirrorIsHonest
<1> QED BY <1>1, CampaignInductive, PTL

\* A copy is stored when its version is that of the record: it has its whole trail.
LEMMA TrailStep ==
  CampaignInv /\ [CampaignNext]_campaignVars => campaign.trail \subseteq campaign'.trail
<1> SUFFICES ASSUME CampaignInv, [CampaignNext]_campaignVars
             PROVE  campaign.trail \subseteq campaign'.trail
  OBVIOUS
<1>1. CASE UNCHANGED campaign
  BY <1>1
<1>2. ASSUME NEW c \in Client, PlanStores(c) PROVE campaign.trail = {}
  BY <1>2 DEF PlanStores, At, CampaignInv, VersionsOK
<1>3. ASSUME NEW c \in Client, Fresh(call[c].copy),
             \/ \E kind : Upsert(call[c].copy, kind)
             \/ campaign' = [call[c].copy EXCEPT !.version = campaign.version + 1]
      PROVE  campaign.trail \subseteq campaign'.trail
  <2> DEFINE copy == call[c].copy
  <2>1. campaign.trail \subseteq copy.trail /\ copy = [x \in RecordFields |-> copy[x]]
    BY <1>3 DEF CampaignInv, VersionsOK, VersionOK, Fresh, CallOK, RecordOK, IsRecord
  <2> HIDE DEF copy
  <2>2. \/ \E kind : campaign' = [copy EXCEPT !.trail = copy.trail \cup {kind}, !.version = campaign.version + 1]
        \/ campaign' = [copy EXCEPT !.version = campaign.version + 1]
    BY <1>3 DEF Upsert, copy
  <2>3. copy.trail \subseteq campaign'.trail
    BY <2>1, <2>2 DEF RecordFields
  <2> QED BY <2>1, <2>3
<1>4. ASSUME NEW c \in Client, PlanEvidenced(c) \/ TriggerFired(c) \/ Routed(c) \/ Stores(c)
      PROVE  campaign.trail \subseteq campaign'.trail
  BY <1>3, <1>4 DEF PlanEvidenced, TriggerFired, Routed, Stores
<1>5. CASE EscalateOverdue \/ Restart \/ \E r \in RunId : Approves(r) \/ Simulates(r) \/ HaltsRun(r)
  BY <1>5 DEF EscalateOverdue, Restart, Approves, Simulates, HaltsRun, Touch, KeepRecord
<1>6. ASSUME NEW c \in Client,
             \/ PlanBegin(c, "plan", FALSE)
             \/ \E auto \in BOOLEAN : PlanBegin(c, "trigger", auto)
             \/ \E f \in Finding : PlanProposes(c, f)
             \/ TriggerAdvances(c) \/ Route(c)
             \/ \E op \in {"advance", "halt", "verify"} : Begin(c, op)
             \/ Refresh(c) \/ AdvanceSelects(c) \/ ExecuteBegins(c) \/ ExecuteRefused(c)
             \/ \E status \in {"succeeded", "failed"} : StepEnds(c, status)
             \/ ExecuteEnds(c) \/ PhaseDone(c)
             \/ HaltSelects(c) \/ HaltReads(c) \/ HaltWrites(c) \/ HaltDone(c)
             \/ \E verified \in BOOLEAN : VerifyAssesses(c, verified)
             \/ VerifyReopens(c) \/ StoreConflicts(c) \/ Interrupt(c)
      PROVE  UNCHANGED campaign
  BY <1>6 DEF PlanBegin, Starts, PlanProposes, TriggerAdvances, Route, Begin, Refresh, AdvanceSelects,
              ExecuteBegins, ExecuteRefused, StepEnds, ExecuteEnds, PhaseDone, HaltSelects, HaltReads,
              HaltWrites, HaltDone, VerifyAssesses, VerifyReopens, StoreConflicts, Interrupt, KeepRecord
<1> QED BY <1>1, <1>2, <1>4, <1>5, <1>6 DEF CampaignNext, campaignVars

(***************************************************************************)
(* FR-12: no interleaving of calls loses a link to the evidence.           *)
(***************************************************************************)
THEOREM TrailIsKeptTheorem == CampaignSpec => TrailIsKept
BY TrailStep, CampaignInductive, PTL DEF CampaignSpec, TrailIsKept

\* Only a call that executes a run adds to its results.
LEMMA ResultsStep ==
  ASSUME CampaignInv, [CampaignNext]_campaignVars, quietHalt
  PROVE  \A q \in RunId : runs'[q].results = runs[q].results
<1>1. CASE UNCHANGED runs
  BY <1>1
<1>2. ASSUME NEW c \in Client, NEW f \in Finding, PlanProposes(c, f) PROVE FALSE
  BY <1>2 DEF PlanProposes, At, CampaignInv, QuietOK, QuietCall
<1>3. ASSUME NEW c \in Client, ExecuteEnds(c) \/ \E status \in {"succeeded", "failed"} : StepEnds(c, status)
      PROVE  FALSE
  BY <1>3 DEF ExecuteEnds, StepEnds, At, CampaignInv, QuietOK, QuietCall
<1>4. ASSUME NEW c \in Client, HaltWrites(c)
      PROVE  \A q \in RunId : runs'[q].results = runs[q].results
  BY <1>4, LifeHalts DEF HaltWrites, CampaignInv, lifeVars
<1>5. ASSUME NEW c \in Client, VerifyReopens(c)
      PROVE  \A q \in RunId : runs'[q].results = runs[q].results
  BY <1>5, VerifyReopensKeeps
<1>6. CASE \E r \in RunId : Approves(r) \/ Simulates(r) \/ HaltsRun(r)
  BY <1>6, TouchKeeps
<1>7. CASE EscalateOverdue \/ Restart
  BY <1>7 DEF EscalateOverdue, Restart, KeepRuns
<1>8. ASSUME NEW c \in Client,
             \/ PlanBegin(c, "plan", FALSE)
             \/ \E auto \in BOOLEAN : PlanBegin(c, "trigger", auto)
             \/ PlanStores(c) \/ PlanEvidenced(c) \/ TriggerFired(c) \/ TriggerAdvances(c)
             \/ Route(c) \/ Routed(c)
             \/ \E op \in {"advance", "halt", "verify"} : Begin(c, op)
             \/ Refresh(c) \/ AdvanceSelects(c) \/ ExecuteBegins(c) \/ ExecuteRefused(c)
             \/ PhaseDone(c) \/ HaltSelects(c) \/ HaltReads(c) \/ HaltDone(c)
             \/ \E verified \in BOOLEAN : VerifyAssesses(c, verified)
             \/ Stores(c) \/ StoreConflicts(c) \/ Interrupt(c)
      PROVE  UNCHANGED runs
  BY <1>8 DEF PlanBegin, Starts, PlanStores, PlanEvidenced, TriggerFired, TriggerAdvances, Route, Routed,
              Begin, Refresh, AdvanceSelects, ExecuteBegins, ExecuteRefused, PhaseDone, HaltSelects,
              HaltReads, HaltDone, VerifyAssesses, Stores, StoreConflicts, Interrupt, KeepRuns
<1> QED BY <1>1, <1>2, <1>3, <1>4, <1>5, <1>6, <1>7, <1>8 DEF CampaignNext, campaignVars

(***************************************************************************)
(* FR-10: after a halt during which no other call was in progress, no call *)
(* of the response engine makes a run of the campaign act.                 *)
(***************************************************************************)
THEOREM HaltHoldsTheorem == CampaignSpec => HaltHolds
<1>1. CampaignInv /\ [CampaignNext]_campaignVars =>
        (quietHalt => \A r \in ToSet(Refs) : Len(runs'[r].results) = Len(runs[r].results))
  BY ResultsStep, PhaseFacts
<1> QED BY <1>1, CampaignInductive, PTL DEF CampaignSpec, HaltHolds

-----------------------------------------------------------------------------
(* Campaigns and the other users of the runs move them as the lifecycle says *)
LEMMA LifeTypes ==
  /\ Life!Finding = Finding /\ Life!Approval = Approval
  /\ Life!NoRun = NoRun /\ Life!NoFinding = NoFinding
<1>1. Life!NoRun = NoRun /\ Life!NoFinding = NoFinding
  BY DEF Life!NoRun, NoRun, Life!NoFinding, NoFinding
<1>2. Life!Finding = Finding
  BY <1>1 DEF Life!Finding, Finding
<1>3. Life!Approval = Approval
  BY DEF Life!Approval, Approval, Life!Step, Step
<1> QED BY <1>1, <1>2, <1>3

\* A step of a run that is none stores nothing.
LEMMA NoSuchRun ==
  ASSUME RunsOK(runs), finding \in [RunId -> Finding], NEW r, r \notin RunId,
         (\E run : Life!Store(r, run)) \/ \E f : Life!Propose(r, f)
  PROVE  UNCHANGED lifeVars
<1>1. /\ runs = [i \in RunId |-> runs[i]]
      /\ finding = [i \in RunId |-> finding[i]]
  BY DEF RunsOK
<1>2. ASSUME NEW run PROVE [runs EXCEPT ![r] = run] = runs
  BY <1>1
<1>3. ASSUME NEW f PROVE [finding EXCEPT ![r] = f] = finding
  BY <1>1
<1>4. CASE \E run : Life!Store(r, run)
  BY <1>2, <1>4, Zenon DEF Life!Store, lifeVars
<1>5. CASE \E f : Life!Propose(r, f)
  <2>1. runs' = [runs EXCEPT ![r] = Life!NewRun] /\ \E f : finding' = [finding EXCEPT ![r] = f]
    BY <1>5, Zenon DEF Life!Propose
  <2> QED BY <1>2, <1>3, <2>1, Zenon DEF lifeVars
<1> QED BY <1>4, <1>5

LEMMA ProposeIsLife ==
  ASSUME RunsOK(runs), finding \in [RunId -> Finding], NEW r, NEW f \in Finding, Life!Propose(r, f)
  PROVE  [Life!Next]_(Life!vars)
<1>1. CASE r \in RunId
  BY <1>1, LifeTypes DEF Life!Next
<1>2. CASE r \notin RunId
  BY <1>2, NoSuchRun DEF lifeVars, Life!vars
<1> QED BY <1>1, <1>2

LEMMA HaltIsLife ==
  ASSUME RunsOK(runs), finding \in [RunId -> Finding], NEW r, Life!Halt(r)
  PROVE  [Life!Next]_(Life!vars)
<1>1. CASE r \in RunId
  BY <1>1 DEF Life!Next
<1>2. CASE r \notin RunId
  BY <1>2, NoSuchRun DEF Life!Halt, lifeVars, Life!vars
<1> QED BY <1>1, <1>2

LEMMA CompleteIsLife ==
  ASSUME RunsOK(runs), finding \in [RunId -> Finding], NEW r, Life!Complete(r)
  PROVE  [Life!Next]_(Life!vars)
<1>1. CASE r \in RunId
  BY <1>1 DEF Life!Next
<1>2. CASE r \notin RunId
  BY <1>2, NoSuchRun DEF Life!Complete, lifeVars, Life!vars
<1> QED BY <1>1, <1>2

\* The result that an execution stores is among those of the new record.
LEMMA ActIsLife ==
  ASSUME RunsOK(runs), finding \in [RunId -> Finding], NEW r, NEW res \in StepResult,
         Life!StepSucceeds(r, res) \/ Life!StepFails(r, res)
  PROVE  [Life!Next]_(Life!vars)
<1>1. CASE r \in RunId
  <2>1. runs[r] \in Run
    BY <1>1 DEF RunsOK
  <2>2. /\ NextVersion(WithSuccess(runs[r], res)).results = Append(runs[r].results, res)
        /\ NextVersion(WithFailure(runs[r], res)).results = Append(runs[r].results, res)
    BY <2>1 DEF NextVersion, WithSuccess, WithFailure, Run
  <2>3. runs'[r].results = Append(runs[r].results, res)
    BY <1>1, <2>2, LifeIs DEF Life!StepSucceeds, Life!StepFails, Life!Store, RunsOK
  <2>4. runs[r].results \in Seq(StepResult)
    BY <2>1 DEF Run
  <2>5. \E i \in DOMAIN runs'[r].results : runs'[r].results[i] = res
    <3>1. \A s \in Seq(StepResult) :
            Len(s) + 1 \in DOMAIN Append(s, res) /\ Append(s, res)[Len(s) + 1] = res
      OBVIOUS
    <3> QED BY <2>3, <2>4, <3>1, Zenon
  <2>6. res \in Life!NewResults(r)
    BY <2>5 DEF Life!NewResults
  <2>7. \E q \in Life!NewResults(r) : Life!StepSucceeds(r, q) \/ Life!StepFails(r, q)
    BY <2>6, Zenon
  <2> QED BY <1>1, <2>7, Zenon DEF Life!Next
<1>2. CASE r \notin RunId
  BY <1>2, NoSuchRun DEF Life!StepSucceeds, Life!StepFails, lifeVars, Life!vars
<1> QED BY <1>1, <1>2

LEMMA RunsStep ==
  ASSUME CampaignInv, [CampaignNext]_campaignVars
  PROVE  [Life!Next]_(Life!vars)
<1> USE DEF Life!vars
<1>1. RunsOK(runs) /\ finding \in [RunId -> Finding]
  BY DEF CampaignInv
<1>2. CASE UNCHANGED <<runs, finding>>
  BY <1>2
<1>3. ASSUME NEW c \in Client, NEW f \in Finding, PlanProposes(c, f)
      PROVE  [Life!Next]_(Life!vars)
  BY <1>1, <1>3, ProposeIsLife DEF PlanProposes
<1>4. ASSUME NEW c \in Client, NEW status \in {"succeeded", "failed"}, StepEnds(c, status)
      PROVE  [Life!Next]_(Life!vars)
  BY <1>1, <1>4, SomeInputs, ActIsLife DEF StepEnds, lifeVars
<1>5. ASSUME NEW c \in Client, ExecuteEnds(c)
      PROVE  [Life!Next]_(Life!vars)
  BY <1>1, <1>5, CompleteIsLife DEF ExecuteEnds, lifeVars
<1>6. ASSUME NEW c \in Client, HaltWrites(c)
      PROVE  [Life!Next]_(Life!vars)
  BY <1>1, <1>6, HaltIsLife DEF HaltWrites, lifeVars
<1>7. ASSUME NEW c \in Client, VerifyReopens(c)
      PROVE  [Life!Next]_(Life!vars)
  <2>1. (CHOOSE f \in Finding : f.eligibility = "assisted") \in Finding
    BY CampaignAssumption DEF Finding
  <2> QED BY <1>1, <1>7, <2>1, ProposeIsLife DEF VerifyReopens
<1>8. ASSUME NEW r \in RunId, Approves(r) \/ Simulates(r) \/ HaltsRun(r)
      PROVE  [Life!Next]_(Life!vars)
  BY <1>8, SomeInputs, LifeTypes DEF Approves, Simulates, HaltsRun, Life!Next
<1>9. CASE EscalateOverdue \/ Restart
  BY <1>2, <1>9 DEF EscalateOverdue, Restart, KeepRuns
<1>10. ASSUME NEW c \in Client,
              \/ PlanBegin(c, "plan", FALSE)
              \/ \E auto \in BOOLEAN : PlanBegin(c, "trigger", auto)
              \/ PlanStores(c) \/ PlanEvidenced(c) \/ TriggerFired(c) \/ TriggerAdvances(c)
              \/ Route(c) \/ Routed(c)
              \/ \E op \in {"advance", "halt", "verify"} : Begin(c, op)
              \/ Refresh(c) \/ AdvanceSelects(c) \/ ExecuteBegins(c) \/ ExecuteRefused(c)
              \/ PhaseDone(c) \/ HaltSelects(c) \/ HaltReads(c) \/ HaltDone(c)
              \/ \E verified \in BOOLEAN : VerifyAssesses(c, verified)
              \/ Stores(c) \/ StoreConflicts(c) \/ Interrupt(c)
       PROVE  UNCHANGED <<runs, finding>>
  BY <1>10 DEF PlanBegin, Starts, PlanStores, PlanEvidenced, TriggerFired, TriggerAdvances, Route, Routed,
               Begin, Refresh, AdvanceSelects, ExecuteBegins, ExecuteRefused, PhaseDone, HaltSelects,
               HaltReads, HaltDone, VerifyAssesses, Stores, StoreConflicts, Interrupt, KeepRuns
<1>11. CASE UNCHANGED campaignVars
  BY <1>2, <1>11 DEF campaignVars
<1> QED BY <1>2, <1>3, <1>4, <1>5, <1>6, <1>7, <1>8, <1>9, <1>10, <1>11 DEF CampaignNext

(***************************************************************************)
(* Whatever campaigns, and the other users of their runs, do at once, each *)
(* run moves only by steps that the lifecycle of the workflow engine allows, *)
(* gates included: response/campaign.py keeps no run of its own and reaches *)
(* runs through the workflow engine alone.                                 *)
(***************************************************************************)
THEOREM RunsFollowLifecycle == CampaignSpec => Life!Spec
<1>1. CampaignInit => Life!Init
  BY LifeTypes DEF CampaignInit, Life!Init
<1> QED BY <1>1, RunsStep, CampaignInductive, PTL DEF CampaignSpec, Life!Spec

(***************************************************************************)
(* What follows for the records: as RunOK of the rules says, each run has  *)
(* its successes in order, and each of them covered by its approvals.      *)
(***************************************************************************)
RecordsOK == \A r \in RunId : RunOK(runs[r], finding[r])

LEMMA LifeGates ==
  /\ \A q : Life!Succeeded(q) = Succeeded(q)
  /\ \A s, f : Life!RequiresApproval(s, f) = RequiresApproval(s, f)
  /\ \A s, as : Life!Approved(s, as) = Approved(s, as)
  /\ \A s, f, as, v : Life!MayExecute(s, f, as, v) = MayExecute(s, f, as, v)
  /\ \A s, q : Life!IsNext(s, q) = IsNext(s, q)
  /\ \A run, a : Life!RollbackGranted(run, a) = RollbackGranted(run, a)
  /\ \A run, u : Life!RolledBack(run, u) = RolledBack(run, u)
<1>1. Life!Step = Step
  BY DEF Life!Step, Step
<1>2. \A q : Life!Succeeded(q) = Succeeded(q)
  BY <1>1 DEF Life!Succeeded, Succeeded
<1>3. \A s, f : Life!RequiresApproval(s, f) = RequiresApproval(s, f)
  BY DEF Life!RequiresApproval, RequiresApproval
<1>4. \A s, as : Life!Approved(s, as) = Approved(s, as)
  BY DEF Life!Approved, Approved
<1>5. \A s, f, as, v : Life!MayExecute(s, f, as, v) = MayExecute(s, f, as, v)
  BY <1>3, <1>4 DEF Life!MayExecute, MayExecute
<1>6. \A s, q : Life!IsNext(s, q) = IsNext(s, q)
  BY <1>1, <1>2 DEF Life!IsNext, IsNext
<1>7. /\ \A run, a : Life!RollbackGranted(run, a) = RollbackGranted(run, a)
      /\ \A run, u : Life!RolledBack(run, u) = RolledBack(run, u)
  BY DEF Life!RollbackGranted, RollbackGranted, Life!RolledBack, RolledBack
<1> QED BY <1>2, <1>3, <1>4, <1>5, <1>6, <1>7

\* What a step of the lifecycle stores in an existing run
LEMMA RecordStored ==
  ASSUME RunsOK(runs), RecordsOK, NEW r \in RunId,
         NEW run \in Run, RunOK(run, finding[r]), Life!Store(r, run)
  PROVE  RecordsOK'
<1>1. RunOK(NextVersion(run), finding[r])
  BY RunOKVersion
<1>2. runs' = [runs EXCEPT ![r] = NextVersion(run)] /\ finding' = finding
  BY LifeIs DEF Life!Store
<1>3. runs'[r] = NextVersion(run) /\ \A q \in RunId : q # r => runs'[q] = runs[q]
  BY <1>2 DEF RunsOK
<1> QED BY <1>1, <1>2, <1>3 DEF RecordsOK

LEMMA RecordsStep ==
  ASSUME RunsOK(runs), finding \in [RunId -> Finding], RecordsOK, [Life!Next]_(Life!vars)
  PROVE  RecordsOK'
<1>1. CASE UNCHANGED Life!vars
  BY <1>1 DEF Life!vars, RecordsOK
<1> SUFFICES ASSUME NEW r \in RunId,
                    \/ \E f \in Finding : Life!Propose(r, f)
                    \/ Life!Simulate(r)
                    \/ \E a \in Approval : Life!Approve(r, a) \/ Life!GrantRollback(r, a)
                    \/ \E res \in Life!NewResults(r) : Life!StepSucceeds(r, res) \/ Life!StepFails(r, res)
                    \/ Life!Complete(r)
                    \/ Life!Halt(r)
                    \/ Life!Rollback(r)
             PROVE  RecordsOK'
  BY <1>1, LifeTypes DEF Life!Next
<1> DEFINE run == runs[r]
           f   == finding[r]
<1>2. run \in Run /\ f \in Finding /\ RunOK(run, f)
  BY DEF RunsOK, RecordsOK
<1>3. PICK a0 \in Approval, res0 \in StepResult : TRUE
  BY SomeInputs
<1>4. ASSUME NEW p \in Finding, Life!Propose(r, p)
      PROVE  RecordsOK'
  <2>1. runs' = [runs EXCEPT ![r] = NewRun] /\ finding' = [finding EXCEPT ![r] = p]
    BY <1>4, LifeIs DEF Life!Propose
  <2>2. RunOK(NewRun, p)
    <3>1. NewRun.status = "proposed" /\ NewRun.results = <<>>
      BY DEF NewRun, NoRun
    <3>2. Succeeded(<<>>) = {}
      BY DEF Succeeded
    <3> QED BY <3>1, <3>2 DEF RunOK, Ordered, Initial
  <2>3. /\ runs'[r] = NewRun /\ finding'[r] = p
        /\ \A q \in RunId : q # r => runs'[q] = runs[q] /\ finding'[q] = finding[q]
    BY <2>1 DEF RunsOK
  <2> QED BY <2>2, <2>3 DEF RecordsOK
<1>5. CASE Life!Simulate(r)
  <2>1. Simulated(run, f) \in Run /\ RunOK(Simulated(run, f), f)
    BY <1>2, <1>3, RuleTypes, RulesKeepRunOK, SomeInputs
  <2>2. Life!Store(r, Simulated(run, f))
    BY <1>5, LifeIs DEF Life!Simulate
  <2> QED BY <2>1, <2>2, RecordStored
<1>6. ASSUME NEW a \in Approval, Life!Approve(r, a)
      PROVE  RecordsOK'
  <2>1. WithApproval(run, f, a) \in Run /\ RunOK(WithApproval(run, f, a), f)
    BY <1>2, <1>3, RuleTypes, RulesKeepRunOK, SomeInputs
  <2>2. Life!Store(r, WithApproval(run, f, a))
    BY <1>6, LifeIs DEF Life!Approve
  <2> QED BY <2>1, <2>2, RecordStored
<1>7. ASSUME NEW a \in Approval, Life!GrantRollback(r, a)
      PROVE  RecordsOK'
  <2>1. RollbackGranted(run, a) \in Run /\ RunOK(RollbackGranted(run, a), f)
    BY <1>2, <1>3, RuleTypes, RulesKeepRunOK, SomeInputs
  <2>2. Life!Store(r, RollbackGranted(run, a))
    BY <1>7, LifeGates DEF Life!GrantRollback
  <2> QED BY <2>1, <2>2, RecordStored
<1>8. ASSUME NEW res, Life!StepSucceeds(r, res)
      PROVE  RecordsOK'
  <2>1. /\ res \in StepResult /\ res.status = "succeeded"
        /\ IsNext(res.step, run.results)
        /\ MayExecute(res.step, f, run.approvals, "allow")
        /\ Life!Store(r, WithSuccess(run, res))
    BY <1>8, LifeIs, LifeGates DEF Life!StepSucceeds
  <2>2. WithSuccess(run, res) \in Run /\ RunOK(WithSuccess(run, res), f)
    BY <1>2, <1>3, <2>1, RuleTypes, RulesKeepRunOK, SomeInputs
  <2> QED BY <2>1, <2>2, RecordStored
<1>9. ASSUME NEW res, Life!StepFails(r, res)
      PROVE  RecordsOK'
  <2>1. /\ res \in StepResult /\ res.status = "failed"
        /\ Life!Store(r, WithFailure(run, res))
    BY <1>9, LifeIs DEF Life!StepFails
  <2>2. WithFailure(run, res) \in Run /\ RunOK(WithFailure(run, res), f)
    BY <1>2, <1>3, <2>1, RuleTypes, RulesKeepRunOK, SomeInputs
  <2> QED BY <2>1, <2>2, RecordStored
<1>10. CASE Life!Complete(r)
  <2>1. AllSucceeded(run.results) /\ Life!Store(r, Completed(run))
    BY <1>10, LifeIs DEF Life!Complete
  <2>2. Completed(run) \in Run /\ RunOK(Completed(run), f)
    BY <1>2, <1>3, <2>1, RuleTypes, RulesKeepRunOK, SomeInputs
  <2> QED BY <2>1, <2>2, RecordStored
<1>11. CASE Life!Halt(r)
  <2>1. Halted(run) \in Run /\ RunOK(Halted(run), f)
    BY <1>2, <1>3, RuleTypes, RulesKeepRunOK, SomeInputs
  <2>2. Life!Store(r, Halted(run))
    BY <1>11, LifeIs DEF Life!Halt
  <2> QED BY <2>1, <2>2, RecordStored
<1>12. CASE Life!Rollback(r)
  <2>1. PICK u \in Seq(StepResult) :
               /\ \A i \in DOMAIN u : u[i].status \notin {"succeeded", "failed"}
               /\ Life!Store(r, RolledBack(run, u))
    BY <1>12, LifeIs, LifeGates DEF Life!Rollback
  <2>2. RolledBack(run, u) \in Run /\ RunOK(RolledBack(run, u), f)
    BY <1>2, <1>3, <2>1, RuleTypes, RulesKeepRunOK
  <2> QED BY <2>1, <2>2, RecordStored
<1> QED BY <1>4, <1>5, <1>6, <1>7, <1>8, <1>9, <1>10, <1>11, <1>12

(***************************************************************************)
(* No overlap of campaign calls with each other and with the users of      *)
(* their runs gets a gated step through without an approval that its run   *)
(* still holds, or records a success twice or out of order                 *)
(* (response/campaign.py executes runs; EA-0008 S2 and S4 bind it too).    *)
(***************************************************************************)
THEOREM GatesHoldTheorem == CampaignSpec => [](Life!SuccessesApproved /\ Life!SuccessesInOrder)
<1>1. CampaignInit => RecordsOK
  <2>1. Succeeded(<<>>) = {}
    BY DEF Succeeded
  <2>2. RunOK(NoRun, NoFinding)
    BY <2>1 DEF RunOK, NoRun, Ordered, Initial
  <2> QED BY <2>2, LifeTypes DEF CampaignInit, Life!Init, RecordsOK
<1>2. CampaignInv /\ RecordsOK /\ [CampaignNext]_campaignVars => RecordsOK'
  <2>1. CampaignInv => RunsOK(runs) /\ finding \in [RunId -> Finding]
    BY DEF CampaignInv
  <2> QED BY <2>1, RunsStep, RecordsStep
<1>3. RecordsOK => Life!SuccessesApproved /\ Life!SuccessesInOrder
  BY LifeGates DEF RecordsOK, RunOK, Ordered, Life!SuccessesApproved, Life!SuccessesInOrder
<1> QED BY <1>1, <1>2, <1>3, CampaignInductive, PTL DEF CampaignSpec
=============================================================================
