------------------------------- MODULE EventBus -------------------------------
(***************************************************************************)
(* InMemoryEventBus (events/memory.py).  publish() appends the event to    *)
(* the log, takes the subscriptions of that moment and awaits their        *)
(* handlers one after the other; other coroutines publish, subscribe and   *)
(* unsubscribe while a handler is awaited.  An event is its place in the   *)
(* log.                                                                    *)
(***************************************************************************)
EXTENDS Naturals, Sequences, FiniteSets, SequencesExt

CONSTANTS
  Publisher,    \* coroutines that publish, handlers among them
  Type,         \* event_type
  PartitionKey, \* partition_key
  Group,        \* consumer groups
  None,         \* group of a broadcast subscription
  Wanted,       \* what is subscribed to: [types, group]
  Batches,      \* what is published: sequences of [type, key]
  Capacity,     \* capacity of the buffer
  MaxAttempts,  \* max_attempts
  MaxPublished, \* bound: events of all publishers
  MaxSubs       \* bound: calls of subscribe

ASSUME EventBusAssumption ==
  /\ None \notin Group
  /\ Wanted \subseteq [types : SUBSET Type, group : Group \cup {None}]
  /\ Batches \subseteq Seq([type : Type, key : PartitionKey])
  /\ Capacity \in Nat /\ MaxAttempts \in Nat \ {0}
  /\ MaxPublished \in Nat /\ MaxSubs \in Nat

VARIABLES
  subs,      \* _subs: a dict, whose order is that of the ids
  counter,   \* _counter
  log,       \* _log; by and nth identify the publish() for the properties
  dlq,       \* _dlq; sub and calls are not in the code's record
  rr,        \* _group_rr
  paused,    \* _paused
  call,      \* the publish() or publish_many() each publisher is in
  got,       \* history variable: the events each subscription handled
  due,       \* history variable: the subscriptions each event was dispatched to
  calls,     \* history variable: handler calls for the first target of each call
  published  \* history variable: events each publisher handed over

vars == <<subs, counter, log, dlq, rr, paused, call, got, due, calls, published>>

SubId == 1 .. MaxSubs
Sub    == [id : SubId, types : SUBSET Type, group : Group \cup {None}]
Logged == [type : Type, key : PartitionKey, by : Publisher, nth : Nat]
Dead   == [event : Nat, sub : SubId, attempts : Nat, calls : Nat]

\* todo: events of the batch not yet accepted; targets: subscriptions still to
\* serve with event, whose handler raised attempt times for the first of them
Call == [todo : Seq(Logged), event : Nat, targets : Seq(Sub), attempt : Nat]
NoCall == [todo |-> <<>>, event |-> 0, targets |-> <<>>, attempt |-> 0]

-----------------------------------------------------------------------------
(* _dispatch *)
Matching(type) == {s \in subs : type \in s.types}
Members(type, g) == {s \in Matching(type) : s.group = g}
GroupsOf(type) == {s.group : s \in Matching(type)} \ {None}

\* The subscription of S that comes after n others, and all of S in their order
Nth(S, n)  == CHOOSE s \in S : Cardinality({t \in S : t.id < s.id}) = n
InOrder(S) == [k \in 1 .. Cardinality(S) |-> Nth(S, k - 1)]

Turn(type, key, g) == rr[<<g, key>>] % Cardinality(Members(type, g))

\* Mutant of Targets: every member of a group is served.
Targets_AllMembers(type, key) == InOrder(Matching(type))

\* Every broadcast, then a member of each group: groups come in the order of
\* their first members.
Targets(type, key) ==
  LET chosen(g) == Nth(Members(type, g), Turn(type, key, g))
      firsts    == InOrder({Nth(Members(type, g), 0) : g \in GroupsOf(type)})
  IN  InOrder(Members(type, None)) \o [k \in DOMAIN firsts |-> chosen(firsts[k].group)]

Rotated(type, key) ==
  [gk \in DOMAIN rr |-> IF gk[2] = key /\ gk[1] \in GroupsOf(type)
                        THEN Turn(type, key, gk[1]) + 1 ELSE rr[gk]]

-----------------------------------------------------------------------------
Init ==
  /\ subs = {} /\ counter = 0
  /\ log = <<>> /\ dlq = <<>>
  /\ rr = [gk \in Group \X PartitionKey |-> 0]
  /\ paused = FALSE
  /\ call = [p \in Publisher |-> NoCall]
  /\ got = [s \in SubId |-> <<>>]
  /\ due = <<>>
  /\ calls = [p \in Publisher |-> 0]
  /\ published = [p \in Publisher |-> 0]

Subscribe(w) ==
  /\ counter < MaxSubs
  /\ counter' = counter + 1
  /\ subs' = subs \cup {[id |-> counter + 1, types |-> w.types, group |-> w.group]}
  /\ UNCHANGED <<log, dlq, rr, paused, call, got, due, calls, published>>

\* The subscription is served no new event; a publish() under way still has it.
Unsubscribe(s) ==
  /\ subs' = subs \ {s}
  /\ UNCHANGED <<counter, log, dlq, rr, paused, call, got, due, calls, published>>

SetPaused(b) ==
  /\ paused # b
  /\ paused' = b
  /\ UNCHANGED <<subs, counter, log, dlq, rr, call, got, due, calls, published>>

-----------------------------------------------------------------------------
(* publish(), and publish_many() with its loop of publish() *)

\* The whole batch is validated before the first of it is accepted.
Publish(p, batch) ==
  /\ call[p] = NoCall
  /\ FoldFunction(+, Len(batch), published) <= MaxPublished
  /\ call' = [call EXCEPT ![p].todo =
       [k \in DOMAIN batch |-> [type |-> batch[k].type, key |-> batch[k].key,
                                by |-> p, nth |-> published[p] + k]]]
  /\ published' = [published EXCEPT ![p] = @ + Len(batch)]
  /\ UNCHANGED <<subs, counter, log, dlq, rr, paused, got, due, calls>>

Serving(p) == call[p].targets # <<>>
Ready(p)   == ~ Serving(p) /\ call[p].todo # <<>>
Full       == Len(log) >= Capacity /\ paused

\* An event without targets left is done, and so is a call without events left.
Remaining(c) == IF c.targets = <<>> THEN [NoCall EXCEPT !.todo = c.todo] ELSE c

\* _dispatch of an event just accepted, unless the bus is paused
Dispatch(p, event, rest) ==
  LET targets == Targets(event.type, event.key) IN
  IF paused
  THEN /\ call' = [call EXCEPT ![p] = [NoCall EXCEPT !.todo = rest]]
       /\ due' = Append(due, {})
       /\ UNCHANGED rr
  ELSE /\ call' = [call EXCEPT ![p] = Remaining([todo |-> rest, event |-> Len(log) + 1,
                                                 targets |-> targets, attempt |-> 0])]
       /\ rr' = Rotated(event.type, event.key)
       /\ due' = Append(due, Matching(event.type))

Accept(p) ==
  /\ Ready(p) /\ ~ Full
  /\ log' = Append(log, Head(call[p].todo))
  /\ Dispatch(p, Head(call[p].todo), Tail(call[p].todo))
  /\ UNCHANGED <<subs, counter, dlq, paused, got, calls, published>>

\* BusBackpressure: what is left of the batch is not published.
Refuse(p) ==
  /\ Ready(p) /\ Full
  /\ call' = [call EXCEPT ![p] = NoCall]
  /\ UNCHANGED <<subs, counter, log, dlq, rr, paused, got, due, calls, published>>

-----------------------------------------------------------------------------
(* _deliver: the handler of the first target is awaited *)

Served(p) ==
  [call EXCEPT ![p] = Remaining([call[p] EXCEPT !.targets = Tail(call[p].targets), !.attempt = 0])]

HandlerReturns(p) ==
  /\ Serving(p)
  /\ got' = [got EXCEPT ![Head(call[p].targets).id] = Append(@, call[p].event)]
  /\ calls' = [calls EXCEPT ![p] = 0]
  /\ call' = Served(p)
  /\ UNCHANGED <<subs, counter, log, dlq, rr, paused, due, published>>

HandlerRaises(p) ==
  /\ Serving(p)
  /\ call[p].attempt + 1 < MaxAttempts
  /\ calls' = [calls EXCEPT ![p] = @ + 1]
  /\ call' = [call EXCEPT ![p].attempt = @ + 1]
  /\ UNCHANGED <<subs, counter, log, dlq, rr, paused, got, due, published>>

\* Mutant of DeadLetter: the handler is retried for ever.
DeadLetter_Never(p) ==
  /\ Serving(p)
  /\ call[p].attempt + 1 >= MaxAttempts
  /\ calls' = [calls EXCEPT ![p] = 0]
  /\ call' = [call EXCEPT ![p].attempt = 0]
  /\ UNCHANGED <<subs, counter, log, dlq, rr, paused, got, due, published>>

DeadLetter(p) ==
  /\ Serving(p)
  /\ call[p].attempt + 1 >= MaxAttempts
  /\ calls' = [calls EXCEPT ![p] = 0]
  /\ dlq' = Append(dlq, [event |-> call[p].event, sub |-> Head(call[p].targets).id,
                         attempts |-> call[p].attempt + 1, calls |-> calls[p] + 1])
  /\ call' = Served(p)
  /\ UNCHANGED <<subs, counter, log, rr, paused, got, due, published>>

-----------------------------------------------------------------------------
Runs(p) ==
  \/ Accept(p) \/ Refuse(p) \/ HandlerReturns(p) \/ HandlerRaises(p) \/ DeadLetter(p)

Next ==
  \/ \E p \in Publisher : Runs(p) \/ \E batch \in Batches : Publish(p, batch)
  \/ \E w \in Wanted : Subscribe(w)
  \/ \E s \in subs : Unsubscribe(s)
  \/ \E b \in BOOLEAN : SetPaused(b)

Spec == Init /\ [][Next]_vars

\* The event loop runs a ready coroutine, and every handler returns or raises.
FairSpec == Spec /\ \A p \in Publisher : WF_vars(Runs(p))

-----------------------------------------------------------------------------
(* Properties *)

(* Type correctness; no two subscriptions, past or present, have one id. *)
TypeOK ==
  /\ subs \subseteq Sub /\ counter \in 0 .. MaxSubs
  /\ \A s, t \in subs \cup UNION {due[e] : e \in DOMAIN due} : s.id = t.id => s = t
  /\ log \in Seq(Logged)
  /\ dlq \in Seq(Dead)
  /\ rr \in [Group \X PartitionKey -> Nat]
  /\ paused \in BOOLEAN
  /\ call \in [Publisher -> Call]
  /\ got \in [SubId -> Seq(Nat)]
  /\ due \in Seq(SUBSET Sub)
  /\ calls \in [Publisher -> Nat]
  /\ published \in [Publisher -> Nat]

Handled(s, e) == e \in ToSet(got[s])
GivenUp(s, e) == \E k \in DOMAIN dlq : dlq[k].event = e /\ dlq[k].sub = s
Settled(s, e) == Handled(s, e) \/ GivenUp(s, e)
UnderWay(e)   == \E p \in Publisher : Serving(p) /\ call[p].event = e

(* FR-3: an event is handled at most once by a subscription, and by at most *)
(* one subscription of a consumer group, however subscriptions come and go. *)
OncePerGroup ==
  /\ \A s \in SubId : IsInjective(got[s])
  /\ \A e \in DOMAIN due : \A s, t \in due[e] :
       s.group = t.group /\ s.group # None /\ Settled(s.id, e) /\ Settled(t.id, e) => s = t

(* FR-4: when an event dispatched (one accepted by a bus that is not        *)
(* paused) is not being delivered any more, each broadcast subscription it  *)
(* matched and a member of each group handled it or had it dead-lettered:   *)
(* a poison handler takes it from nobody else.                              *)
NothingIsDropped ==
  \A e \in DOMAIN log : ~ UnderWay(e) =>
    \A s \in due[e] :
      IF s.group = None THEN Settled(s.id, e)
      ELSE \E t \in due[e] : t.group = s.group /\ Settled(t.id, e)

(* FR-6: a handler is given up after max_attempts failures of its own, no   *)
(* sooner and no later, and never after it handled the event.               *)
DeadLettersAreEarned ==
  /\ \A p \in Publisher : calls[p] < MaxAttempts
  /\ \A k \in DOMAIN dlq :
       /\ dlq[k].calls = MaxAttempts
       /\ ~ Handled(dlq[k].sub, dlq[k].event)

(* FR-5, within one publisher: a subscription handles a publisher's events  *)
(* in the order in which they were published, whatever failed in between.   *)
PublisherOrder ==
  \A s \in SubId : \A i, j \in DOMAIN got[s] :
    LET first == log[got[s][i]]  second == log[got[s][j]] IN
    i < j /\ first.by = second.by => first.nth < second.nth

(* FR-3 to FR-6: what is dispatched is settled exactly once by each         *)
(* broadcast and group, after its own attempts and in its publisher's       *)
(* order, while subscriptions come and go and handlers fail.                *)
DeliveredOnceInOrder ==
  TypeOK /\ OncePerGroup /\ NothingIsDropped /\ DeadLettersAreEarned /\ PublisherOrder

(* FR-5: a subscription handles the events of a partition in the order in   *)
(* which they were accepted.                                                *)
PartitionOrder ==
  \A s \in SubId : \A i, j \in DOMAIN got[s] :
    i < j /\ log[got[s][i]].key = log[got[s][j]].key => got[s][i] < got[s][j]

(* NFR-4: every publish() ends, whatever its handlers do.                   *)
PublishEnds == \A p \in Publisher : call[p] # NoCall ~> call[p] = NoCall
================================================================================
