------------------------------- MODULE RedisBus -------------------------------
(***************************************************************************)
(* RedisStreamsEventBus (events/redis_bus.py).  Publishers append to one   *)
(* stream; poll() of each process reads it for each of its subscriptions   *)
(* through a consumer group, whose state is in Redis and outlives the      *)
(* process.  An event is its place in the stream.                          *)
(***************************************************************************)
EXTENDS Naturals, Sequences, FiniteSets, SequencesExt

CONSTANTS
  Process,      \* processes that share the Redis server
  Type,         \* event_type
  Group,        \* names given to subscribe(group=...)
  None,         \* group of a broadcast subscription
  Program,      \* what each process subscribes to once started: a sequence of [types, group]
  Batches,      \* what is published: sequences of types, each one transaction
  Count,        \* count of poll()
  MaxAttempts,  \* max_attempts
  MaxPublished, \* bound: length of the stream
  MaxFaults     \* bound: restarts of a process and polls that raise

ASSUME RedisBusAssumption ==
  /\ None \notin Group
  /\ Program \in [Process -> Seq([types : SUBSET Type, group : Group \cup {None}])]
  /\ Batches \subseteq Seq(Type)
  /\ Count \in Nat \ {0} /\ MaxAttempts \in Nat \ {0}
  /\ MaxPublished \in Nat /\ MaxFaults \in Nat

VARIABLES
  stream,  \* STREAM: the type of each event
  groups,  \* the consumer groups in Redis: last id delivered and entries not yet acked
  subs,    \* _subs of each process in the order of subscription
  counter, \* _counter of each process
  poll,    \* the poll() each process is in
  faults,  \* counter of the bound
  fate     \* history: what became of each event read, by group and reader

redisVars == <<stream, groups, subs, counter, poll, faults, fate>>

\* "broadcast_{counter}" is a pair, so that no name in Group is equal to it
Broadcast == {None} \X UNION {DOMAIN Program[p] : p \in Process}
GroupName == (Group \X {0}) \cup Broadcast
EventId   == 1 .. MaxPublished

Absent == [exists |-> FALSE, last |-> 0, pending |-> {}]

\* todo: subscriptions still to poll; batch: events read for the first of them,
\* whose handler has raised attempt times for the first of these
NotPolling == [todo |-> <<>>, batch |-> <<>>, attempt |-> 0]

RedisInit ==
  /\ stream = <<>>
  /\ groups = [g \in GroupName |-> Absent]
  /\ subs = [p \in Process |-> <<>>]
  /\ counter = [p \in Process |-> 0]
  /\ poll = [p \in Process |-> NotPolling]
  /\ faults = 0
  /\ fate = {}

-----------------------------------------------------------------------------
(* publish() is a batch of one; publish_many() is one MULTI/EXEC           *)
Publish(batch) ==
  /\ Len(stream) + Len(batch) <= MaxPublished
  /\ stream' = stream \o batch
  /\ UNCHANGED <<groups, subs, counter, poll, faults, fate>>

NameFor(p, w) == IF w.group = None THEN <<None, counter[p] + 1>> ELSE <<w.group, 0>>

\* XGROUP CREATE at id 0; BUSYGROUP: the group goes on where it is.
Joined(g) == IF groups[g].exists THEN groups[g] ELSE [Absent EXCEPT !.exists = TRUE]

Subscribe(p) ==
  /\ counter[p] < Len(Program[p])
  /\ LET w == Program[p][counter[p] + 1]
         g == NameFor(p, w)
     IN  /\ groups' = [groups EXCEPT ![g] = Joined(g)]
         /\ subs' = [subs EXCEPT ![p] =
                       Append(subs[p], [id |-> counter[p] + 1, types |-> w.types, group |-> g])]
  /\ counter' = [counter EXCEPT ![p] = @ + 1]
  /\ UNCHANGED <<stream, poll, faults, fate>>

\* The group stays in Redis; a poll() under way still has the subscription.
Unsubscribe(p, k) ==
  /\ subs' = [subs EXCEPT ![p] = RemoveAt(subs[p], k)]
  /\ UNCHANGED <<stream, groups, counter, poll, faults, fate>>

-----------------------------------------------------------------------------
(* poll()                                                                  *)
Polling(p) == poll[p].todo # <<>>
Sub(p)     == Head(poll[p].todo)
Event(p)   == Head(poll[p].batch)

PollBegins(p) ==
  /\ ~ Polling(p) /\ subs[p] # <<>>
  /\ poll' = [poll EXCEPT ![p].todo = subs[p]]
  /\ UNCHANGED <<stream, groups, subs, counter, faults, fate>>

Upto(from) == IF Len(stream) < from + Count THEN Len(stream) ELSE from + Count

\* A delivery of none ends the turn of the subscription.
Takes(p, from, until) ==
  poll' = [poll EXCEPT ![p] = [todo    |-> IF until = from THEN Tail(poll[p].todo) ELSE poll[p].todo,
                               batch   |-> [k \in 1 .. until - from |-> from + k],
                               attempt |-> 0]]

\* Mutant of Reads: XREADGROUP with NOACK.
Reads_NoAck(p) ==
  /\ Polling(p) /\ poll[p].batch = <<>>
  /\ LET g    == Sub(p).group
         from == groups[g].last
     IN  /\ groups' = [groups EXCEPT ![g].last = Upto(from)]
         /\ Takes(p, from, Upto(from))
  /\ UNCHANGED <<stream, subs, counter, faults, fate>>

\* XREADGROUP ">": up to Count events the group has not delivered to anybody
Reads(p) ==
  /\ Polling(p) /\ poll[p].batch = <<>>
  /\ LET g    == Sub(p).group
         from == groups[g].last
     IN  /\ groups' = [groups EXCEPT ![g] =
                         [exists  |-> TRUE, last |-> Upto(from),
                          pending |-> groups[g].pending \cup (from + 1 .. Upto(from))]]
         /\ Takes(p, from, Upto(from))
  /\ UNCHANGED <<stream, subs, counter, faults, fate>>

Matches(p) == stream[Event(p)] \in Sub(p).types

\* XACK, and on to the next event or subscription
Acks(p) ==
  /\ groups' = [groups EXCEPT ![Sub(p).group].pending = @ \ {Event(p)}]
  /\ poll' = [poll EXCEPT ![p] =
       [todo    |-> IF Len(poll[p].batch) = 1 THEN Tail(poll[p].todo) ELSE poll[p].todo,
        batch   |-> Tail(poll[p].batch),
        attempt |-> 0]]

Fate(p, what) == [group |-> Sub(p).group, event |-> Event(p), by |-> p, what |-> what]

Settles(p, what) ==
  /\ fate' = fate \cup {Fate(p, what)}
  /\ Acks(p)
  /\ UNCHANGED <<stream, subs, counter, faults>>

Skips(p) == /\ Polling(p) /\ poll[p].batch # <<>> /\ ~ Matches(p)
            /\ Settles(p, "skipped")

Serving(p) == Polling(p) /\ poll[p].batch # <<>> /\ Matches(p)

HandlerReturns(p) == Serving(p) /\ Settles(p, "handled")

\* Mutant of HandlerRaises: the event goes to the end of the batch.
HandlerRaises_Requeues(p) ==
  /\ Serving(p) /\ poll[p].attempt + 1 < MaxAttempts
  /\ poll' = [poll EXCEPT ![p].attempt = @ + 1, ![p].batch = Append(Tail(@), Event(p))]
  /\ UNCHANGED <<stream, groups, subs, counter, faults, fate>>

\* _deliver calls the handler again at once, up to max_attempts times
HandlerRaises(p) ==
  /\ Serving(p) /\ poll[p].attempt + 1 < MaxAttempts
  /\ poll' = [poll EXCEPT ![p].attempt = @ + 1]
  /\ UNCHANGED <<stream, groups, subs, counter, faults, fate>>

\* Mutant of DeadLetters: the handler is called again for ever.
DeadLetters_Never(p) ==
  /\ Serving(p) /\ poll[p].attempt + 1 >= MaxAttempts
  /\ poll' = [poll EXCEPT ![p].attempt = 0]
  /\ UNCHANGED <<stream, groups, subs, counter, faults, fate>>

DeadLetters(p) ==
  /\ Serving(p) /\ poll[p].attempt + 1 >= MaxAttempts
  /\ Settles(p, "dead")

-----------------------------------------------------------------------------
(* Faults.  Nothing reads the entries left pending: XREADGROUP is only     *)
(* called with ">", and there is no XAUTOCLAIM.                            *)
Faulty == faults < MaxFaults /\ faults' = faults + 1

\* poll() raises or is cancelled: the events it has not acked stay pending.
PollRaises(p) ==
  /\ Polling(p) /\ Faulty
  /\ poll' = [poll EXCEPT ![p] = NotPolling]
  /\ UNCHANGED <<stream, groups, subs, counter, fate>>

\* The connection is lost between the handler and XACK.
AckFails(p) ==
  /\ Serving(p) /\ Faulty
  /\ fate' = fate \cup {Fate(p, "handled")}
  /\ poll' = [poll EXCEPT ![p] = NotPolling]
  /\ UNCHANGED <<stream, groups, subs, counter>>

ProcessRestarts(p) ==
  /\ counter[p] > 0 /\ Faulty
  /\ subs' = [subs EXCEPT ![p] = <<>>]
  /\ counter' = [counter EXCEPT ![p] = 0]
  /\ poll' = [poll EXCEPT ![p] = NotPolling]
  /\ UNCHANGED <<stream, groups, fate>>

-----------------------------------------------------------------------------
PollStep(p) ==
  \/ PollBegins(p) \/ Reads(p) \/ Skips(p)
  \/ HandlerReturns(p) \/ HandlerRaises(p) \/ DeadLetters(p)

RedisNext ==
  \/ \E batch \in Batches : Publish(batch)
  \/ \E p \in Process :
       \/ Subscribe(p)
       \/ \E k \in DOMAIN subs[p] : Unsubscribe(p, k)
       \/ PollStep(p)
       \/ PollRaises(p) \/ AckFails(p) \/ ProcessRestarts(p)

\* The process calls poll() again and again, and its handlers end.
RedisSpec == RedisInit /\ [][RedisNext]_redisVars /\ \A p \in Process : WF_redisVars(PollStep(p))

-----------------------------------------------------------------------------
Unsettled(g, i) == \A f \in fate : ~ (f.group = g /\ f.event = i)

Held(p) == IF Polling(p) THEN {poll[p].batch[k] : k \in DOMAIN poll[p].batch} ELSE {}

(* What a group has delivered is accounted for, at every moment and across *)
(* restarts: it was handled, dead-lettered or did not match, or it is      *)
(* still pending in Redis; without a fault, it is then in the hands of one *)
(* process (FR-4: nothing accepted is dropped silently).                   *)
EveryReadIsAccounted ==
  \A g \in GroupName : \A i \in 1 .. groups[g].last :
    Unsettled(g, i) => /\ i \in groups[g].pending
                       /\ faults = 0 => \E p \in Process : Polling(p) /\ Sub(p).group = g /\ i \in Held(p)

(* No event is delivered twice through one group, whichever of its members *)
(* polls, subscribes again or restarts (FR-3: once per consumer group).    *)
OncePerGroup ==
  \A f1, f2 \in fate : (f1.group = f2.group /\ f1.event = f2.event) => f1 = f2

(* Every group has each event it read once, and accounts for it.           *)
ReadsAreSound == EveryReadIsAccounted /\ OncePerGroup

(* A process hands the events of a group to a handler in stream order, its *)
(* retries included, so a partition key keeps its order within the process *)
(* (FR-5): nothing it still holds comes before what it has settled.        *)
ReadInOrder ==
  \A p \in Process : \A i \in Held(p) : \A f \in fate :
    f.by = p /\ f.group = Sub(p).group => f.event < i

(* A poisoned handler does not block the stream: an event published is     *)
(* read by every group that keeps a subscriber, and then settled, unless a *)
(* fault left it pending (FR-6, NFR-4).                                    *)
Served(g)     == \E p \in Process : \E k \in DOMAIN subs[p] : subs[p][k].group = g
StreamMovesOn ==
  \A g \in GroupName : \A i \in EventId :
    <>[](i <= Len(stream) /\ Served(g)) =>
      <>(groups[g].last >= i /\ (faults > 0 \/ ~ Unsettled(g, i)))

(* The docstring of redis_bus.py: "Broadcast subscribers each get a private *)
(* consumer group".  What one process reads as a broadcast is then no loss  *)
(* to a subscriber of another (FR-3).                                       *)
BroadcastsArePrivate ==
  \A p \in Process : (Polling(p) /\ Sub(p).group \in Broadcast /\ Held(p) # {}) =>
    \A q \in Process \ {p} : \A k \in DOMAIN subs[q] : subs[q][k].group # Sub(p).group
=============================================================================
