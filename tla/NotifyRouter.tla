---------------------------- MODULE NotifyRouter ----------------------------
(***************************************************************************)
(* How an insert into event_queue wakes a consumer: pg_notify in the       *)
(* insert trigger, the LISTEN connection (postq/pg/notify.go), the router  *)
(* that spreads its payloads over Go channels (postq/pg/router.go) and the *)
(* select of PGConsumer.Listen (postq/pg_consumer.go).  The table is only  *)
(* the number of events of each name still to be consumed.                 *)
(***************************************************************************)
EXTENDS Integers, Sequences, FiniteSets

CONSTANTS
  Routes,       \* event names, the payload of pg_notify
  Subscribers,  \* consumers, each asking the router for a channel
  RoutesOf,     \* [Subscribers -> SUBSET Routes], what each one asks for
  Size,         \* [Subscribers -> Int], buffer asked for; NoBuffer: GetOrCreateChannel
  NoBuffer,
  MaxDuration,  \* DBReconnectMaxDuration, in ticks
  MaxInserts,   \* bound: events inserted in a behaviour
  MaxLosses     \* bound: connection failures in a behaviour

None == "none"

RouterAssumption ==
  /\ None \notin Subscribers
  /\ RoutesOf \in [Subscribers -> SUBSET Routes]
  /\ NoBuffer = -1
  /\ Size \in [Subscribers -> Nat \union {NoBuffer}]
  /\ MaxDuration \in Nat /\ MaxInserts \in Nat /\ MaxLosses \in Nat
  \* "The caller needs to ensure that the route groups do not overlap."
  /\ \A s, t \in Subscribers :
       RoutesOf[s] = RoutesOf[t] \/ RoutesOf[s] \intersect RoutesOf[t] = {}

VARIABLES
  registry,    \* the channel of each route, named after the subscriber it was made for
  chan,        \* the channel each subscriber reads, None before it subscribes
  signalMode,  \* of the whole router
  buffer,      \* payloads in each channel
  senders,     \* goroutines about to send to each channel
  wire,        \* notifications sent to the LISTEN connection and not yet read
  conn,        \* "connecting", "listening", "backoff" or "dead"
  uptime,      \* time since Listen was called, capped at MaxDuration
  pending,     \* events of each name in the table
  unseen,      \* routes with an event whose notification went to no one
  pc,          \* "off", "waiting", "draining" or "leaving"
  inserts, losses

vars == <<registry, chan, signalMode, buffer, senders, wire, conn, uptime,
          pending, unseen, pc, inserts, losses>>

router == <<registry, chan, signalMode>>
work == <<pending, unseen, inserts>>

Init ==
  /\ registry = [r \in Routes |-> None]
  /\ chan = [s \in Subscribers |-> None]
  /\ signalMode = FALSE
  /\ buffer = [s \in Subscribers |-> 0]
  /\ senders = [s \in Subscribers |-> 0]
  /\ wire = << >>
  /\ conn = "connecting"
  /\ uptime = 0
  /\ pending = [r \in Routes |-> 0]
  /\ unseen = {}
  /\ pc = [s \in Subscribers |-> "off"]
  /\ inserts = 0
  /\ losses = 0

-----------------------------------------------------------------------------
(* The router.                                                             *)

\* "one additional signal in the buffer that represents any further signals"
Capacity(s) == (IF Size[s] = NoBuffer THEN 0 ELSE Size[s]) + 1

\* GetOrCreateChannel, GetOrCreateBufferedChannel and PGConsumer.Listen.  A route
\* that has a channel gives it to all the routes.
Subscribe(s) ==
  LET existing == {registry[r] : r \in RoutesOf[s]} \ {None}
      ch == IF existing = {} THEN s ELSE CHOOSE c \in existing : TRUE
  IN  /\ chan[s] = None
      /\ signalMode' = (signalMode \/ Size[s] # NoBuffer)
      /\ registry' = [r \in Routes |-> IF r \in RoutesOf[s] THEN ch ELSE registry[r]]
      /\ chan' = [chan EXCEPT ![s] = ch]
      /\ pc' = [pc EXCEPT ![s] = "waiting"]
      /\ UNCHANGED <<buffer, senders, wire, conn, uptime, work, losses>>

\* consume: a goroutine per payload, none for a route without a channel.
Dispatch ==
  LET r == Head(wire) IN
  /\ wire # << >>
  /\ wire' = Tail(wire)
  /\ \/ /\ registry[r] # None
        /\ senders' = [senders EXCEPT ![registry[r]] = @ + 1]
        /\ UNCHANGED unseen
     \/ /\ registry[r] = None
        /\ unseen' = unseen \union {r}
        /\ UNCHANGED senders
  /\ UNCHANGED <<router, buffer, conn, uptime, pending, inserts, pc, losses>>

\* Variant: in signal mode a signal that finds its consumer busy is dropped.
SendDropping(s) ==
  /\ senders[s] > 0
  /\ senders' = [senders EXCEPT ![s] = @ - 1]
  /\ \/ ~signalMode /\ buffer[s] < Capacity(s) /\ buffer' = [buffer EXCEPT ![s] = @ + 1]
     \/ signalMode /\ pc[s] # "waiting" /\ UNCHANGED buffer
     \/ signalMode /\ pc[s] = "waiting" /\ buffer' = [buffer EXCEPT ![s] = @ + 1]
  /\ UNCHANGED <<router, wire, conn, uptime, work, pc, losses>>

\* The goroutine: a full channel drops the payload in signal mode and blocks otherwise.
Send(s) ==
  /\ senders[s] > 0
  /\ senders' = [senders EXCEPT ![s] = @ - 1]
  /\ \/ buffer[s] < Capacity(s) /\ buffer' = [buffer EXCEPT ![s] = @ + 1]
     \/ buffer[s] >= Capacity(s) /\ signalMode /\ UNCHANGED buffer
  /\ UNCHANGED <<router, wire, conn, uptime, work, pc, losses>>

-----------------------------------------------------------------------------
(* The LISTEN connection.                                                  *)

\* listenLoop has acquired a connection and executed LISTEN.
Connect ==
  /\ conn = "connecting"
  /\ conn' = "listening"
  /\ UNCHANGED <<router, buffer, senders, wire, uptime, work, pc, losses>>

\* listenLoop returns an error: what was on the wire is lost.  The backoff gives up
\* when MaxDuration has passed since Listen was called.
LoseConnection ==
  /\ conn \in {"connecting", "listening"}
  /\ losses < MaxLosses
  /\ losses' = losses + 1
  /\ conn' = IF uptime >= MaxDuration THEN "dead" ELSE "backoff"
  /\ wire' = << >>
  /\ unseen' = unseen \union {wire[i] : i \in DOMAIN wire}
  /\ UNCHANGED <<router, buffer, senders, uptime, pending, inserts, pc>>

\* retry.Do calls listenLoop again.
Reconnect ==
  /\ conn = "backoff"
  /\ conn' = "connecting"
  /\ UNCHANGED <<router, buffer, senders, wire, uptime, work, pc, losses>>

Tick ==
  /\ uptime < MaxDuration
  /\ uptime' = uptime + 1
  /\ UNCHANGED <<router, buffer, senders, wire, conn, work, pc, losses>>

-----------------------------------------------------------------------------
(* Producers and consumers.                                                *)

\* The insert commits, and with it the trigger's pg_notify.
Insert(r) ==
  /\ inserts < MaxInserts /\ inserts' = inserts + 1
  /\ pending' = [pending EXCEPT ![r] = @ + 1]
  /\ \/ conn = "listening" /\ wire' = Append(wire, r) /\ UNCHANGED unseen
     \/ conn # "listening" /\ unseen' = unseen \union {r} /\ UNCHANGED wire
  /\ UNCHANGED <<router, buffer, senders, conn, uptime, pc, losses>>

\* case <-pgNotify
Receive(s) ==
  /\ pc[s] = "waiting"
  /\ buffer[chan[s]] > 0
  /\ buffer' = [buffer EXCEPT ![chan[s]] = @ - 1]
  /\ pc' = [pc EXCEPT ![s] = "draining"]
  /\ UNCHANGED <<router, senders, wire, conn, uptime, work, losses>>

\* Variant: only a notification leads to a fetch.
TimeoutIdle(s) ==
  /\ pc[s] = "waiting"
  /\ pc' = [pc EXCEPT ![s] = "leaving"]
  /\ UNCHANGED <<router, buffer, senders, wire, conn, uptime, work, losses>>

\* case <-time.After(pgNotifyTimeout)
Timeout(s) ==
  /\ pc[s] = "waiting"
  /\ pc' = [pc EXCEPT ![s] = "draining"]
  /\ UNCHANGED <<router, buffer, senders, wire, conn, uptime, work, losses>>

Todo(s) == {r \in RoutesOf[s] : pending[r] > 0}

\* ConsumeUntilEmpty: an event, or the fetch that finds none.
Consume(s) ==
  /\ pc[s] = "draining"
  /\ \/ \E r \in Todo(s) :
          /\ pending' = [pending EXCEPT ![r] = @ - 1]
          /\ UNCHANGED <<unseen, pc>>
     \/ /\ Todo(s) = {}
        /\ pc' = [pc EXCEPT ![s] = "leaving"]
        /\ unseen' = unseen \ RoutesOf[s]
        /\ UNCHANGED pending
  /\ UNCHANGED <<router, buffer, senders, wire, conn, uptime, inserts, losses>>

\* Back in the select: events may have been inserted since the last fetch.
Return(s) ==
  /\ pc[s] = "leaving"
  /\ pc' = [pc EXCEPT ![s] = "waiting"]
  /\ UNCHANGED <<router, buffer, senders, wire, conn, uptime, work, losses>>

-----------------------------------------------------------------------------
Next ==
  \/ \E s \in Subscribers :
       Subscribe(s) \/ Send(s) \/ Receive(s) \/ Timeout(s) \/ Consume(s) \/ Return(s)
  \/ \E r \in Routes : Insert(r)
  \/ Dispatch \/ Connect \/ LoseConnection \/ Reconnect \/ Tick

Spec == Init /\ [][Next]_vars

\* The goroutines run, timers fire, the database accepts connections again and
\* consumers start.
FairSpec ==
  /\ Spec
  /\ WF_vars(Dispatch) /\ WF_vars(Connect) /\ WF_vars(Reconnect)
  /\ \A s \in Subscribers :
       /\ WF_vars(Subscribe(s)) /\ WF_vars(Send(s)) /\ WF_vars(Receive(s))
       /\ WF_vars(Timeout(s)) /\ WF_vars(Consume(s)) /\ WF_vars(Return(s))

-----------------------------------------------------------------------------
(* Properties.                                                             *)

\* The types of the variables: no receive takes from a channel what is not in it.
TypeOK ==
  /\ registry \in [Routes -> Subscribers \union {None}]
  /\ chan \in [Subscribers -> Subscribers \union {None}]
  /\ signalMode \in BOOLEAN
  /\ buffer \in [Subscribers -> Nat] /\ senders \in [Subscribers -> Nat]
  /\ wire \in Seq(Routes)
  /\ conn \in {"connecting", "listening", "backoff", "dead"}
  /\ uptime \in 0 .. MaxDuration
  /\ pending \in [Routes -> Nat] /\ unseen \subseteq Routes
  /\ pc \in [Subscribers -> {"off", "waiting", "draining", "leaving"}]
  /\ inserts \in 0 .. MaxInserts /\ losses \in 0 .. MaxLosses

\* The consumers of a route.
ConsumersOf(r) == {s \in Subscribers : r \in RoutesOf[s] /\ chan[s] # None}

\* getOrCreateChannel: a group of routes has one channel, that of its first subscriber,
\* and each consumer reads the channel of its routes.
Registered ==
  /\ \A s \in Subscribers :
       /\ pc[s] = "off" <=> chan[s] = None
       /\ chan[s] # None => /\ RoutesOf[chan[s]] = RoutesOf[s]
                            /\ \A r \in RoutesOf[s] : registry[r] = chan[s]
  /\ \A r \in Routes : registry[r] # None =>
       r \in RoutesOf[registry[r]] /\ \A q \in RoutesOf[registry[r]] : registry[q] = registry[r]

\* consume, in signal mode and out of it: squashing drops no wake-up.  While no consumer
\* of a route is fetching and an event of theirs was announced, a signal is still on its
\* way to the channel they read.
WakeupsKept ==
  \A r \in Routes :
    pending[r] > 0 /\ r \notin unseen /\ (\A s \in ConsumersOf(r) : pc[s] # "draining") =>
      \/ \E i \in DOMAIN wire : wire[i] = r
      \/ registry[r] # None /\ senders[registry[r]] + buffer[registry[r]] > 0

\* WakeupsKept with what it rests on, the types and the registry.
NoLostWakeup == TypeOK /\ Registered /\ WakeupsKept

\* PGConsumer.Listen: events are consumed even when their notification was lost or
\* the listener has given up.
EventsConsumed == \A r \in Routes : pending[r] > 0 ~> pending[r] = 0
=============================================================================
