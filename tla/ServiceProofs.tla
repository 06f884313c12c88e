---------------------------- MODULE ServiceProofs ----------------------------
(***************************************************************************)
(* The theorems about NotifyRouter and Leadership: for any routes,         *)
(* subscribers and buffers, a wake-up of consumers who do not fetch is     *)
(* never lost, squashed or not; for any number of replicas, terms and      *)
(* faults, one replica runs the crons, but for the late.                   *)
(***************************************************************************)
EXTENDS MCService, FiniteSetTheorems, SequenceTheorems, TLAPS

-----------------------------------------------------------------------------
(* Wake-ups.                                                               *)

\* The inductive invariant.
RoutingInv == TypeOK /\ Registered /\ WakeupsKept

\* A signal for r is on its way.
Announced(r) ==
  \/ \E i \in DOMAIN wire : wire[i] = r
  \/ registry[r] # None /\ senders[registry[r]] + buffer[registry[r]] > 0

\* An event of r that was announced waits for its consumers.
Waits(r) ==
  pending[r] > 0 /\ r \notin unseen /\ \A s \in ConsumersOf(r) : pc[s] # "draining"

LEMMA Wakeup == WakeupsKept <=> \A r \in Routes : Waits(r) => Announced(r)
  BY DEF WakeupsKept, Waits, Announced

LEMMA RoutingInit == RouterAssumption /\ Init => RoutingInv
  <1> SUFFICES ASSUME RouterAssumption, Init PROVE RoutingInv
    OBVIOUS
  <1>1. TypeOK
    <2>1. MaxDuration \in Nat /\ MaxInserts \in Nat /\ MaxLosses \in Nat
      BY DEF RouterAssumption
    <2>2. << >> \in Seq(Routes)
      BY EmptySeq
    <2>3. /\ registry \in [Routes -> Subscribers \union {None}]
          /\ chan \in [Subscribers -> Subscribers \union {None}]
          /\ buffer \in [Subscribers -> Nat] /\ senders \in [Subscribers -> Nat]
          /\ pending \in [Routes -> Nat]
          /\ pc \in [Subscribers -> {"off", "waiting", "draining", "leaving"}]
      BY DEF Init
    <2>4. uptime \in 0 .. MaxDuration /\ inserts \in 0 .. MaxInserts /\ losses \in 0 .. MaxLosses
      BY <2>1 DEF Init
    <2> QED
      BY <2>2, <2>3, <2>4 DEF Init, TypeOK
  <1>2. Registered /\ WakeupsKept
    BY DEF Init, Registered, WakeupsKept
  <1> QED
    BY <1>1, <1>2 DEF RoutingInv

-----------------------------------------------------------------------------
(* The router.                                                             *)

(* A group that has a channel keeps it; one that has none gets the         *)
(* subscriber's.                                                           *)
LEMMA Subscribed ==
  ASSUME RouterAssumption, TypeOK, Registered, NEW s \in Subscribers, Subscribe(s)
  PROVE  \E ch \in Subscribers :
           /\ chan' = [chan EXCEPT ![s] = ch] /\ RoutesOf[ch] = RoutesOf[s]
           /\ registry' = [r \in Routes |-> IF r \in RoutesOf[s] THEN ch ELSE registry[r]]
           /\ \A r \in RoutesOf[s] : registry[r] \in {ch, None}
           /\ (\E r \in RoutesOf[s] : registry[r] # None) => registry' = registry
  <1> DEFINE existing == {registry[r] : r \in RoutesOf[s]} \ {None}
             ch == IF existing = {} THEN s ELSE CHOOSE c \in existing : TRUE
  <1>1. /\ chan' = [chan EXCEPT ![s] = ch]
        /\ registry' = [r \in Routes |-> IF r \in RoutesOf[s] THEN ch ELSE registry[r]]
    BY DEF Subscribe
  <1>2. RoutesOf[s] \subseteq Routes
    BY DEF RouterAssumption
  <1>3. CASE existing = {}
    <2>1. ch = s /\ \A r \in RoutesOf[s] : registry[r] = None
      BY <1>3
    <2> QED
      BY <1>1, <2>1
  <1>4. CASE existing # {}
    <2>1. ch \in existing
      BY <1>4
    <2>2. PICK q \in RoutesOf[s] : registry[q] = ch /\ ch # None
      BY <2>1
    <2>3. ch \in Subscribers /\ q \in RoutesOf[ch] /\ \A r \in RoutesOf[ch] : registry[r] = ch
      <3>1. q \in Routes /\ registry[q] \in Subscribers
        BY <1>2, <2>2 DEF TypeOK
      <3> HIDE DEF ch, existing
      <3> QED
        BY <2>2, <3>1 DEF Registered
    <2>4. RoutesOf[ch] = RoutesOf[s]
      BY <2>2, <2>3 DEF RouterAssumption
    <2>5. registry' = registry
      BY <1>1, <1>2, <2>3, <2>4 DEF TypeOK
    <2> QED
      BY <1>1, <2>3, <2>4, <2>5
  <1> QED
    BY <1>3, <1>4

LEMMA SubscribeInv ==
  ASSUME RouterAssumption, RoutingInv, NEW s \in Subscribers, Subscribe(s)
  PROVE  RoutingInv'
  <1>1. TypeOK /\ Registered /\ WakeupsKept /\ RoutesOf \in [Subscribers -> SUBSET Routes]
        /\ None \notin Subscribers
    BY DEF RoutingInv, RouterAssumption
  <1>2. PICK ch \in Subscribers :
           /\ chan' = [chan EXCEPT ![s] = ch] /\ RoutesOf[ch] = RoutesOf[s]
           /\ registry' = [r \in Routes |-> IF r \in RoutesOf[s] THEN ch ELSE registry[r]]
           /\ \A r \in RoutesOf[s] : registry[r] \in {ch, None}
           /\ (\E r \in RoutesOf[s] : registry[r] # None) => registry' = registry
    BY <1>1, Subscribed
  <1>3. /\ chan[s] = None /\ pc' = [pc EXCEPT ![s] = "waiting"] /\ signalMode' \in BOOLEAN
        /\ UNCHANGED <<buffer, senders, wire, conn, uptime, pending, unseen, inserts, losses>>
    BY <1>1 DEF Subscribe, TypeOK, work
  <1>4. TypeOK'
    BY <1>1, <1>2, <1>3 DEF TypeOK
  <1>5. ASSUME NEW t \in Subscribers
        PROVE  /\ pc'[t] = "off" <=> chan'[t] = None
               /\ chan'[t] # None => /\ RoutesOf[chan'[t]] = RoutesOf[t]
                                     /\ \A r \in RoutesOf[t] : registry'[r] = chan'[t]
    <2>1. CASE t = s
      BY <1>1, <1>2, <1>3, <2>1 DEF TypeOK
    <2>2. CASE t # s
      <3>1. pc'[t] = pc[t] /\ chan'[t] = chan[t]
        BY <1>1, <1>2, <1>3, <2>2 DEF TypeOK
      <3>2. /\ pc[t] = "off" <=> chan[t] = None
            /\ chan[t] # None => /\ RoutesOf[chan[t]] = RoutesOf[t]
                                 /\ \A r \in RoutesOf[t] : registry[r] = chan[t]
        BY <1>1 DEF Registered
      <3>3. ASSUME chan[t] # None, NEW r \in RoutesOf[t]
            PROVE  registry'[r] = chan[t]
        BY <1>1, <1>2, <3>2, <3>3
      <3> QED
        BY <3>1, <3>2, <3>3
    <2> QED
      BY <2>1, <2>2
  <1>6. ASSUME NEW r \in Routes, registry'[r] # None
        PROVE  /\ r \in RoutesOf[registry'[r]]
               /\ \A q \in RoutesOf[registry'[r]] : registry'[q] = registry'[r]
    <2>1. CASE r \in RoutesOf[s]
      BY <1>1, <1>2, <2>1
    <2>2. CASE r \notin RoutesOf[s]
      <3>1. registry'[r] = registry[r] /\ registry[r] \in Subscribers
        BY <1>1, <1>2, <1>6, <2>2 DEF TypeOK
      <3>2. /\ r \in RoutesOf[registry[r]]
            /\ \A q \in RoutesOf[registry[r]] : registry[q] = registry[r]
        BY <1>1, <1>6, <3>1 DEF Registered
      <3>3. RoutesOf[registry[r]] \intersect RoutesOf[s] = {}
        BY <2>2, <3>1, <3>2 DEF RouterAssumption
      <3> QED
        BY <1>1, <1>2, <3>1, <3>2, <3>3
    <2> QED
      BY <2>1, <2>2
  <1>7. Registered'
    BY <1>5, <1>6 DEF Registered
  <1>8. ASSUME NEW r \in Routes, Waits(r)'
        PROVE  Announced(r)'
    <2>1. \A t \in ConsumersOf(r) : t \in ConsumersOf(r)' /\ pc'[t] = pc[t]
      BY <1>1, <1>2, <1>3 DEF ConsumersOf, TypeOK
    <2>2. Waits(r)
      BY <1>3, <1>8, <2>1 DEF Waits
    <2>3. Announced(r)
      BY <1>1, <2>2, Wakeup
    <2>4. registry[r] # None => registry'[r] = registry[r]
      BY <1>1, <1>2
    <2> QED
      BY <1>3, <2>3, <2>4 DEF Announced
  <1>9. WakeupsKept'
    BY <1>8 DEF WakeupsKept, Waits, Announced
  <1> QED
    BY <1>4, <1>7, <1>9 DEF RoutingInv

(* A payload that leaves the wire is on its way, or has no channel.        *)
LEMMA DispatchInv ==
  ASSUME RoutingInv, Dispatch
  PROVE  RoutingInv'
  <1>1. TypeOK /\ Registered /\ WakeupsKept
    BY DEF RoutingInv
  <1>2. /\ wire \in Seq(Routes) /\ wire # << >> /\ Head(wire) \in Routes
        /\ Tail(wire) \in Seq(Routes) /\ wire' = Tail(wire)
    BY <1>1, HeadTailProperties DEF Dispatch, TypeOK
  <1> DEFINE h == Head(wire)
  <1>3. UNCHANGED <<registry, chan, signalMode, buffer, conn, uptime, pending, inserts, pc, losses>>
    BY DEF Dispatch, router
  <1>4. \/ /\ registry[h] # None /\ unseen' = unseen
           /\ senders' = [senders EXCEPT ![registry[h]] = @ + 1]
        \/ registry[h] = None /\ unseen' = unseen \union {h} /\ senders' = senders
    BY DEF Dispatch
  <1>5. \A i \in DOMAIN wire : wire[i] = h \/ \E j \in DOMAIN Tail(wire) : Tail(wire)[j] = wire[i]
    <2>1. /\ Len(wire) \in Nat /\ DOMAIN wire = 1 .. Len(wire) /\ h = wire[1]
          /\ Len(Tail(wire)) = Len(wire) - 1 /\ DOMAIN Tail(wire) = 1 .. Len(Tail(wire))
          /\ \A i \in 1 .. Len(Tail(wire)) : Tail(wire)[i] = wire[i + 1]
      BY <1>2, HeadTailProperties, LenProperties
    <2>2. ASSUME NEW i \in DOMAIN wire, i # 1
          PROVE  i - 1 \in DOMAIN Tail(wire) /\ Tail(wire)[i - 1] = wire[i]
      BY <2>1, <2>2
    <2> QED
      BY <2>1, <2>2
  <1> HIDE DEF h
  <1>6. TypeOK'
    <2>1. senders' \in [Subscribers -> Nat] /\ unseen' \subseteq Routes
      <3>1. h \in Routes /\ registry[h] \in Subscribers \union {None}
        BY <1>1, <1>2 DEF TypeOK, h
      <3>2. senders \in [Subscribers -> Nat] /\ unseen \subseteq Routes
        BY <1>1 DEF TypeOK
      <3>3. CASE registry[h] # None /\ unseen' = unseen
                 /\ senders' = [senders EXCEPT ![registry[h]] = @ + 1]
        BY <3>1, <3>2, <3>3
      <3>4. CASE registry[h] = None /\ unseen' = unseen \union {h} /\ senders' = senders
        BY <3>1, <3>2, <3>4
      <3> QED
        BY <1>4, <3>3, <3>4
    <2> QED
      BY <1>1, <1>2, <1>3, <2>1 DEF TypeOK
  <1>7. Registered'
    BY <1>1, <1>3 DEF Registered
  <1>8. ASSUME NEW r \in Routes, Waits(r)'
        PROVE  Announced(r)'
    <2>1. Waits(r)
      BY <1>3, <1>4, <1>8 DEF Waits, ConsumersOf
    <2>2. Announced(r)
      BY <1>1, <2>1, Wakeup
    <2>3. CASE \E i \in DOMAIN wire : wire[i] = r
      <3>1. CASE r = h
        <4>1. registry[h] # None /\ senders' = [senders EXCEPT ![registry[h]] = @ + 1]
          BY <1>4, <1>8, <3>1 DEF Waits
        <4>2. registry[h] \in Subscribers
          BY <1>1, <3>1, <4>1 DEF TypeOK
        <4> QED
          BY <1>1, <1>3, <3>1, <4>1, <4>2 DEF Announced, TypeOK
      <3>2. CASE r # h
        BY <1>2, <1>5, <2>3, <3>2 DEF Announced
      <3> QED
        BY <3>1, <3>2
    <2>4. CASE registry[r] # None /\ senders[registry[r]] + buffer[registry[r]] > 0
      <3>1. registry[r] \in Subscribers
        BY <1>1, <2>4 DEF TypeOK
      <3>2. \A s \in Subscribers : senders[s] \in Nat /\ buffer[s] \in Nat
        BY <1>1 DEF TypeOK
      <3>3. \A s \in Subscribers : senders'[s] = senders[s] \/ senders'[s] = senders[s] + 1
        <4>1. senders \in [Subscribers -> Nat]
          BY <1>1 DEF TypeOK
        <4> QED
          BY <1>4, <4>1
      <3>4. senders'[registry[r]] + buffer[registry[r]] > 0
        BY <2>4, <3>1, <3>2, <3>3
      <3> QED
        BY <1>3, <2>4, <3>4 DEF Announced
    <2> QED
      BY <2>2, <2>3, <2>4 DEF Announced
  <1>9. WakeupsKept'
    BY <1>8 DEF WakeupsKept, Waits, Announced
  <1> QED
    BY <1>6, <1>7, <1>9 DEF RoutingInv

(* A full channel has a signal already: what is dropped is not needed.     *)
LEMMA SendInv ==
  ASSUME RouterAssumption, RoutingInv, NEW s \in Subscribers, Send(s)
  PROVE  RoutingInv'
  <1>1. TypeOK /\ Registered /\ WakeupsKept
    BY DEF RoutingInv
  <1>2. /\ senders[s] > 0 /\ senders' = [senders EXCEPT ![s] = @ - 1]
        /\ \/ buffer' = [buffer EXCEPT ![s] = @ + 1]
           \/ buffer[s] >= Capacity(s) /\ buffer' = buffer
        /\ UNCHANGED <<registry, chan, signalMode, wire, conn, uptime, pending, unseen, inserts, pc, losses>>
    BY DEF Send, router, work
  <1>3. Capacity(s) \in Nat /\ Capacity(s) > 0
    <2>1. Size[s] \in Nat \union {NoBuffer} /\ NoBuffer = -1
      BY DEF RouterAssumption
    <2> QED
      BY <2>1 DEF Capacity
  <1>4. \A t \in Subscribers : /\ senders[t] \in Nat /\ senders'[t] \in Nat
                               /\ buffer[t] \in Nat /\ buffer'[t] \in Nat
                               /\ senders[t] + buffer[t] > 0 => senders'[t] + buffer'[t] > 0
    <2>1. senders \in [Subscribers -> Nat] /\ buffer \in [Subscribers -> Nat]
      BY <1>1 DEF TypeOK
    <2>2. ASSUME NEW t \in Subscribers, t # s
          PROVE  senders'[t] = senders[t] /\ buffer'[t] = buffer[t]
      BY <1>2, <2>1, <2>2
    <2>3. senders'[s] = senders[s] - 1 /\ senders'[s] \in Nat
      BY <1>2, <2>1
    <2>4. buffer'[s] = buffer[s] + 1 \/ (buffer'[s] = buffer[s] /\ buffer[s] >= Capacity(s))
      BY <1>2, <2>1
    <2> QED
      BY <1>3, <2>1, <2>2, <2>3, <2>4
  <1>5. TypeOK'
    BY <1>1, <1>2 DEF TypeOK
  <1>6. Registered'
    BY <1>1, <1>2 DEF Registered
  <1>7. ASSUME NEW r \in Routes, Waits(r)'
        PROVE  Announced(r)'
    <2>1. Waits(r)
      BY <1>2, <1>7 DEF Waits, ConsumersOf
    <2>2. Announced(r)
      BY <1>1, <2>1, Wakeup
    <2>3. registry[r] # None => registry[r] \in Subscribers
      BY <1>1 DEF TypeOK
    <2> QED
      BY <1>2, <1>4, <2>2, <2>3 DEF Announced
  <1>8. WakeupsKept'
    BY <1>7 DEF WakeupsKept, Waits, Announced
  <1> QED
    BY <1>5, <1>6, <1>8 DEF RoutingInv

-----------------------------------------------------------------------------
(* The LISTEN connection and the producers.                                *)

(* What a lost connection had on the wire is unseen.                       *)
LEMMA ConnectionInv ==
  ASSUME RouterAssumption, RoutingInv, Connect \/ LoseConnection \/ Reconnect \/ Tick
  PROVE  RoutingInv'
  <1>1. TypeOK /\ Registered /\ WakeupsKept
    BY DEF RoutingInv
  <1>2. UNCHANGED <<registry, chan, signalMode, buffer, senders, pending, inserts, pc>>
    BY DEF Connect, LoseConnection, Reconnect, Tick, router, work
  <1>3. Registered'
    BY <1>1, <1>2 DEF Registered
  <1>4. CASE Connect \/ Reconnect \/ Tick
    <2>1. UNCHANGED <<wire, unseen, losses>>
      BY <1>4 DEF Connect, Reconnect, Tick, work
    <2>2. TypeOK'
      BY <1>1, <1>2, <1>4, <2>1 DEF Connect, Reconnect, Tick, TypeOK, RouterAssumption
    <2>3. WakeupsKept'
      BY <1>1, <1>2, <2>1 DEF WakeupsKept, ConsumersOf
    <2> QED
      BY <1>3, <2>2, <2>3 DEF RoutingInv
  <1>5. CASE LoseConnection
    <2>1. /\ conn' \in {"dead", "backoff"} /\ uptime' = uptime
          /\ wire' = << >> /\ unseen' = unseen \union {wire[i] : i \in DOMAIN wire}
          /\ losses < MaxLosses /\ losses' = losses + 1
      BY <1>5 DEF LoseConnection
    <2>2. \A i \in DOMAIN wire : wire[i] \in Routes
      BY <1>1, ElementOfSeq, LenProperties DEF TypeOK
    <2>3. << >> \in Seq(Routes) /\ MaxLosses \in Nat
      BY EmptySeq DEF RouterAssumption
    <2>4. TypeOK'
      BY <1>1, <1>2, <2>1, <2>2, <2>3 DEF TypeOK
    <2>5. ASSUME NEW r \in Routes, Waits(r)'
          PROVE  Announced(r)'
      <3>1. Waits(r) /\ \A i \in DOMAIN wire : wire[i] # r
        BY <1>2, <2>1, <2>5 DEF Waits, ConsumersOf
      <3>2. Announced(r)
        BY <1>1, <3>1, Wakeup
      <3> QED
        BY <1>2, <3>1, <3>2 DEF Announced
    <2>6. WakeupsKept'
      BY <2>5 DEF WakeupsKept, Waits, Announced
    <2> QED
      BY <1>3, <2>4, <2>6 DEF RoutingInv
  <1> QED
    BY <1>4, <1>5

(* An event is announced with the insert, or unseen.                       *)
LEMMA InsertInv ==
  ASSUME RouterAssumption, RoutingInv, NEW q \in Routes, Insert(q)
  PROVE  RoutingInv'
  <1>1. TypeOK /\ Registered /\ WakeupsKept
    BY DEF RoutingInv
  <1>2. /\ pending' = [pending EXCEPT ![q] = @ + 1]
        /\ inserts < MaxInserts /\ inserts' = inserts + 1
        /\ \/ wire' = Append(wire, q) /\ unseen' = unseen
           \/ unseen' = unseen \union {q} /\ wire' = wire
        /\ UNCHANGED <<registry, chan, signalMode, buffer, senders, conn, uptime, pc, losses>>
    BY DEF Insert, router
  <1>3. /\ wire \in Seq(Routes) /\ Append(wire, q) \in Seq(Routes)
        /\ \A i \in DOMAIN wire : i \in DOMAIN Append(wire, q) /\ Append(wire, q)[i] = wire[i]
        /\ \E i \in DOMAIN Append(wire, q) : Append(wire, q)[i] = q
    <2>1. wire \in Seq(Routes) /\ Len(wire) \in Nat /\ DOMAIN wire = 1 .. Len(wire)
      BY <1>1, LenProperties DEF TypeOK
    <2>2. /\ Append(wire, q) \in Seq(Routes)
          /\ Len(Append(wire, q)) = Len(wire) + 1
          /\ DOMAIN Append(wire, q) = 1 .. (Len(wire) + 1)
          /\ \A i \in 1 .. Len(wire) : Append(wire, q)[i] = wire[i]
          /\ Append(wire, q)[Len(wire) + 1] = q
      BY <2>1, AppendProperties, LenProperties
    <2> QED
      BY <2>1, <2>2
  <1>4. TypeOK'
    <2>1. MaxInserts \in Nat
      BY DEF RouterAssumption
    <2> QED
      <3>1. inserts' \in 0 .. MaxInserts /\ pending' \in [Routes -> Nat]
        BY <1>1, <1>2, <2>1 DEF TypeOK
      <3>2. wire' \in Seq(Routes) /\ unseen' \subseteq Routes
        BY <1>1, <1>2, <1>3 DEF TypeOK
      <3> QED
        BY <1>1, <1>2, <3>1, <3>2 DEF TypeOK
  <1>5. Registered'
    BY <1>1, <1>2 DEF Registered
  <1>6. ASSUME NEW r \in Routes, Waits(r)'
        PROVE  Announced(r)'
    <2>1. CASE r = q
      <3>1. wire' = Append(wire, q)
        BY <1>2, <1>6, <2>1 DEF Waits
      <3> QED
        BY <1>3, <2>1, <3>1 DEF Announced
    <2>2. CASE r # q
      <3>1. pending'[r] = pending[r]
        BY <1>1, <1>2, <2>2 DEF TypeOK
      <3>2. Waits(r)
        BY <1>2, <1>6, <3>1 DEF Waits, ConsumersOf
      <3>3. Announced(r)
        BY <1>1, <3>2, Wakeup
      <3> QED
        BY <1>2, <1>3, <3>3 DEF Announced
    <2> QED
      BY <2>1, <2>2
  <1>7. WakeupsKept'
    BY <1>6 DEF WakeupsKept, Waits, Announced
  <1> QED
    BY <1>4, <1>5, <1>7 DEF RoutingInv

-----------------------------------------------------------------------------
(* The consumers.                                                          *)

(* Who takes a signal, or is woken by the timer, fetches for all the       *)
(* routes of the channel.                                                  *)
LEMMA AwakenInv ==
  ASSUME RouterAssumption, RoutingInv, NEW s \in Subscribers, Receive(s) \/ Timeout(s)
  PROVE  RoutingInv'
  <1>1. TypeOK /\ Registered /\ WakeupsKept
    BY DEF RoutingInv
  <1>2. /\ pc[s] = "waiting" /\ pc' = [pc EXCEPT ![s] = "draining"]
        /\ UNCHANGED <<registry, chan, signalMode, senders, wire, conn, uptime, pending, unseen, inserts, losses>>
    BY DEF Receive, Timeout, router, work
  <1>3. chan[s] \in Subscribers /\ RoutesOf[chan[s]] = RoutesOf[s] /\ chan[s] # None
    BY <1>1, <1>2 DEF TypeOK, Registered, RouterAssumption
  <1>4. /\ buffer' \in [Subscribers -> Nat]
        /\ \A c \in Subscribers : c # chan[s] => buffer'[c] = buffer[c]
    <2>1. CASE Receive(s)
      <3>1. buffer[chan[s]] > 0 /\ buffer' = [buffer EXCEPT ![chan[s]] = @ - 1]
        BY <2>1 DEF Receive
      <3> QED
        BY <1>1, <1>3, <3>1 DEF TypeOK
    <2>2. CASE Timeout(s)
      BY <1>1, <2>2 DEF Timeout, TypeOK
    <2> QED
      BY <2>1, <2>2
  <1>5. TypeOK'
    BY <1>1, <1>2, <1>4 DEF TypeOK
  <1>6. Registered'
    BY <1>1, <1>2 DEF TypeOK, Registered
  <1>7. ASSUME NEW r \in Routes, Waits(r)'
        PROVE  Announced(r)'
    <2>1. pc'[s] = "draining"
      BY <1>1, <1>2 DEF TypeOK
    <2>2. s \notin ConsumersOf(r)
      BY <1>2, <1>7, <2>1 DEF Waits, ConsumersOf
    <2>3. r \notin RoutesOf[s]
      BY <1>3, <2>2 DEF ConsumersOf
    <2>4. Waits(r)
      BY <1>1, <1>2, <1>7 DEF Waits, ConsumersOf, TypeOK
    <2>5. Announced(r)
      BY <1>1, <2>4, Wakeup
    <2>6. registry[r] # None => registry[r] \in Subscribers /\ registry[r] # chan[s]
      BY <1>1, <1>3, <2>3 DEF TypeOK, Registered
    <2> QED
      BY <1>2, <1>4, <2>5, <2>6 DEF Announced
  <1>8. WakeupsKept'
    BY <1>7 DEF WakeupsKept, Waits, Announced
  <1> QED
    BY <1>5, <1>6, <1>8 DEF RoutingInv

(* A fetch that finds nothing is the last: what comes later is announced.  *)
LEMMA ConsumeInv ==
  ASSUME RoutingInv, NEW s \in Subscribers, Consume(s)
  PROVE  RoutingInv'
  <1>1. TypeOK /\ Registered /\ WakeupsKept
    BY DEF RoutingInv
  <1>2. /\ pc[s] = "draining"
        /\ UNCHANGED <<registry, chan, signalMode, buffer, senders, wire, conn, uptime, inserts, losses>>
    BY DEF Consume, router
  <1>3. CASE \E q \in Todo(s) : pending' = [pending EXCEPT ![q] = @ - 1] /\ UNCHANGED <<unseen, pc>>
    <2>1. PICK q \in Todo(s) : pending' = [pending EXCEPT ![q] = @ - 1] /\ UNCHANGED <<unseen, pc>>
      BY <1>3
    <2>2. pending[q] > 0
      BY <2>1 DEF Todo
    <2>3. pending' \in [Routes -> Nat] /\ \A r \in Routes : pending'[r] > 0 => pending[r] > 0
      <3>1. pending \in [Routes -> Nat]
        BY <1>1 DEF TypeOK
      <3>2. CASE q \in Routes
        <4>1. pending[q] - 1 \in Nat
          BY <2>2, <3>1, <3>2
        <4> QED
          BY <2>1, <3>1, <3>2, <4>1
      <3>3. CASE q \notin Routes
        BY <2>1, <3>1, <3>3
      <3> QED
        BY <3>2, <3>3
    <2>4. TypeOK'
      BY <1>1, <1>2, <2>1, <2>3 DEF TypeOK
    <2>5. Registered'
      BY <1>1, <1>2, <2>1 DEF Registered
    <2>6. WakeupsKept'
      BY <1>1, <1>2, <2>1, <2>3 DEF WakeupsKept, ConsumersOf
    <2> QED
      BY <2>4, <2>5, <2>6 DEF RoutingInv
  <1>4. CASE /\ Todo(s) = {} /\ pc' = [pc EXCEPT ![s] = "leaving"]
             /\ unseen' = unseen \ RoutesOf[s] /\ pending' = pending
    <2>1. TypeOK'
      BY <1>1, <1>2, <1>4 DEF TypeOK
    <2>2. Registered'
      BY <1>1, <1>2, <1>4 DEF TypeOK, Registered
    <2>3. ASSUME NEW r \in Routes, Waits(r)'
          PROVE  Announced(r)'
      <3>1. r \notin RoutesOf[s]
        BY <1>4, <2>3 DEF Waits, Todo
      <3>2. Waits(r)
        BY <1>1, <1>2, <1>4, <2>3, <3>1 DEF Waits, ConsumersOf, TypeOK
      <3>3. Announced(r)
        BY <1>1, <3>2, Wakeup
      <3> QED
        BY <1>2, <3>3 DEF Announced
    <2>4. WakeupsKept'
      BY <2>3 DEF WakeupsKept, Waits, Announced
    <2> QED
      BY <2>1, <2>2, <2>4 DEF RoutingInv
  <1> QED
    BY <1>3, <1>4 DEF Consume

(* Between the last fetch and the select, no consumer is needed.           *)
LEMMA ReturnInv ==
  ASSUME RoutingInv, NEW s \in Subscribers, Return(s)
  PROVE  RoutingInv'
  <1>1. TypeOK /\ Registered /\ WakeupsKept
    BY DEF RoutingInv
  <1>2. /\ pc[s] = "leaving" /\ pc' = [pc EXCEPT ![s] = "waiting"]
        /\ UNCHANGED <<registry, chan, signalMode, buffer, senders, wire, conn, uptime, pending,
                       unseen, inserts, losses>>
    BY DEF Return, router, work
  <1>3. TypeOK'
    BY <1>1, <1>2 DEF TypeOK
  <1>4. Registered'
    BY <1>1, <1>2 DEF TypeOK, Registered
  <1>5. \A t \in Subscribers : pc[t] = "draining" => pc'[t] = "draining"
    BY <1>1, <1>2 DEF TypeOK
  <1>6. WakeupsKept'
    BY <1>1, <1>2, <1>5 DEF WakeupsKept, ConsumersOf
  <1> QED
    BY <1>3, <1>4, <1>6 DEF RoutingInv

-----------------------------------------------------------------------------
(* The theorems.                                                           *)

LEMMA RoutingStep == RouterAssumption /\ RoutingInv /\ [Next]_vars => RoutingInv'
  <1> SUFFICES ASSUME RouterAssumption, RoutingInv, [Next]_vars PROVE RoutingInv'
    OBVIOUS
  <1>1. ASSUME NEW s \in Subscribers,
               Subscribe(s) \/ Send(s) \/ Receive(s) \/ Timeout(s) \/ Consume(s) \/ Return(s)
        PROVE  RoutingInv'
    BY <1>1, SubscribeInv, SendInv, AwakenInv, ConsumeInv, ReturnInv
  <1>2. ASSUME NEW r \in Routes, Insert(r)
        PROVE  RoutingInv'
    BY <1>2, InsertInv
  <1>3. CASE Dispatch \/ Connect \/ LoseConnection \/ Reconnect \/ Tick
    BY <1>3, DispatchInv, ConnectionInv
  <1>4. CASE UNCHANGED vars
    BY <1>4 DEF vars, RoutingInv, TypeOK, Registered, WakeupsKept, ConsumersOf
  <1> QED
    BY <1>1, <1>2, <1>3, <1>4 DEF Next

(* consume and PGConsumer.Listen: no wake-up is lost between a goroutine,  *)
(* a full channel and a consumer about to wait, and the groups of routes   *)
(* keep their channels.                                                    *)
THEOREM Awakened == ASSUME RouterAssumption PROVE Spec => []NoLostWakeup
  <1>1. Init => RoutingInv
    BY RoutingInit
  <1>2. RoutingInv /\ [Next]_vars => RoutingInv'
    BY RoutingStep
  <1>3. RoutingInv => NoLostWakeup
    BY DEF RoutingInv, NoLostWakeup
  <1> QED
    BY <1>1, <1>2, <1>3, PTL DEF Spec

-----------------------------------------------------------------------------
(* The election.                                                           *)

\* The inductive invariant.
ElectionInv == ElectionTypeOK /\ CronsFollowLease

(* The pods to patch are the labelled ones in some order, and the replica. *)
LEMMA PodsType ==
  ASSUME LeadershipAssumption, NEW S \in SUBSET Replicas, NEW pods \in SetToSeqs(S)
  PROVE  pods \in Seq(Replicas) /\ (S # {} => pods # << >>)
  <1>1. IsFiniteSet(S) /\ Cardinality(S) \in Nat
    BY FS_Subset, FS_CardinalityType DEF LeadershipAssumption
  <1>2. pods \in [1 .. Cardinality(S) -> Replicas]
    BY DEF SetToSeqs
  <1>3. pods \in Seq(Replicas) /\ Len(pods) = Cardinality(S)
    BY <1>1, <1>2
  <1>4. S # {} => Cardinality(S) # 0
    BY <1>1, FS_EmptySet
  <1> QED
    BY <1>3, <1>4, EmptySeq

(* One OnStartedLeading goes on: the others keep their place and pods.     *)
LEMMA Advanced ==
  ASSUME ElectionTypeOK, NEW r \in Replicas, NEW t \in Terms, t <= term[r],
         NEW l \in {"list", "patch", "crons", "done"}, Starting(r, t, l),
         NEW pods \in Seq(Replicas), todo' = [todo EXCEPT ![r][t] = pods],
         l = "patch" <=> pods # << >>, UNCHANGED term
  PROVE  /\ starting' \in [Replicas -> [Terms -> {"none", "list", "patch", "crons", "done"}]]
         /\ todo' \in [Replicas -> [Terms -> Seq(Replicas)]]
         /\ \A q \in Replicas, u \in Terms : /\ starting'[q][u] = "none" <=> u > term'[q]
                                             /\ starting'[q][u] = "patch" <=> todo'[q][u] # << >>
  <1> DEFINE L == {"none", "list", "patch", "crons", "done"}
             s == [starting[r] EXCEPT ![t] = l]
             p == [todo[r] EXCEPT ![t] = pods]
  <1>1. s \in [Terms -> L] /\ starting' = [starting EXCEPT ![r] = s]
    BY DEF ElectionTypeOK, Starting
  <1>2. p \in [Terms -> Seq(Replicas)] /\ todo' = [todo EXCEPT ![r] = p]
    BY DEF ElectionTypeOK
  <1>3. \A u \in Terms : /\ s[u] = "none" <=> u > term[r]
                         /\ s[u] = "patch" <=> p[u] # << >>
    <2>1. \A u \in Terms : /\ s[u] = IF u = t THEN l ELSE starting[r][u]
                           /\ p[u] = IF u = t THEN pods ELSE todo[r][u]
      BY DEF ElectionTypeOK
    <2>2. \A u \in Terms : /\ starting[r][u] = "none" <=> u > term[r]
                           /\ starting[r][u] = "patch" <=> todo[r][u] # << >>
      BY DEF ElectionTypeOK
    <2>3. ~(t > term[r])
      BY DEF ElectionTypeOK, Terms
    <2> HIDE DEF s, p
    <2> QED
      BY <2>1, <2>2, <2>3
  <1> HIDE DEF s, p, L
  <1>4. starting' \in [Replicas -> [Terms -> L]] /\ todo' \in [Replicas -> [Terms -> Seq(Replicas)]]
    BY <1>1, <1>2 DEF ElectionTypeOK, L
  <1>5. ASSUME NEW q \in Replicas, NEW u \in Terms
        PROVE  /\ starting'[q][u] = "none" <=> u > term'[q]
               /\ starting'[q][u] = "patch" <=> todo'[q][u] # << >>
    <2>1. CASE q = r
      BY <1>1, <1>2, <1>3, <2>1 DEF ElectionTypeOK
    <2>2. CASE q # r
      BY <1>1, <1>2, <2>2 DEF ElectionTypeOK
    <2> QED
      BY <2>1, <2>2
  <1> QED
    BY <1>4, <1>5 DEF L

LEMMA ElectionInitInv == LeadershipAssumption /\ ElectionInit => ElectionInv
  BY DEF LeadershipAssumption, ElectionInit, ElectionInv, ElectionTypeOK, CronsFollowLease, Terms

-----------------------------------------------------------------------------
(* The election: only who leads takes or keeps the lease.                  *)

LEMMA AcquireInv ==
  ASSUME LeadershipAssumption, ElectionInv, NEW r \in Replicas, Acquire(r)
  PROVE  ElectionInv'
  <1>1. term[r] \in 0 .. MaxTerms /\ MaxTerms \in Nat /\ term[r] < MaxTerms
    BY DEF LeadershipAssumption, Acquire, ElectionInv, ElectionTypeOK
  <1> DEFINE L == {"none", "list", "patch", "crons", "done"}
             n == term[r] + 1
             s == [starting[r] EXCEPT ![n] = "list"]
  <1>2. n \in Terms /\ term' = [term EXCEPT ![r] = n] /\ term' \in [Replicas -> 0 .. MaxTerms]
    <2>1. n \in 1 .. MaxTerms /\ n \in 0 .. MaxTerms
      BY <1>1
    <2> HIDE DEF n
    <2>2. term' = [term EXCEPT ![r] = n]
      BY DEF Acquire, n
    <2> QED
      BY <2>1, <2>2 DEF ElectionInv, ElectionTypeOK, Terms
  <1>3. s \in [Terms -> L] /\ starting' = [starting EXCEPT ![r] = s]
    BY <1>2 DEF Acquire, Starting, ElectionInv, ElectionTypeOK
  <1>4. \A u \in Terms : /\ s[u] = "none" <=> u > n
                         /\ s[u] = "patch" <=> todo[r][u] # << >>
    <2>1. starting[r][n] = "none" /\ todo[r][n] = << >>
      BY <1>1, <1>2 DEF ElectionInv, ElectionTypeOK
    <2>2. \A u \in Terms : starting[r][u] = "none" <=> u > term[r]
      BY DEF ElectionInv, ElectionTypeOK
    <2>3. \A u \in Terms : starting[r][u] = "patch" <=> todo[r][u] # << >>
      BY DEF ElectionInv, ElectionTypeOK
    <2>4. starting[r] \in [Terms -> L]
      BY DEF ElectionInv, ElectionTypeOK
    <2>5. \A u \in Terms \ {n} : u > n <=> u > term[r]
      BY <1>1 DEF Terms
    <2> QED
      BY <1>1, <1>2, <2>1, <2>2, <2>3, <2>4, <2>5 DEF Terms
  <1> HIDE DEF s, L
  <1>5. starting' \in [Replicas -> [Terms -> L]]
    BY <1>3 DEF ElectionInv, ElectionTypeOK, L
  <1>6. ASSUME NEW q \in Replicas, NEW u \in Terms
        PROVE  /\ starting'[q][u] = "none" <=> u > term'[q]
               /\ starting'[q][u] = "patch" <=> todo'[q][u] # << >>
    <2>1. CASE q = r
      BY <1>2, <1>3, <1>4, <2>1 DEF Acquire, ElectionInv, ElectionTypeOK
    <2>2. CASE q # r
      BY <1>2, <1>3, <2>2 DEF Acquire, ElectionInv, ElectionTypeOK
    <2> QED
      BY <2>1, <2>2
  <1>7. ElectionTypeOK'
    BY <1>2, <1>5, <1>6 DEF Acquire, Elector, ElectionInv, ElectionTypeOK, L
  <1>8. CronsFollowLease'
    BY DEF LeadershipAssumption, Acquire, Elector, ElectionInv, ElectionTypeOK, CronsFollowLease
  <1> QED
    BY <1>7, <1>8 DEF ElectionInv

LEMMA StopInv ==
  ASSUME LeadershipAssumption, ElectionInv, NEW r \in Replicas,
         GiveUp(r) \/ RenewFails(r) \/ Release(r) \/ OnStoppedLeading(r)
  PROVE  ElectionInv'
  <1>1. PICK e \in {"waiting", "stopping", "ended"} : elector' = [elector EXCEPT ![r] = e]
    BY DEF GiveUp, RenewFails, Release, OnStoppedLeading, Elector
  <1>2. UNCHANGED <<term, starting, todo, labels, down>> /\ faults' \in 0 .. MaxFaults
    BY DEF GiveUp, RenewFails, Release, OnStoppedLeading, Fault, ElectionInv, ElectionTypeOK, LeadershipAssumption
  <1>3. \/ elector[r] = "leading" /\ lease' \in {r, NoOne} /\ e = "stopping" /\ UNCHANGED <<crons, late>>
        \/ e = "stopping" /\ UNCHANGED <<lease, crons, late>>
        \/ elector[r] = "stopping" /\ crons' = crons \ {r} /\ late' = late \ {r} /\ UNCHANGED lease
    <2>1. CASE GiveUp(r)
      BY <1>1, <2>1 DEF GiveUp, Elector, ElectionInv, ElectionTypeOK
    <2>2. CASE RenewFails(r) \/ Release(r)
      BY <1>1, <2>2 DEF RenewFails, Release, Elector, ElectionInv, ElectionTypeOK
    <2>3. CASE OnStoppedLeading(r)
      BY <2>3 DEF OnStoppedLeading
    <2> QED
      BY <2>1, <2>2, <2>3
  <1>4. ElectionTypeOK'
    BY <1>1, <1>2, <1>3 DEF ElectionInv, ElectionTypeOK
  <1>5. CronsFollowLease'
    BY <1>1, <1>3 DEF ElectionInv, ElectionTypeOK, CronsFollowLease
  <1> QED
    BY <1>4, <1>5 DEF ElectionInv

LEMMA ExpireInv ==
  ASSUME ElectionInv, Expire
  PROVE  ElectionInv'
  BY DEF Expire, ElectionInv, ElectionTypeOK, CronsFollowLease

-----------------------------------------------------------------------------
(* OnStartedLeading: what is started for a term that is over is late.      *)

LEMMA LabelInv ==
  ASSUME LeadershipAssumption, ElectionInv, NEW r \in Replicas, NEW t \in Terms,
         ListLabelled(r, t) \/ Patch(r, t) \/ LabelFails(r, t)
  PROVE  ElectionInv'
  <1> USE DEF LeadershipAssumption, ElectionInv
  <1>1. /\ labels' \subseteq Replicas /\ faults' \in 0 .. MaxFaults
        /\ UNCHANGED <<lease, elector, term, crons, down, late>>
    <2>1. CASE Patch(r, t)
      BY <2>1 DEF Patch, ElectionTypeOK
    <2>2. CASE ListLabelled(r, t) \/ LabelFails(r, t)
      BY <2>2 DEF ListLabelled, LabelFails, Fault, ElectionTypeOK
    <2> QED
      BY <2>1, <2>2
  <1>2. t <= term[r]
    <2>1. starting[r][t] # "none"
      BY DEF ListLabelled, Patch, LabelFails
    <2> QED
      BY <2>1 DEF ElectionTypeOK, Terms
  <1>3. \E l \in {"list", "patch", "crons", "done"}, pods \in Seq(Replicas) :
          Starting(r, t, l) /\ todo' = [todo EXCEPT ![r][t] = pods] /\ (l = "patch" <=> pods # << >>)
    <2>1. CASE ListLabelled(r, t)
      <3>1. PICK pods \in SetToSeqs(labels) :
              todo' = [todo EXCEPT ![r][t] = IF r \in labels THEN pods ELSE Append(pods, r)]
        BY <2>1 DEF ListLabelled
      <3>2. pods \in Seq(Replicas) /\ (r \in labels => pods # << >>)
        BY PodsType DEF ElectionTypeOK
      <3> DEFINE v == IF r \in labels THEN pods ELSE Append(pods, r)
      <3>3. v \in Seq(Replicas) /\ v # << >>
        BY <3>2, AppendProperties
      <3> QED
        BY <2>1, <3>1, <3>3 DEF ListLabelled
    <2>2. CASE Patch(r, t)
      <3>1. todo[r][t] \in Seq(Replicas) /\ todo[r][t] # << >>
        BY <2>2 DEF Patch, ElectionTypeOK
      <3>2. Tail(todo[r][t]) \in Seq(Replicas) /\ (Tail(todo[r][t]) = << >> <=> Len(todo[r][t]) = 1)
        <4>1. /\ Tail(todo[r][t]) \in Seq(Replicas) /\ Len(todo[r][t]) \in Nat
              /\ Len(Tail(todo[r][t])) = Len(todo[r][t]) - 1
          BY <3>1, HeadTailProperties, LenProperties
        <4>2. Tail(todo[r][t]) = << >> <=> Len(Tail(todo[r][t])) = 0
          BY <4>1, EmptySeq
        <4> QED
          BY <4>1, <4>2
      <3> QED
        BY <2>2, <3>2 DEF Patch
    <2>3. CASE LabelFails(r, t)
      <3>1. << >> \in Seq(Replicas)
        BY EmptySeq
      <3> QED
        BY <2>3, <3>1 DEF LabelFails
    <2> QED
      BY <2>1, <2>2, <2>3
  <1>4. ElectionTypeOK'
    <2>1. PICK l \in {"list", "patch", "crons", "done"}, pods \in Seq(Replicas) :
            Starting(r, t, l) /\ todo' = [todo EXCEPT ![r][t] = pods] /\ (l = "patch" <=> pods # << >>)
      BY <1>3
    <2>2. /\ starting' \in [Replicas -> [Terms -> {"none", "list", "patch", "crons", "done"}]]
          /\ todo' \in [Replicas -> [Terms -> Seq(Replicas)]]
          /\ \A q \in Replicas, u \in Terms : /\ starting'[q][u] = "none" <=> u > term'[q]
                                              /\ starting'[q][u] = "patch" <=> todo'[q][u] # << >>
      BY <1>1, <1>2, <2>1, Advanced
    <2> QED
      BY <1>1, <2>2 DEF ElectionTypeOK
  <1>5. CronsFollowLease'
    BY <1>1 DEF CronsFollowLease
  <1> QED
    BY <1>4, <1>5

LEMMA StartCronsInv ==
  ASSUME LeadershipAssumption, ElectionInv, NEW r \in Replicas, NEW t \in Terms, StartCrons(r, t)
  PROVE  ElectionInv'
  <1>1. t <= term[r]
    BY DEF StartCrons, ElectionInv, ElectionTypeOK, Terms, LeadershipAssumption
  <1>2. << >> \in Seq(Replicas) /\ todo' = [todo EXCEPT ![r][t] = << >>]
    BY EmptySeq DEF StartCrons, ElectionInv, ElectionTypeOK
  <1>3. /\ starting' \in [Replicas -> [Terms -> {"none", "list", "patch", "crons", "done"}]]
        /\ todo' \in [Replicas -> [Terms -> Seq(Replicas)]]
        /\ \A q \in Replicas, u \in Terms : /\ starting'[q][u] = "none" <=> u > term'[q]
                                            /\ starting'[q][u] = "patch" <=> todo'[q][u] # << >>
    BY <1>1, <1>2, Advanced DEF StartCrons, ElectionInv
  <1>4. ElectionTypeOK'
    BY <1>3 DEF StartCrons, ElectionInv, ElectionTypeOK
  <1>5. CronsFollowLease'
    BY DEF StartCrons, ElectionInv, CronsFollowLease
  <1> QED
    BY <1>4, <1>5 DEF ElectionInv

-----------------------------------------------------------------------------
(* Shutdown and restart: the crons of the replica are gone.                *)

LEMMA GoneTypes ==
  ASSUME ElectionTypeOK, NEW r \in Replicas, Gone(r)
  PROVE  /\ starting' \in [Replicas -> [Terms -> {"none", "list", "patch", "crons", "done"}]]
         /\ todo' \in [Replicas -> [Terms -> Seq(Replicas)]]
         /\ \A q \in Replicas, u \in Terms : /\ starting'[q][u] = "none" <=> u > term'[q]
                                             /\ starting'[q][u] = "patch" <=> todo'[q][u] # << >>
  <1> DEFINE L == {"none", "list", "patch", "crons", "done"}
             s == [t \in Terms |-> IF t <= term[r] THEN "done" ELSE "none"]
             p == [t \in Terms |-> << >>]
  <1>1. s \in [Terms -> L] /\ p \in [Terms -> Seq(Replicas)]
    BY EmptySeq
  <1>2. \A u \in Terms : (s[u] = "none" <=> u > term[r]) /\ s[u] # "patch" /\ p[u] = << >>
    BY DEF ElectionTypeOK, Terms
  <1>3. starting' = [starting EXCEPT ![r] = s] /\ todo' = [todo EXCEPT ![r] = p] /\ term' = term
    BY DEF Gone
  <1> HIDE DEF s, p
  <1> QED
    BY <1>1, <1>2, <1>3 DEF ElectionTypeOK

LEMMA DownInv ==
  ASSUME LeadershipAssumption, ElectionInv, NEW r \in Replicas,
         Cancel(r) \/ StopCrons(r) \/ Exit(r) \/ Crash(r)
  PROVE  ElectionInv'
  <1>1. CASE Cancel(r) \/ StopCrons(r)
    <2>1. /\ UNCHANGED <<lease, elector, term, starting, todo, labels, faults>>
          /\ \/ UNCHANGED <<crons, late>>
             \/ crons' = crons \ {r} /\ late' = late \ {r}
      BY <1>1 DEF Cancel, StopCrons
    <2>2. down' \in [Replicas -> {"up", "cancelled", "down", "exited"}]
      BY <1>1 DEF Cancel, StopCrons, ElectionInv, ElectionTypeOK
    <2>3. ElectionTypeOK'
      BY <2>1, <2>2 DEF ElectionInv, ElectionTypeOK
    <2>4. CronsFollowLease'
      BY <2>1 DEF ElectionInv, CronsFollowLease
    <2> QED
      BY <2>3, <2>4 DEF ElectionInv
  <1>2. CASE Exit(r) \/ Crash(r)
    <2>1. Gone(r) /\ (Elector(r, "ended") \/ Elector(r, "waiting"))
      BY <1>2 DEF Exit, Crash
    <2>2. crons' = crons \ {r} /\ late' = late \ {r} /\ UNCHANGED <<lease, term, labels>>
      BY <2>1 DEF Gone
    <2>3. down' \in [Replicas -> {"up", "cancelled", "down", "exited"}] /\ faults' \in 0 .. MaxFaults
      <3>1. CASE Exit(r)
        BY <3>1 DEF Exit, ElectionInv, ElectionTypeOK
      <3>2. CASE Crash(r)
        BY <3>2 DEF Crash, Fault, ElectionInv, ElectionTypeOK, LeadershipAssumption
      <3> QED
        BY <1>2, <3>1, <3>2
    <2>4. elector' \in [Replicas -> {"waiting", "leading", "stopping", "ended"}]
      BY <2>1 DEF Elector, ElectionInv, ElectionTypeOK
    <2>5. ElectionTypeOK'
      BY <2>1, <2>2, <2>3, <2>4, GoneTypes DEF ElectionInv, ElectionTypeOK
    <2>6. CronsFollowLease'
      BY <2>1, <2>2 DEF Elector, ElectionInv, ElectionTypeOK, CronsFollowLease
    <2> QED
      BY <2>5, <2>6 DEF ElectionInv
  <1> QED
    BY <1>1, <1>2

-----------------------------------------------------------------------------
(* The theorems.                                                           *)

LEMMA ElectionStep == LeadershipAssumption /\ ElectionInv /\ [ElectionNext]_electionVars => ElectionInv'
  <1> SUFFICES ASSUME LeadershipAssumption, ElectionInv, [ElectionNext]_electionVars PROVE ElectionInv'
    OBVIOUS
  <1>1. CASE Expire
    BY <1>1, ExpireInv
  <1>2. ASSUME NEW r \in Replicas,
               \/ Acquire(r) \/ GiveUp(r) \/ RenewFails(r) \/ Release(r) \/ OnStoppedLeading(r)
               \/ Cancel(r) \/ StopCrons(r) \/ Exit(r) \/ Crash(r)
        PROVE  ElectionInv'
    BY <1>2, AcquireInv, StopInv, DownInv
  <1>3. ASSUME NEW r \in Replicas, NEW t \in Terms,
               ListLabelled(r, t) \/ Patch(r, t) \/ LabelFails(r, t) \/ StartCrons(r, t)
        PROVE  ElectionInv'
    BY <1>3, LabelInv, StartCronsInv
  <1>4. CASE UNCHANGED electionVars
    BY <1>4 DEF electionVars, ElectionInv, ElectionTypeOK, CronsFollowLease
  <1> QED
    BY <1>1, <1>2, <1>3, <1>4 DEF ElectionNext

(* Who leads holds the lease, so that there is one: the periods  *)
(* that keep it so are client-go's, the rest is Register's callbacks.      *)
LEMMA OneLeads == ElectionInv => OneRunsCrons
  <1> SUFFICES ASSUME ElectionInv PROVE OneRunsCrons
    OBVIOUS
  <1> DEFINE S == {r \in crons \ late : elector[r] # "stopping"}
  <1>1. S \subseteq {lease}
    BY DEF ElectionInv, ElectionTypeOK, CronsFollowLease
  <1>2. IsFiniteSet({lease}) /\ Cardinality({lease}) = 1
    BY FS_Singleton
  <1>3. Cardinality(S) <= 1
    BY <1>1, <1>2, FS_Subset
  <1> QED
    BY <1>3 DEF OneRunsCrons

(* Register, its callbacks and the shutdown hooks: who leads holds the     *)
(* lease, crons run only for a term that has not been stopped yet, and so  *)
(* one replica runs them, but for one about to stop them and those that    *)
(* started them late.                                                      *)
THEOREM OneRuns == ASSUME LeadershipAssumption PROVE ElectionSpec => []OneScheduler
  <1>1. ElectionInit => ElectionInv
    BY ElectionInitInv
  <1>2. ElectionInv /\ [ElectionNext]_electionVars => ElectionInv'
    BY ElectionStep
  <1>3. ElectionInv => OneScheduler
    BY OneLeads DEF ElectionInv, OneScheduler
  <1> QED
    BY <1>1, <1>2, <1>3, PTL DEF ElectionSpec
=============================================================================
