-------------------------- MODULE EventQueueProofs --------------------------
(***************************************************************************)
(* Proofs about EventQueue, for any number of events, rows and consumers.  *)
(***************************************************************************)
EXTENDS EventQueue, FiniteSetTheorems, TLAPS

(* Deleting rows and creating others keeps `older' a relation on live rows. *)
LEMMA CreatedType ==
  ASSUME older \subseteq Live \X Live, NEW N, NEW gone
  PROVE  Created(N, gone) \subseteq ((Live \ gone) \union N) \X ((Live \ gone) \union N)
  BY DEF Created

LEMMA NewRowType ==
  ASSUME NEW e \in EventIDs \union {NullID}, NEW d \in Nat
  PROVE  NewRow(e, d) \in Row
  BY DEF NewRow, Row, NoAttempt, DefaultPriority

(* Every update of a row keeps its type and its event_id.                  *)
LEMMA RowUpdates ==
  ASSUME NEW r \in Row
  PROVE  /\ Reset(r) \in Row /\ Reset(r).event = r.event
         /\ Aged(r) \in Row /\ Aged(r).event = r.event /\ Aged(r).attempts = r.attempts
         /\ \A n \in Nat : Attempted(r, n) \in Row /\ Attempted(r, n).event = r.event
  <1>1. Reset(r) \in Row /\ Reset(r).event = r.event
    BY DEF Reset, Row, NoAttempt
  <1>2. Aged(r) \in Row /\ Aged(r).event = r.event /\ Aged(r).attempts = r.attempts
    <2> DEFINE l == IF r.lastAttempt # NoAttempt /\ r.lastAttempt < Backoff(MaxAttempts)
                    THEN r.lastAttempt + 1 ELSE r.lastAttempt
               a == IF r.age < r.delay THEN r.age + 1 ELSE r.age
    <2>1. l \in Nat \union {NoAttempt} /\ a \in Nat
      BY DEF Row
    <2> HIDE DEF l, a
    <2>2. Aged(r) = [event |-> r.event, attempts |-> r.attempts, lastAttempt |-> l,
                     delay |-> r.delay, age |-> a, priority |-> r.priority]
      BY DEF Aged, l, a
    <2> QED
      BY <2>1, <2>2 DEF Row
  <1>3. \A n \in Nat : Attempted(r, n) \in Row /\ Attempted(r, n).event = r.event
    BY DEF Attempted, Row
  <1> QED
    BY <1>1, <1>2, <1>3

(* The initial table satisfies the invariant.                              *)
LEMMA InitInv == Init => IndInv
  <1> SUFFICES ASSUME Init PROVE IndInv
    OBVIOUS
  <1> USE ConstantsAssumption DEF Init
  <1>1. TypeOK
    <2>1. Live = LegacyIds
      BY DEF Live
    <2>2. \A i \in Live : queue[i] \in Row
      BY <2>1, NewRowType
    <2> QED
      BY <2>1, <2>2 DEF TypeOK, NoRetry, Positions
  <1>2. HoldInv
    BY DEF HoldInv, Consumers
  <1>3. UniqueEvents
    BY DEF UniqueEvents, Live, NewRow
  <1> QED
    BY <1>1, <1>2, <1>3 DEF IndInv

-----------------------------------------------------------------------------
(* One lemma per group of actions.                                         *)

LEMMA EnqueueInv ==
  ASSUME IndInv, NEW e \in EventIDs, NEW d \in Delays, Enqueue(e, d)
  PROVE  IndInv'
  <1> USE ConstantsAssumption
  <1>1. older \subseteq Live \X Live /\ Live \subseteq Ids
    BY DEF IndInv, TypeOK
  <1>2. CASE \E i \in RowsOf(e) :
               /\ queue' = [queue EXCEPT ![i] = Reset(@)]
               /\ older' = Created({i}, {})
    <2>1. PICK i \in RowsOf(e) :
               /\ queue' = [queue EXCEPT ![i] = Reset(@)]
               /\ older' = Created({i}, {})
      BY <1>2
    <2>2. Live' = Live /\ i \in Live
      BY <2>1 DEF Live, RowsOf
    <2>3. \A j \in Live : queue'[j].event = queue[j].event /\ queue'[j] \in Row
      BY <2>1, <2>2, RowUpdates DEF IndInv, TypeOK, Live
    <2>4. older' \subseteq Live \X Live
      BY <1>1, <2>1, <2>2, CreatedType
    <2>5. TypeOK'
      BY <2>2, <2>3, <2>4 DEF IndInv, TypeOK, Enqueue
    <2>6. HoldInv'
      BY <2>2 DEF IndInv, HoldInv, Enqueue
    <2>7. UniqueEvents'
      BY <2>2, <2>3 DEF IndInv, UniqueEvents
    <2> QED
      BY <2>5, <2>6, <2>7 DEF IndInv
  <1>3. CASE /\ RowsOf(e) = {}
             /\ \E i \in Fresh :
                  /\ queue' = [j \in Live \union {i} |-> IF j = i THEN NewRow(e, d) ELSE queue[j]]
                  /\ older' = Created({i}, {})
    <2>1. PICK i \in Fresh :
                  /\ queue' = [j \in Live \union {i} |-> IF j = i THEN NewRow(e, d) ELSE queue[j]]
                  /\ older' = Created({i}, {})
      BY <1>3
    <2>2. Live' = Live \union {i} /\ i \in Ids /\ i \notin Live
      BY <2>1 DEF Live, Fresh
    <2>3. queue'[i] = NewRow(e, d) /\ queue'[i] \in Row
      BY <2>1, <2>2, NewRowType
    <2>4. \A j \in Live : queue'[j] = queue[j]
      BY <2>1, <2>2
    <2>5. older' \subseteq Live' \X Live'
      BY <1>1, <2>1, <2>2, CreatedType
    <2>6. TypeOK'
      BY <2>2, <2>3, <2>4, <2>5 DEF IndInv, TypeOK, Enqueue
    <2>7. HoldInv'
      BY <2>2 DEF IndInv, HoldInv, Enqueue
    <2>8. UniqueEvents'
      BY <1>3, <2>2, <2>3, <2>4 DEF IndInv, UniqueEvents, RowsOf, NewRow
    <2> QED
      BY <2>6, <2>7, <2>8 DEF IndInv
  <1> QED
    BY <1>2, <1>3 DEF Enqueue

LEMMA TickInv ==
  ASSUME IndInv, Tick
  PROVE  IndInv'
  <1>1. Live' = Live
    BY DEF Tick, Live
  <1>2. \A j \in Live : queue'[j].event = queue[j].event /\ queue'[j] \in Row
    BY RowUpdates DEF Tick, IndInv, TypeOK, Live
  <1>3. TypeOK' /\ HoldInv' /\ UniqueEvents'
    BY <1>1, <1>2 DEF IndInv, TypeOK, HoldInv, UniqueEvents, Tick
  <1> QED
    BY <1>3 DEF IndInv

(* The table unchanged, the invariant is about the consumers alone.        *)
LEMMA SameQueue ==
  ASSUME IndInv, UNCHANGED <<queue, older>>
  PROVE  /\ Live' = Live
         /\ Live' \subseteq Ids
         /\ \A i \in Live' : queue'[i] \in Row
         /\ older' \subseteq Live' \X Live'
         /\ UniqueEvents'
  BY DEF IndInv, TypeOK, UniqueEvents, Live

LEMMA LoopInv ==
  ASSUME IndInv, NEW c \in Consumers, Loop(c)
  PROVE  IndInv'
  <1> USE ConstantsAssumption, SameQueue DEF Goto, Positions
  <1>1. UNCHANGED <<queue, older, enqueues>>
    BY DEF Loop, Wake, HandleError, FetchFails, Crash
  <1>2. faults' \in 0 .. MaxFaults
    BY DEF Loop, Wake, HandleError, FetchFails, Crash, Fault, IndInv, TypeOK
  <1>3. CASE UNCHANGED <<held, ran, retry, failed>> /\ pc[c] # "handling" /\ pc[c] # "failed"
             /\ pc[c] # "committing" /\ \E l \in {"waiting", "polling", "error"} : Goto(c, l)
    <2>1. TypeOK'
      BY <1>1, <1>2, <1>3 DEF IndInv, TypeOK
    <2>2. HoldInv'
      BY <1>1, <1>3 DEF IndInv, TypeOK, HoldInv, Consumers
    <2> QED
      BY <1>1, <2>1, <2>2 DEF IndInv
  <1>4. CASE Crash(c)
    <2>1. TypeOK'
      <3>1. pc' \in [Consumers -> Positions]
        BY <1>4 DEF Crash, IndInv, TypeOK
      <3>2. held' \in [Consumers -> SUBSET Ids] /\ failed' \in [AsyncConsumers -> SUBSET Ids]
        BY <1>4 DEF Crash, IndInv, TypeOK
      <3>3. ran' \in [SyncConsumers -> 0 .. NumHandlers]
        BY <1>4 DEF Crash, IndInv, TypeOK
      <3>4. retry' \in [SyncConsumers -> [id : Ids \union {NullID}, attempts : Nat]]
        BY <1>4 DEF Crash, IndInv, TypeOK, NoRetry
      <3> QED
        BY <1>1, <1>2, <3>1, <3>2, <3>3, <3>4 DEF TypeOK, IndInv
    <2>2. HoldInv'
      BY <1>1, <1>4 DEF IndInv, TypeOK, HoldInv, Consumers, Crash
    <2> QED
      BY <1>1, <2>1, <2>2 DEF IndInv
  <1> QED
    BY <1>3, <1>4 DEF Loop, Wake, HandleError, FetchFails

(* A consumer claims eligible rows, which no transaction has locked.       *)
LEMMA FetchInv ==
  ASSUME IndInv, NEW c \in Consumers, pc[c] = "polling",
         NEW S \in SUBSET Eligible, held' = [held EXCEPT ![c] = S],
         UNCHANGED <<queue, older, ran, retry, failed, enqueues, faults>>,
         \/ c \in AsyncConsumers /\ Goto(c, "handling")
         \/ c \in SyncConsumers /\ S = {} /\ Goto(c, "waiting")
         \/ c \in SyncConsumers /\ (\E i \in Ids : S = {i}) /\ Goto(c, "handling")
  PROVE  IndInv'
  <1> USE ConstantsAssumption, SameQueue DEF Goto, Positions
  <1>1. S \subseteq Live /\ \A d \in Consumers : S \intersect held[d] = {}
    BY DEF Eligible, Locked
  <1>2. TypeOK'
    BY <1>1 DEF IndInv, TypeOK
  <1>3. \A d \in Consumers : held'[d] = IF d = c THEN S ELSE held[d]
    BY DEF IndInv, TypeOK
  <1>4. \A d \in Consumers : d # c => pc'[d] = pc[d]
    BY DEF IndInv, TypeOK
  <1>5. HoldInv'
    <2>1. \A d \in Consumers : held'[d] \subseteq Live'
      BY <1>1, <1>3 DEF IndInv, HoldInv
    <2>2. \A d, b \in Consumers : d # b => held'[d] \intersect held'[b] = {}
      BY <1>1, <1>3 DEF IndInv, HoldInv
    <2>3. \A d \in Consumers : held'[d] # {} => pc'[d] \in {"handling", "committing"}
      BY <1>3, <1>4 DEF IndInv, HoldInv, TypeOK
    <2>4. \A d \in SyncConsumers :
            /\ pc'[d] # "committing"
            /\ pc'[d] = "handling" => \E i \in Ids : held'[d] = {i}
            /\ ran'[d] # 0 => pc'[d] \in {"handling", "failed"}
      <3>1. SUFFICES ASSUME NEW d \in SyncConsumers
            PROVE /\ pc'[d] # "committing"
                  /\ pc'[d] = "handling" => \E i \in Ids : held'[d] = {i}
                  /\ ran'[d] # 0 => pc'[d] \in {"handling", "failed"}
        OBVIOUS
      <3>2. CASE d # c
        BY <1>3, <1>4, <3>2 DEF IndInv, HoldInv, Consumers
      <3>3. CASE d = c
        <4>1. ran'[c] = 0
          BY <3>3 DEF IndInv, HoldInv
        <4>2. pc'[c] = "waiting" \/ (pc'[c] = "handling" /\ \E i \in Ids : S = {i})
          BY <3>3 DEF IndInv, TypeOK
        <4> QED
          BY <1>3, <3>3, <4>1, <4>2
      <3> QED
        BY <3>2, <3>3
    <2>5. \A d \in AsyncConsumers :
            /\ pc'[d] # "failed"
            /\ failed'[d] \subseteq held'[d]
            /\ failed'[d] # {} => pc'[d] = "committing"
      BY <1>3, <1>4 DEF IndInv, HoldInv, TypeOK, Consumers
    <2> QED
      BY <2>1, <2>2, <2>3, <2>4, <2>5 DEF HoldInv
  <1> QED
    BY <1>2, <1>5 DEF IndInv

-----------------------------------------------------------------------------
(* The end of a transaction.                                               *)

\* The part of the invariant that is about the table alone.
TableInv ==
  /\ Live \subseteq Ids
  /\ \A i \in Live : queue[i] \in Row
  /\ older \subseteq Live \X Live
  /\ UniqueEvents

LEMMA DeleteTable ==
  ASSUME IndInv, NEW gone,
         queue' = Without(gone), older' = Created({}, gone)
  PROVE  TableInv' /\ Live' = Live \ gone
  <1>1. Live' = Live \ gone
    BY DEF Live, Without
  <1>2. \A i \in Live' : i \in Live /\ queue'[i] = queue[i]
    BY <1>1 DEF Without
  <1>3. older' \subseteq Live' \X Live'
    BY <1>1, CreatedType DEF IndInv, TypeOK
  <1> QED
    BY <1>1, <1>2, <1>3 DEF TableInv, IndInv, TypeOK, UniqueEvents

LEMMA RecreatedType ==
  ASSUME IndInv, NEW i \in Live
  PROVE  Recreated(i) \in Row /\ Recreated(i).event = Scanned(i) /\ Scanned(i) # NullID
  <1>1. queue[i] \in Row /\ Scanned(i) \in EventIDs
    BY ConstantsAssumption DEF IndInv, TypeOK, Row, Scanned
  <1> QED
    BY <1>1, ConstantsAssumption DEF Recreated, Row

\* Without a conflict the recreated rows have event_ids of their own.
LEMMA ReplaceTable ==
  ASSUME IndInv, NEW c \in AsyncConsumers, ~Conflict(c), ReplaceBatch(c)
  PROVE  TableInv' /\ Live \ held[c] \subseteq Live'
  <1> USE ConstantsAssumption
  <1> DEFINE F == failed[c]
  <1>1. F \subseteq held[c] /\ F \subseteq Live /\ Live \subseteq Ids
    BY DEF IndInv, HoldInv, TypeOK, Consumers
  <1>2. PICK new \in [F -> Fresh] :
          LET N == {new[i] : i \in F}
              Source(n) == CHOOSE i \in F : new[i] = n
          IN  /\ \A i, j \in F : new[i] = new[j] => i = j
              /\ queue' = [n \in (Live \ held[c]) \union N |->
                             IF n \in N THEN Recreated(Source(n)) ELSE queue[n]]
              /\ older' = Created(N, held[c])
    BY DEF ReplaceBatch
  <1> DEFINE N == {new[i] : i \in F}
             Source(n) == CHOOSE i \in F : new[i] = n
  <1>3. Live' = (Live \ held[c]) \union N
    BY <1>2 DEF Live
  <1>4. N \subseteq Ids /\ N \intersect Live = {}
    BY <1>2 DEF Fresh
  <1>5. \A n \in N : Source(n) \in F /\ new[Source(n)] = n
    OBVIOUS
  <1>6. \A n \in N : queue'[n] = Recreated(Source(n))
    BY <1>2
  <1>7. \A n \in Live \ held[c] : queue'[n] = queue[n]
    BY <1>2, <1>4
  <1>8. older' \subseteq Live' \X Live'
    BY <1>2, <1>3, CreatedType DEF IndInv, TypeOK
  <1> HIDE DEF N, Source
  <1>9. \A n \in N : /\ queue'[n] \in Row
                     /\ queue'[n].event = Scanned(Source(n))
                     /\ queue'[n].event # NullID
    BY <1>1, <1>5, <1>6, RecreatedType
  <1>10. UniqueEvents'
    <2> SUFFICES ASSUME NEW i \in Live', NEW j \in Live', i # j,
                        queue'[i].event = queue'[j].event
                 PROVE  queue'[i].event = NullID
      BY DEF UniqueEvents
    <2>1. CASE i \in N /\ j \in N
      <3>1. Source(i) # Source(j)
        BY <1>5, <2>1
      <3> QED
        BY <1>5, <1>9, <2>1, <3>1 DEF Conflict
    <2>2. ASSUME NEW n \in N, NEW k \in Live \ held[c], queue'[n].event = queue'[k].event
          PROVE  FALSE
      <3>1. k \in RowsOf(Scanned(Source(n))) \ held[c]
        BY <1>7, <1>9, <2>2 DEF RowsOf
      <3> QED
        BY <1>5, <3>1 DEF Conflict, Rivals
    <2>3. CASE i \in Live \ held[c] /\ j \in Live \ held[c]
      BY <1>7, <2>3 DEF IndInv, UniqueEvents
    <2> QED
      BY <1>3, <2>1, <2>2, <2>3
  <1>11. \A n \in Live' : queue'[n] \in Row
    BY <1>3, <1>7, <1>9 DEF IndInv, TypeOK
  <1> QED
    BY <1>1, <1>3, <1>4, <1>8, <1>10, <1>11 DEF TableInv

(* A consumer's transaction ends: what the others hold is untouched.       *)
LEMMA ReleaseHold ==
  ASSUME IndInv, NEW c \in Consumers, NEW l,
         Live \ held[c] \subseteq Live',
         held' = [held EXCEPT ![c] = {}], Goto(c, l),
         \/ /\ c \in SyncConsumers /\ l \in {"polling", "failed"} /\ UNCHANGED failed
            /\ ran' = ran \/ ran' = [ran EXCEPT ![c] = 0]
            /\ ran'[c] # 0 => l = "failed"
         \/ /\ c \in AsyncConsumers /\ l \in {"waiting", "polling", "error"} /\ UNCHANGED ran
            /\ failed' = [failed EXCEPT ![c] = {}]
  PROVE  HoldInv'
  <1> USE ConstantsAssumption DEF Goto, Positions
  <1>1. \A d \in Consumers : held'[d] = IF d = c THEN {} ELSE held[d]
    BY DEF IndInv, TypeOK
  <1>2. \A d \in Consumers : pc'[d] = IF d = c THEN l ELSE pc[d]
    BY DEF IndInv, TypeOK
  <1>3. \A d \in SyncConsumers : d # c => ran'[d] = ran[d]
    BY DEF IndInv, TypeOK
  <1>4. \A d \in AsyncConsumers : d # c => failed'[d] = failed[d]
    BY DEF IndInv, TypeOK
  <1>5. \A d \in Consumers : held'[d] \subseteq Live'
    BY <1>1 DEF IndInv, HoldInv
  <1>6. \A d, b \in Consumers : d # b => held'[d] \intersect held'[b] = {}
    BY <1>1 DEF IndInv, HoldInv
  <1>7. \A d \in Consumers : held'[d] # {} => pc'[d] \in {"handling", "committing"}
    BY <1>1, <1>2 DEF IndInv, HoldInv
  <1>8. \A d \in SyncConsumers :
          /\ pc'[d] # "committing"
          /\ pc'[d] = "handling" => \E i \in Ids : held'[d] = {i}
          /\ ran'[d] # 0 => pc'[d] \in {"handling", "failed"}
    BY <1>1, <1>2, <1>3 DEF IndInv, HoldInv, Consumers
  <1>9. \A d \in AsyncConsumers :
          /\ pc'[d] # "failed"
          /\ failed'[d] \subseteq held'[d]
          /\ failed'[d] # {} => pc'[d] = "committing"
    BY <1>1, <1>2, <1>4 DEF IndInv, HoldInv, TypeOK, Consumers
  <1> QED
    BY <1>5, <1>6, <1>7, <1>8, <1>9 DEF HoldInv

(* A batch of at most one row.                                             *)
LEMMA SingleBatch ==
  ASSUME IndInv, NEW S \in SUBSET Eligible, IsBatch(S, 1)
  PROVE  S = {} \/ \E i \in Ids : S = {i}
  <1>1. S \subseteq Ids
    BY DEF Eligible, IndInv, TypeOK
  <1>2. IsFiniteSet(S) /\ Cardinality(S) \in Nat /\ Cardinality(S) <= 1
    BY <1>1, ConstantsAssumption, FS_Subset, FS_CardinalityType DEF IsBatch
  <1>3. Cardinality(S) = 0 \/ Cardinality(S) = 1
    BY <1>2
  <1>4. CASE Cardinality(S) = 0
    BY <1>2, <1>4, FS_EmptySet
  <1>5. CASE Cardinality(S) = 1
    BY <1>1, <1>2, <1>5, FS_Singleton
  <1> QED
    BY <1>3, <1>4, <1>5

LEMMA SyncInv ==
  ASSUME IndInv, NEW c \in SyncConsumers, Sync(c)
  PROVE  IndInv'
  <1> USE ConstantsAssumption
  <1>0. c \in Consumers
    BY DEF Consumers
  <1>1. CASE SyncFetch(c)
    <2>1. PICK S \in SUBSET Eligible :
            /\ IsBatch(S, 1)
            /\ held' = [held EXCEPT ![c] = S]
            /\ Goto(c, IF S = {} THEN "waiting" ELSE "handling")
      BY <1>1 DEF SyncFetch
    <2>2. \/ S = {} /\ Goto(c, "waiting")
          \/ (\E i \in Ids : S = {i}) /\ Goto(c, "handling")
      BY <2>1, SingleBatch
    <2> QED
      BY <1>0, <1>1, <2>1, <2>2, FetchInv DEF SyncFetch
  <1>2. CASE HandlerSucceeds(c)
    <2>1. TypeOK'
      <3>1. ran' \in [SyncConsumers -> 0 .. NumHandlers]
        BY <1>2 DEF HandlerSucceeds, IndInv, TypeOK
      <3> QED
        BY <1>2, <3>1, SameQueue DEF HandlerSucceeds, IndInv, TypeOK
    <2>2. HoldInv'
      BY <1>2, SameQueue DEF HandlerSucceeds, IndInv, TypeOK, HoldInv
    <2> QED
      BY <1>2, <2>1, <2>2, SameQueue DEF HandlerSucceeds, IndInv
  <1>3. CASE HandlerFails(c) \/ SyncCommitFails(c)
    <2>1. FailEvent(c) /\ UNCHANGED <<ran, failed, enqueues>> /\ faults' \in 0 .. MaxFaults
      BY <1>3 DEF HandlerFails, SyncCommitFails, Fault, IndInv, TypeOK
    <2>2. TableInv' /\ Live \ held[c] \subseteq Live'
      <3>1. CASE UNCHANGED <<queue, older>>
        BY <3>1, SameQueue DEF TableInv
      <3>2. CASE queue' = Without(held[c]) /\ older' = Created({}, held[c])
        BY <3>2, DeleteTable
      <3> QED
        BY <1>3, <3>1, <3>2 DEF HandlerFails, SyncCommitFails
    <2>3. PICK i \in held[c] :
            retry' = [retry EXCEPT ![c] = [id |-> i, attempts |-> queue[i].attempts + 1]]
      BY <2>1 DEF FailEvent
    <2>4. i \in Ids /\ queue[i].attempts + 1 \in Nat
      BY <1>0, <2>3 DEF IndInv, HoldInv, TypeOK, Row
    <2>5. TypeOK'
      <3>1. retry' \in [SyncConsumers -> [id : Ids \union {NullID}, attempts : Nat]]
        BY <2>3, <2>4 DEF IndInv, TypeOK
      <3>2. /\ pc' \in [Consumers -> Positions]
            /\ held' \in [Consumers -> SUBSET Ids]
        BY <2>1 DEF FailEvent, Goto, Positions, IndInv, TypeOK
      <3> QED
        BY <2>1, <2>2, <3>1, <3>2 DEF TypeOK, IndInv, TableInv
    <2>6. HoldInv'
      BY <1>0, <2>1, <2>2, ReleaseHold DEF FailEvent
    <2> QED
      BY <2>2, <2>5, <2>6 DEF IndInv, TableInv
  <1>4. CASE SyncCommit(c)
    <2>1. TableInv' /\ Live \ held[c] \subseteq Live'
      BY <1>4, DeleteTable DEF SyncCommit
    <2>2. TypeOK'
      <3>1. /\ pc' \in [Consumers -> Positions]
            /\ held' \in [Consumers -> SUBSET Ids]
        BY <1>4 DEF SyncCommit, Goto, Positions, IndInv, TypeOK
      <3>2. ran' \in [SyncConsumers -> 0 .. NumHandlers]
        BY <1>4 DEF SyncCommit, IndInv, TypeOK
      <3> QED
        BY <1>4, <2>1, <3>1, <3>2 DEF SyncCommit, TypeOK, IndInv, TableInv
    <2>3. ran'[c] = 0
      BY <1>4 DEF SyncCommit, IndInv, TypeOK
    <2>4. HoldInv'
      BY <1>0, <1>4, <2>1, <2>3, ReleaseHold DEF SyncCommit
    <2> QED
      BY <2>1, <2>2, <2>4 DEF IndInv, TableInv
  <1>5. CASE SaveAttempt(c) \/ SaveAttemptFails(c)
    <2>1. TableInv' /\ Live' = Live
      <3>1. CASE UNCHANGED <<queue, older>>
        BY <3>1, SameQueue DEF TableInv
      <3>2. CASE /\ retry[c].id \in Live
                 /\ queue' = [queue EXCEPT ![retry[c].id] = Attempted(@, retry[c].attempts)]
                 /\ UNCHANGED older
        <4>1. Live' = Live
          BY <3>2 DEF Live
        <4>2. retry[c].attempts \in Nat /\ \A j \in Live : queue[j] \in Row
          BY DEF IndInv, TypeOK
        <4>3. \A j \in Live : queue'[j].event = queue[j].event /\ queue'[j] \in Row
          <5>1. \A j \in Live : queue'[j] = IF j = retry[c].id
                                            THEN Attempted(queue[j], retry[c].attempts)
                                            ELSE queue[j]
            BY <3>2 DEF Live
          <5> QED
            BY <4>2, <5>1, RowUpdates
        <4> QED
          BY <3>2, <4>1, <4>3 DEF TableInv, IndInv, TypeOK, UniqueEvents
      <3> QED
        BY <1>5, <3>1, <3>2 DEF SaveAttempt, SaveAttemptFails
    <2>2. /\ pc[c] = "failed" /\ Goto(c, "error") /\ UNCHANGED <<held, failed, enqueues>>
          /\ retry' = [retry EXCEPT ![c] = NoRetry]
          /\ ran' = [ran EXCEPT ![c] = 0]
          /\ faults' \in 0 .. MaxFaults
      BY <1>5 DEF SaveAttempt, SaveAttemptFails, Fault, IndInv, TypeOK
    <2>3. TypeOK'
      <3>1. pc' \in [Consumers -> Positions]
        BY <2>2 DEF Goto, Positions, IndInv, TypeOK
      <3>2. ran' \in [SyncConsumers -> 0 .. NumHandlers]
        BY <2>2 DEF IndInv, TypeOK
      <3>3. retry' \in [SyncConsumers -> [id : Ids \union {NullID}, attempts : Nat]]
        BY <2>2 DEF NoRetry, IndInv, TypeOK
      <3> QED
        BY <2>1, <2>2, <3>1, <3>2, <3>3 DEF TypeOK, IndInv, TableInv
    <2>4. HoldInv'
      BY <1>0, <2>1, <2>2 DEF Goto, IndInv, TypeOK, HoldInv, Consumers
    <2> QED
      BY <2>1, <2>3, <2>4 DEF IndInv, TableInv
  <1> QED
    BY <1>1, <1>2, <1>3, <1>4, <1>5 DEF Sync

LEMMA AsyncInv ==
  ASSUME IndInv, NEW c \in AsyncConsumers, Async(c)
  PROVE  IndInv'
  <1> USE ConstantsAssumption
  <1>0. c \in Consumers
    BY DEF Consumers
  <1>1. CASE AsyncFetch(c)
    BY <1>0, <1>1, FetchInv DEF AsyncFetch
  <1>2. CASE HandlerReturns(c)
    <2>1. PICK F \in SUBSET held[c] : failed' = [failed EXCEPT ![c] = F]
      BY <1>2 DEF HandlerReturns
    <2>2. TypeOK'
      <3>1. /\ pc' \in [Consumers -> Positions]
            /\ failed' \in [AsyncConsumers -> SUBSET Ids]
        BY <1>0, <1>2, <2>1 DEF HandlerReturns, Goto, Positions, IndInv, TypeOK
      <3> QED
        BY <1>2, <3>1, SameQueue DEF HandlerReturns, IndInv, TypeOK
    <2>3. HoldInv'
      BY <1>0, <1>2, <2>1, SameQueue DEF HandlerReturns, Goto, IndInv, TypeOK, HoldInv, Consumers
    <2> QED
      BY <1>2, <2>2, <2>3, SameQueue DEF HandlerReturns, IndInv
  <1>3. CASE AsyncCommit(c) \/ AsyncConflict(c) \/ AsyncCommitFails(c)
    <2>1. TableInv' /\ Live \ held[c] \subseteq Live'
      <3>1. CASE UNCHANGED <<queue, older>>
        BY <3>1, SameQueue DEF TableInv
      <3>2. CASE ~Conflict(c) /\ ReplaceBatch(c)
        BY <3>2, ReplaceTable
      <3> QED
        BY <1>3, <3>1, <3>2 DEF AsyncCommit, AsyncConflict, AsyncCommitFails
    <2>2. PICK l \in {"waiting", "polling", "error"} : EndBatch(c, l)
      BY <1>3 DEF AsyncCommit, AsyncConflict, AsyncCommitFails
    <2>3. faults' \in 0 .. MaxFaults
      BY <1>3 DEF AsyncCommit, AsyncConflict, AsyncCommitFails, Fault, IndInv, TypeOK
    <2>4. TypeOK'
      <3>1. /\ pc' \in [Consumers -> Positions]
            /\ held' \in [Consumers -> SUBSET Ids]
            /\ failed' \in [AsyncConsumers -> SUBSET Ids]
        BY <2>2 DEF EndBatch, Goto, Positions, IndInv, TypeOK
      <3> QED
        BY <2>1, <2>2, <2>3, <3>1 DEF EndBatch, TypeOK, IndInv, TableInv
    <2>5. HoldInv'
      BY <1>0, <2>1, <2>2, ReleaseHold DEF EndBatch
    <2> QED
      BY <2>1, <2>4, <2>5 DEF IndInv, TableInv
  <1> QED
    BY <1>1, <1>2, <1>3 DEF Async

(* Nothing changes.                                                        *)
LEMMA StutterInv ==
  ASSUME IndInv, UNCHANGED vars
  PROVE  IndInv'
  BY DEF IndInv, TypeOK, HoldInv, UniqueEvents, vars, Live

LEMMA StepInv ==
  ASSUME IndInv, [Next]_vars
  PROVE  IndInv'
  BY EnqueueInv, TickInv, LoopInv, SyncInv, AsyncInv, StutterInv DEF Next

(* IndInv is an invariant of the queue.                                    *)
THEOREM Invariance == Spec => []IndInv
  <1>1. Init => IndInv
    BY InitInv
  <1>2. IndInv /\ [Next]_vars => IndInv'
    BY StepInv
  <1> QED
    BY <1>1, <1>2, PTL DEF Spec

(* The type invariant.                                                     *)
THEOREM TypeCorrect == Spec => []TypeOK
  <1>1. IndInv => TypeOK
    BY DEF IndInv
  <1> QED
    BY <1>1, Invariance, PTL

(* fetchEvents never hands one event to two consumers.                     *)
THEOREM Exclusive == Spec => []NoConcurrentHandling
  <1>1. IndInv => NoConcurrentHandling
    BY DEF IndInv, HoldInv, UniqueEvents, NoConcurrentHandling, EventsOf
  <1> QED
    BY <1>1, Invariance, PTL

-----------------------------------------------------------------------------
(* Without NULL event_ids every row has an identity that outlives Recreate. *)

NamedEvents == \A i \in Live : queue[i].event # NullID

LEMMA EventsNamed ==
  ASSUME IndInv, NamedEvents, NEW S \in SUBSET Live
  PROVE  EventsOf(S) \subseteq EventIDs
  BY DEF IndInv, TypeOK, NamedEvents, EventsOf, Row

(* What the writes of the table do to its rows.                            *)
LEMMA DeleteRows ==
  ASSUME NEW gone, queue' = Without(gone)
  PROVE  Live' = Live \ gone /\ \A i \in Live' : queue'[i] = queue[i]
  BY DEF Live, Without

LEMMA EnqueueRows ==
  ASSUME IndInv, NEW e \in EventIDs, NEW d \in Delays, Enqueue(e, d)
  PROVE  /\ \A i \in Live : i \in Live' /\ queue'[i].event = queue[i].event
         /\ \A i \in Live : queue[i].event # e => queue'[i] = queue[i]
         /\ \A i \in Live' \ Live : queue'[i].event = e /\ i \in Fresh
         /\ \E i \in Live' : queue'[i].event = e
  <1>1. CASE \E i \in RowsOf(e) :
               /\ queue' = [queue EXCEPT ![i] = Reset(@)]
               /\ older' = Created({i}, {})
    <2>1. PICK i \in RowsOf(e) : queue' = [queue EXCEPT ![i] = Reset(@)]
      BY <1>1
    <2>2. Live' = Live /\ i \in Live /\ queue[i].event = e
      BY <2>1 DEF Live, RowsOf
    <2>3. \A j \in Live : queue'[j] = IF j = i THEN Reset(queue[j]) ELSE queue[j]
      BY <2>1 DEF Live
    <2>4. Reset(queue[i]).event = e
      BY <2>2 DEF Reset
    <2> QED
      BY <2>2, <2>3, <2>4
  <1>2. CASE /\ RowsOf(e) = {}
             /\ \E i \in Fresh :
                  /\ queue' = [j \in Live \union {i} |-> IF j = i THEN NewRow(e, d) ELSE queue[j]]
                  /\ older' = Created({i}, {})
    <2>1. PICK i \in Fresh :
            queue' = [j \in Live \union {i} |-> IF j = i THEN NewRow(e, d) ELSE queue[j]]
      BY <1>2
    <2>2. Live' = Live \union {i} /\ i \notin Live
      BY <2>1 DEF Live, Fresh
    <2>3. queue'[i] = NewRow(e, d) /\ \A j \in Live : queue'[j] = queue[j]
      BY <2>1, <2>2
    <2> QED
      BY <2>1, <2>2, <2>3 DEF NewRow
  <1> QED
    BY <1>1, <1>2 DEF Enqueue

\* The batch goes and each failed event comes back in a row of its own.
LEMMA ReplaceRows ==
  ASSUME IndInv, NamedEvents, NEW c \in AsyncConsumers, ReplaceBatch(c)
  PROVE  /\ Live \ held[c] \subseteq Live'
         /\ \A i \in Live \ held[c] : queue'[i] = queue[i]
         /\ \A n \in Live' \ (Live \ held[c]) :
              n \in Fresh /\ \E i \in failed[c] : queue'[n] = Recreated(i)
         /\ \A i \in failed[c] : \E n \in Live' : queue'[n] = Recreated(i)
         /\ \A i \in failed[c] : i \in held[c] /\ i \in Live /\ Recreated(i).event = queue[i].event
         /\ \A i \in failed[c] : Recreated(i).attempts = queue[i].attempts + 1
  <1> DEFINE F == failed[c]
  <1>1. F \subseteq held[c] /\ F \subseteq Live
    BY DEF IndInv, HoldInv, Consumers
  <1>2. PICK new \in [F -> Fresh] :
          LET N == {new[i] : i \in F}
              Source(n) == CHOOSE i \in F : new[i] = n
          IN  /\ \A i, j \in F : new[i] = new[j] => i = j
              /\ queue' = [n \in (Live \ held[c]) \union N |->
                             IF n \in N THEN Recreated(Source(n)) ELSE queue[n]]
              /\ older' = Created(N, held[c])
    BY DEF ReplaceBatch
  <1> DEFINE N == {new[i] : i \in F}
             Source(n) == CHOOSE i \in F : new[i] = n
  <1>3. Live' = (Live \ held[c]) \union N
    BY <1>2 DEF Live
  <1>4. N \subseteq Fresh /\ N \intersect Live = {}
    BY <1>2 DEF Fresh
  <1>5. \A n \in N : Source(n) \in F /\ new[Source(n)] = n
    OBVIOUS
  <1>6. \A i \in F : new[i] \in N /\ Source(new[i]) = i
    BY <1>2
  <1>7. \A n \in N : queue'[n] = Recreated(Source(n))
    BY <1>2
  <1>8. \A n \in Live \ held[c] : queue'[n] = queue[n]
    BY <1>2, <1>4
  <1> HIDE DEF N, Source
  <1>9. \A i \in F : \E n \in Live' : queue'[n] = Recreated(i)
    BY <1>3, <1>6, <1>7
  <1>10. \A n \in Live' \ (Live \ held[c]) : n \in Fresh /\ \E i \in F : queue'[n] = Recreated(i)
    BY <1>3, <1>4, <1>5, <1>7
  <1>11. \A i \in F : Recreated(i).event = queue[i].event /\ Recreated(i).attempts = queue[i].attempts + 1
    BY <1>1 DEF Recreated, Scanned, NamedEvents
  <1> QED
    BY <1>1, <1>3, <1>8, <1>9, <1>10, <1>11

\* The UPDATE that records a failure.
LEMMA SaveRows ==
  ASSUME NEW c \in SyncConsumers, SaveAttempt(c)
  PROVE  /\ Live' = Live
         /\ \A i \in Live : queue'[i].event = queue[i].event
         /\ \A i \in Live : \/ queue'[i] = queue[i]
                            \/ i = retry[c].id /\ queue'[i].attempts = retry[c].attempts
  <1>1. CASE retry[c].id \in Live
    <2>1. queue' = [queue EXCEPT ![retry[c].id] = Attempted(@, retry[c].attempts)]
      BY <1>1 DEF SaveAttempt
    <2>2. Live' = Live
      BY <2>1 DEF Live
    <2>3. \A j \in Live : queue'[j] = IF j = retry[c].id
                                      THEN Attempted(queue[j], retry[c].attempts)
                                      ELSE queue[j]
      BY <2>1 DEF Live
    <2>4. /\ Attempted(queue[retry[c].id], retry[c].attempts).event = queue[retry[c].id].event
          /\ Attempted(queue[retry[c].id], retry[c].attempts).attempts = retry[c].attempts
      BY DEF Attempted
    <2> QED
      BY <2>2, <2>3, <2>4
  <1>2. CASE retry[c].id \notin Live
    BY <1>2 DEF SaveAttempt, Live
  <1> QED
    BY <1>1, <1>2

LEMMA NamedStep ==
  ASSUME IndInv, NamedEvents, [Next]_vars
  PROVE  NamedEvents'
  <1> USE ConstantsAssumption
  <1>1. CASE UNCHANGED queue
    BY <1>1 DEF NamedEvents, Live
  <1>2. ASSUME NEW e \in EventIDs, NEW d \in Delays, Enqueue(e, d)
        PROVE  NamedEvents'
    <2>1. /\ \A i \in Live : queue'[i].event = queue[i].event
          /\ \A i \in Live' \ Live : queue'[i].event = e
      BY <1>2, EnqueueRows
    <2>2. e # NullID
      OBVIOUS
    <2> QED
      BY <2>1, <2>2 DEF NamedEvents
  <1>3. CASE Tick
    <2>1. Live' = Live /\ \A i \in Live : queue'[i] = Aged(queue[i])
      BY <1>3 DEF Tick, Live
    <2> QED
      BY <2>1, RowUpdates DEF NamedEvents, IndInv, TypeOK
  <1>4. ASSUME NEW c \in SyncConsumers, Sync(c)
        PROVE  NamedEvents'
    <2>1. CASE SaveAttempt(c)
      BY <2>1, SaveRows DEF NamedEvents
    <2>2. CASE queue' = Without(held[c])
      BY <2>2, DeleteRows DEF NamedEvents
    <2> QED
      BY <1>1, <1>4, <2>1, <2>2 DEF Sync, SyncFetch, HandlerSucceeds, HandlerFails,
         SyncCommit, SyncCommitFails, SaveAttemptFails
  <1>5. ASSUME NEW c \in AsyncConsumers, Async(c)
        PROVE  NamedEvents'
    <2>1. CASE ReplaceBatch(c)
      BY <2>1, ReplaceRows DEF NamedEvents
    <2> QED
      BY <1>1, <1>5, <2>1 DEF Async, AsyncFetch, HandlerReturns, AsyncCommit, AsyncConflict,
         AsyncCommitFails
  <1> QED
    BY <1>1, <1>2, <1>3, <1>4, <1>5
    DEF Next, Loop, Wake, HandleError, FetchFails, Crash, vars

LEMMA NamedInvariance ==
  ASSUME LegacyIds = {}
  PROVE  Spec => [](IndInv /\ NamedEvents)
  <1>1. Init => NamedEvents
    BY DEF Init, NamedEvents, Live
  <1>2. IndInv /\ NamedEvents /\ [Next]_vars => NamedEvents'
    BY NamedStep
  <1> QED
    BY <1>1, <1>2, Invariance, PTL DEF Spec

-----------------------------------------------------------------------------
(* The counts of an event's failures.                                      *)

\* No step renames a row, and new rows are remembered by nobody.
RowsKeepName(e) ==
  \A i \in Live' : queue'[i].event = e => i \in Fresh \/ (i \in Live /\ queue[i].event = e)

LEMMA CountsFrom ==
  ASSUME IndInv, NEW e \in EventIDs, RowsKeepName(e),
         \A i \in Live' : queue'[i].event = e => \E m \in Counts(e) : m <= queue'[i].attempts,
         \A d \in SyncConsumers :
           \/ retry'[d] = retry[d]
           \/ retry'[d] = NoRetry
           \/ \A i \in Live' : i = retry'[d].id /\ queue'[i].event = e =>
                \E m \in Counts(e) : m <= retry'[d].attempts
  PROVE  \A n \in Counts(e)' : \E m \in Counts(e) : m <= n
  <1> USE ConstantsAssumption
  <1> SUFFICES ASSUME NEW n \in Counts(e)' PROVE \E m \in Counts(e) : m <= n
    OBVIOUS
  <1>1. CASE \E i \in Live' : queue'[i].event = e /\ n = queue'[i].attempts
    BY <1>1
  <1>2. CASE \E d \in SyncConsumers : /\ n = retry'[d].attempts
                                      /\ retry'[d].id \in Live'
                                      /\ queue'[retry'[d].id].event = e
    <2>1. PICK d \in SyncConsumers : /\ n = retry'[d].attempts
                                     /\ retry'[d].id \in Live'
                                     /\ queue'[retry'[d].id].event = e
      BY <1>2
    <2>2. CASE retry'[d] = retry[d]
      <3>1. retry[d].id \notin Fresh
        BY DEF Fresh
      <3>2. retry[d].id \in RowsOf(e)
        BY <2>1, <2>2, <3>1 DEF RowsKeepName, RowsOf
      <3>3. retry[d].attempts \in Counts(e)
        BY <3>2 DEF Counts
      <3>4. retry[d].attempts \in Nat
        BY DEF IndInv, TypeOK
      <3> QED
        BY <2>1, <2>2, <3>3, <3>4
    <2>3. CASE retry'[d] = NoRetry
      <3>1. retry'[d].id = NullID
        BY <2>3 DEF NoRetry
      <3>2. retry'[d].id \in Ids
        BY <2>1 DEF RowsKeepName, Fresh, IndInv, TypeOK
      <3> QED
        BY <3>1, <3>2
    <2> QED
      BY <2>1, <2>2, <2>3
  <1> QED
    BY <1>1, <1>2 DEF Counts, RowsOf

LEMMA CountsOfRow ==
  ASSUME IndInv, NEW e, NEW i \in Live, queue[i].event = e
  PROVE  queue[i].attempts \in Counts(e) /\ queue[i].attempts \in Nat
  BY DEF Counts, RowsOf, IndInv, TypeOK, Row

\* A row that stays as it is, or whose count grows, forgets nothing.
LEMMA CountsGrow ==
  ASSUME IndInv, NEW e \in EventIDs, UNCHANGED retry,
         \A i \in Live' : queue'[i].event = e =>
           /\ i \in Fresh \/ (i \in Live /\ queue[i].event = e)
           /\ \E j \in Live : /\ queue[j].event = e
                              /\ \/ queue'[i].attempts = queue[j].attempts
                                 \/ queue'[i].attempts = queue[j].attempts + 1
  PROVE  \A n \in Counts(e)' : \E m \in Counts(e) : m <= n
  <1>1. \A i \in Live' : queue'[i].event = e => \E m \in Counts(e) : m <= queue'[i].attempts
    <2> SUFFICES ASSUME NEW i \in Live', queue'[i].event = e
                 PROVE  \E m \in Counts(e) : m <= queue'[i].attempts
      OBVIOUS
    <2>1. PICK j \in Live : /\ queue[j].event = e
                            /\ \/ queue'[i].attempts = queue[j].attempts
                               \/ queue'[i].attempts = queue[j].attempts + 1
      OBVIOUS
    <2>2. queue[j].attempts \in Counts(e) /\ queue[j].attempts \in Nat
      BY <2>1, CountsOfRow
    <2>3. queue[j].attempts <= queue'[i].attempts
      BY <2>1, <2>2
    <2> QED
      BY <2>2, <2>3
  <1>2. RowsKeepName(e)
    BY DEF RowsKeepName
  <1> QED
    BY <1>1, <1>2, CountsFrom

LEMMA SyncCounts ==
  ASSUME IndInv, NamedEvents, NEW e \in EventIDs, NEW c \in SyncConsumers, Sync(c)
  PROVE  \A n \in Counts(e)' : \E m \in Counts(e) : m <= n
  <1> USE ConstantsAssumption
  <1>1. CASE SyncFetch(c) \/ HandlerSucceeds(c)
    BY <1>1, CountsGrow DEF SyncFetch, HandlerSucceeds, Live
  <1>2. CASE SyncCommit(c)
    BY <1>2, DeleteRows, CountsGrow DEF SyncCommit
  <1>3. CASE HandlerFails(c) \/ SyncCommitFails(c)
    <2>1. PICK j \in held[c] :
            retry' = [retry EXCEPT ![c] = [id |-> j, attempts |-> queue[j].attempts + 1]]
      BY <1>3 DEF HandlerFails, SyncCommitFails, FailEvent
    <2>2. j \in Live
      BY <2>1 DEF IndInv, HoldInv, Consumers
    <2>3. \A i \in Live' : i \in Live /\ queue'[i] = queue[i]
      BY <1>3, DeleteRows DEF HandlerFails, SyncCommitFails, Live
    <2>4. \A d \in SyncConsumers : d # c => retry'[d] = retry[d]
      BY <2>1 DEF IndInv, TypeOK
    <2>5. retry'[c].id = j /\ retry'[c].attempts = queue[j].attempts + 1
      BY <2>1 DEF IndInv, TypeOK
    <2>6. \A i \in Live' : i = retry'[c].id /\ queue'[i].event = e =>
            \E m \in Counts(e) : m <= retry'[c].attempts
      <3> SUFFICES ASSUME j \in Live', queue'[j].event = e
                   PROVE  \E m \in Counts(e) : m <= retry'[c].attempts
        BY <2>5
      <3>1. queue[j].attempts \in Counts(e) /\ queue[j].attempts \in Nat
        BY <2>2, <2>3, CountsOfRow
      <3> QED
        BY <2>5, <3>1
    <2>7. \A i \in Live' : queue'[i].event = e => \E m \in Counts(e) : m <= queue'[i].attempts
      BY <2>3, CountsOfRow
    <2>8. RowsKeepName(e)
      BY <2>3 DEF RowsKeepName
    <2> QED
      BY <2>4, <2>6, <2>7, <2>8, CountsFrom
  <1>4. CASE SaveAttempt(c) \/ SaveAttemptFails(c)
    <2>1. /\ Live' = Live
          /\ \A i \in Live : queue'[i].event = queue[i].event
          /\ \A i \in Live : \/ queue'[i] = queue[i]
                             \/ i = retry[c].id /\ queue'[i].attempts = retry[c].attempts
      BY <1>4, SaveRows DEF SaveAttemptFails, Live
    <2>2. RowsKeepName(e)
      BY <2>1 DEF RowsKeepName
    <2>3. \A i \in Live' : queue'[i].event = e => \E m \in Counts(e) : m <= queue'[i].attempts
      <3> SUFFICES ASSUME NEW i \in Live, queue[i].event = e
                   PROVE  \E m \in Counts(e) : m <= queue'[i].attempts
        BY <2>1
      <3>1. CASE queue'[i] = queue[i]
        BY <3>1, CountsOfRow
      <3>2. CASE i = retry[c].id /\ queue'[i].attempts = retry[c].attempts
        <4>1. retry[c].attempts \in Counts(e)
          BY <3>2 DEF Counts, RowsOf
        <4>2. retry[c].attempts \in Nat
          BY DEF IndInv, TypeOK
        <4> QED
          BY <3>2, <4>1, <4>2
      <3> QED
        BY <2>1, <3>1, <3>2
    <2>4. \A d \in SyncConsumers : retry'[d] = retry[d] \/ retry'[d] = NoRetry
      BY <1>4 DEF SaveAttempt, SaveAttemptFails, IndInv, TypeOK
    <2> QED
      BY <2>2, <2>3, <2>4, CountsFrom
  <1> QED
    BY <1>1, <1>2, <1>3, <1>4 DEF Sync

LEMMA AsyncCounts ==
  ASSUME IndInv, NamedEvents, NEW e \in EventIDs, NEW c \in AsyncConsumers, Async(c)
  PROVE  \A n \in Counts(e)' : \E m \in Counts(e) : m <= n
  <1>1. UNCHANGED retry
    BY DEF Async, AsyncFetch, HandlerReturns, AsyncCommit, AsyncConflict, AsyncCommitFails, EndBatch
  <1>2. CASE UNCHANGED queue
    BY <1>1, <1>2, CountsGrow DEF Live
  <1>3. CASE ReplaceBatch(c)
    <2> SUFFICES ASSUME NEW i \in Live', queue'[i].event = e
                 PROVE  /\ i \in Fresh \/ (i \in Live /\ queue[i].event = e)
                        /\ \E j \in Live : /\ queue[j].event = e
                                           /\ \/ queue'[i].attempts = queue[j].attempts
                                              \/ queue'[i].attempts = queue[j].attempts + 1
      BY <1>1, CountsGrow
    <2> QED
      BY <1>3, ReplaceRows
  <1> QED
    BY <1>2, <1>3 DEF Async, AsyncFetch, HandlerReturns, AsyncCommit, AsyncConflict,
       AsyncCommitFails

LEMMA CountsStep ==
  ASSUME IndInv, NamedEvents, [Next]_vars, NEW e \in EventIDs, enqueues'[e] = enqueues[e]
  PROVE  \A n \in Counts(e)' : \E m \in Counts(e) : m <= n
  <1>1. CASE UNCHANGED <<queue, retry>>
    BY <1>1, CountsGrow DEF Live
  <1>2. ASSUME NEW f \in EventIDs, NEW d \in Delays, Enqueue(f, d)
        PROVE  \A n \in Counts(e)' : \E m \in Counts(e) : m <= n
    <2>1. f # e
      BY <1>2 DEF Enqueue, IndInv, TypeOK
    <2>2. UNCHANGED retry
      BY <1>2 DEF Enqueue
    <2>3. \A i \in Live' : queue'[i].event = e => i \in Live /\ queue'[i] = queue[i]
      BY <1>2, <2>1, EnqueueRows
    <2> QED
      BY <2>2, <2>3, CountsGrow
  <1>3. CASE Tick
    <2>1. Live' = Live /\ (\A i \in Live : queue'[i] = Aged(queue[i])) /\ UNCHANGED retry
      BY <1>3 DEF Tick, Live
    <2>2. \A i \in Live : /\ queue'[i].event = queue[i].event
                          /\ queue'[i].attempts = queue[i].attempts
      BY <2>1, RowUpdates DEF IndInv, TypeOK
    <2> QED
      BY <2>1, <2>2, CountsGrow
  <1>4. ASSUME NEW c \in Consumers, Crash(c)
        PROVE  \A n \in Counts(e)' : \E m \in Counts(e) : m <= n
    <2>1. UNCHANGED queue /\ Live' = Live
      BY <1>4 DEF Crash, Live
    <2>2. \A d \in SyncConsumers : retry'[d] = retry[d] \/ retry'[d] = NoRetry
      BY <1>4 DEF Crash
    <2>3. RowsKeepName(e)
      BY <2>1 DEF RowsKeepName
    <2>4. \A i \in Live' : queue'[i].event = e => \E m \in Counts(e) : m <= queue'[i].attempts
      BY <2>1, CountsOfRow
    <2> QED
      BY <2>2, <2>3, <2>4, CountsFrom
  <1> QED
    BY <1>1, <1>2, <1>3, <1>4, SyncCounts, AsyncCounts
    DEF Next, Loop, Wake, HandleError, FetchFails, vars

(* SaveAttempt's UPDATE, whichever transactions came between the rollback and  *)
(* it, and Recreate never take the least known count of an event down.         *)
THEOREM NotForgotten ==
  ASSUME LegacyIds = {}
  PROVE  Spec => AttemptsNotForgotten
  <1>1. IndInv /\ NamedEvents /\ [Next]_vars =>
          [\A e \in EventIDs :
             enqueues'[e] = enqueues[e] /\ Counts(e) # {} =>
               \A n \in Counts(e)' : \E m \in Counts(e) : m <= n]_vars
    BY CountsStep
  <1> QED
    BY <1>1, NamedInvariance, PTL DEF Spec, AttemptsNotForgotten

-----------------------------------------------------------------------------
(* The queue implements WorkQueue.  Each lemma maps a kind of step.        *)

\* What a consumer holds and has handled, as the abstract specification sees it.
LEMMA AbstractHolds ==
  ASSUME IndInv, NamedEvents, NEW c \in Consumers
  PROVE  /\ Handled(c) \subseteq held[c] /\ held[c] \subseteq Live
         /\ EventsOf(Handled(c)) \subseteq EventsOf(held[c])
         /\ EventsOf(held[c]) \subseteq EventsOf(Live)
         /\ EventsOf(Live) \subseteq EventIDs
  <1>1. Handled(c) \subseteq held[c] /\ held[c] \subseteq Live
    BY DEF Handled, IndInv, HoldInv
  <1>2. EventsOf(Live) \subseteq EventIDs
    BY EventsNamed
  <1> QED
    BY <1>1, <1>2 DEF EventsOf

\* Rows are events: what two sets of rows share, their events share.
LEMMA EventsApart ==
  ASSUME IndInv, NamedEvents, NEW S \in SUBSET Live, NEW T \in SUBSET Live
  PROVE  /\ EventsOf(S \ T) = EventsOf(S) \ EventsOf(T)
         /\ S \intersect T = {} => EventsOf(S) \intersect EventsOf(T) = {}
  BY DEF IndInv, UniqueEvents, NamedEvents, EventsOf

\* Nothing the abstract specification sees has changed.
LEMMA Invisible ==
  ASSUME IndInv, NamedEvents, Live' = Live,
         \A i \in Live : queue'[i].event = queue[i].event,
         UNCHANGED <<held, enqueues>>,
         \A d \in Consumers : Handled(d)' = Handled(d)
  PROVE  UNCHANGED WQ!wqvars
  <1>1. EventsOf(Live)' = EventsOf(Live)
    BY DEF EventsOf
  <1>2. \A d \in Consumers : EventsOf(held[d])' = EventsOf(held[d])
    BY DEF EventsOf, IndInv, HoldInv
  <1>3. \A d \in Consumers : EventsOf(Handled(d))' = EventsOf(Handled(d))
    BY AbstractHolds DEF EventsOf
  <1> QED
    BY <1>1, <1>2, <1>3 DEF WQ!wqvars

LEMMA AskStep ==
  ASSUME IndInv, NamedEvents, NEW e \in EventIDs, NEW d \in Delays, Enqueue(e, d)
  PROVE  WQ!Ask(e)
  <1>1. /\ \A i \in Live : i \in Live' /\ queue'[i].event = queue[i].event
        /\ \A i \in Live' \ Live : queue'[i].event = e
        /\ \E i \in Live' : queue'[i].event = e
    BY EnqueueRows
  <1>2. UNCHANGED <<pc, held, ran, failed>>
    BY DEF Enqueue
  <1>3. EventsOf(Live)' = EventsOf(Live) \union {e}
    BY <1>1 DEF EventsOf
  <1>4. \A c \in Consumers : EventsOf(held[c])' = EventsOf(held[c])
    BY <1>1, <1>2, AbstractHolds DEF EventsOf
  <1>5. \A c \in Consumers : EventsOf(Handled(c))' = EventsOf(Handled(c))
    <2>1. \A c \in Consumers : Handled(c)' = Handled(c)
      BY <1>2 DEF Handled
    <2> QED
      BY <1>1, <2>1, AbstractHolds DEF EventsOf
  <1>6. e \notin WQ!Claimed
    <2> SUFFICES ASSUME NEW c \in Consumers, e \in EventsOf(held[c]) PROVE FALSE
      BY DEF WQ!Claimed
    <2>1. PICK i \in held[c] : queue[i].event = e
      BY DEF EventsOf
    <2>2. i \in RowsOf(e) /\ i \in Locked
      BY <2>1, AbstractHolds DEF RowsOf, Locked
    <2> QED
      BY <2>2 DEF Enqueue
  <1>7. enqueues' = [enqueues EXCEPT ![e] = @ + 1]
    BY DEF Enqueue
  <1> QED
    BY <1>3, <1>4, <1>5, <1>6, <1>7 DEF WQ!Ask

\* A fetch: eligible rows are in nobody's transaction.
LEMMA ClaimStep ==
  ASSUME IndInv, NamedEvents, NEW c \in Consumers, pc[c] = "polling",
         NEW S \in SUBSET Eligible, held' = [held EXCEPT ![c] = S],
         UNCHANGED <<queue, ran, failed, enqueues>>,
         \E l \in {"waiting", "handling"} : Goto(c, l)
  PROVE  EventsOf(S) \in SUBSET EventIDs /\ WQ!Claim(c, EventsOf(S))
  <1> USE ConstantsAssumption
  <1>1. S \subseteq Live /\ \A d \in Consumers : S \intersect held[d] = {}
    BY DEF Eligible, Locked
  <1>2. EventsOf(S) \subseteq EventIDs
    BY <1>1, EventsNamed
  <1>3. held[c] = {}
    BY DEF IndInv, HoldInv
  <1>4. \A d \in Consumers : EventsOf(S) \intersect EventsOf(held[d]) = {}
    BY <1>1, AbstractHolds, EventsApart
  <1>5. EventsOf(S) \subseteq EventsOf(Live) \ WQ!Claimed
    BY <1>1, <1>4 DEF EventsOf, WQ!Claimed
  <1>6. EventsOf(Live)' = EventsOf(Live)
    BY DEF EventsOf, Live
  <1>7. \A d \in Consumers : EventsOf(held[d])' = IF d = c THEN EventsOf(S) ELSE EventsOf(held[d])
    BY DEF EventsOf, IndInv, TypeOK
  <1>8. \A d \in Consumers : Handled(d)' = Handled(d)
    <2> SUFFICES ASSUME NEW d \in Consumers PROVE Handled(d)' = Handled(d)
      OBVIOUS
    <2>1. CASE d # c
      BY <2>1 DEF Handled, Goto, IndInv, TypeOK
    <2>2. CASE d = c
      <3>1. d \in SyncConsumers => ran[d] = 0
        BY <2>2 DEF IndInv, HoldInv
      <3>2. pc'[d] # "committing"
        BY <2>2 DEF Goto, IndInv, TypeOK
      <3> QED
        BY <2>2, <3>1, <3>2 DEF Handled
    <2> QED
      BY <2>1, <2>2
  <1>9. \A d \in Consumers : EventsOf(Handled(d))' = EventsOf(Handled(d))
    BY <1>8 DEF EventsOf
  <1>10. EventsOf(held[c]) = {}
    BY <1>3 DEF EventsOf
  <1> QED
    BY <1>2, <1>5, <1>6, <1>7, <1>9, <1>10 DEF WQ!Claim

\* Handlers return: what was claimed stays claimed.
LEMMA HandleStep ==
  ASSUME IndInv, NamedEvents, NEW c \in Consumers, UNCHANGED <<queue, held, enqueues>>,
         Handled(c)' \subseteq held[c], NEW D, D = EventsOf(Handled(c))',
         \A d \in Consumers : d # c => Handled(d)' = Handled(d)
  PROVE  D \in SUBSET EventIDs /\ WQ!Handle(c, D)
  <1>1. EventsOf(Live)' = EventsOf(Live)
    BY DEF EventsOf, Live
  <1>2. \A d \in Consumers : EventsOf(held[d])' = EventsOf(held[d])
    BY DEF EventsOf
  <1>3. \A d \in Consumers : d # c => EventsOf(Handled(d))' = EventsOf(Handled(d))
    BY DEF EventsOf
  <1>4. D \subseteq EventsOf(held[c])
    BY DEF EventsOf
  <1>5. D \subseteq EventIDs
    BY <1>4, AbstractHolds
  <1> QED
    BY <1>1, <1>2, <1>3, <1>4, <1>5 DEF WQ!Handle

\* The end of a transaction, D the events it has taken out of the table.
LEMMA FinishStep ==
  ASSUME IndInv, NamedEvents, NEW c \in Consumers, NEW D,
         D \subseteq EventsOf(Handled(c)), EventsOf(Live)' = EventsOf(Live) \ D,
         held' = [held EXCEPT ![c] = {}], UNCHANGED enqueues,
         \A i \in Live \ held[c] : queue'[i] = queue[i],
         \A d \in Consumers : d # c => Handled(d)' = Handled(d)
  PROVE  D \in SUBSET EventIDs /\ WQ!Finish(c, D)
  <1>1. \A d \in Consumers : held'[d] = IF d = c THEN {} ELSE held[d]
    BY DEF IndInv, TypeOK
  <1>2. Handled(c)' = {}
    BY <1>1 DEF Handled
  <1>3. \A d \in Consumers : d # c => held[d] \subseteq Live \ held[c]
    BY DEF IndInv, HoldInv
  <1>4. \A d \in Consumers : EventsOf(held[d])' = IF d = c THEN {} ELSE EventsOf(held[d])
    BY <1>1, <1>3 DEF EventsOf
  <1>5. \A d \in Consumers :
          EventsOf(Handled(d))' = IF d = c THEN {} ELSE EventsOf(Handled(d))
    BY <1>2, <1>3, AbstractHolds DEF EventsOf
  <1>6. D \subseteq EventIDs
    BY AbstractHolds
  <1> QED
    BY <1>4, <1>5, <1>6 DEF WQ!Finish

LEMMA SyncRefines ==
  ASSUME IndInv, NamedEvents, NEW c \in SyncConsumers, Sync(c)
  PROVE  [WQ!WQNext]_(WQ!wqvars)
  <1> USE ConstantsAssumption
  <1>0. c \in Consumers /\ c \notin AsyncConsumers
    BY DEF Consumers
  <1>1. CASE SyncFetch(c)
    <2>1. PICK S \in SUBSET Eligible :
            held' = [held EXCEPT ![c] = S] /\ \E l \in {"waiting", "handling"} : Goto(c, l)
      BY <1>1 DEF SyncFetch
    <2>2. EventsOf(S) \in SUBSET EventIDs /\ WQ!Claim(c, EventsOf(S))
      BY <1>0, <1>1, <2>1, ClaimStep DEF SyncFetch
    <2> QED
      BY <1>0, <2>2 DEF WQ!WQNext
  <1>2. CASE HandlerSucceeds(c)
    <2>1. \A d \in Consumers : d # c => Handled(d)' = Handled(d)
      BY <1>2 DEF HandlerSucceeds, Handled, IndInv, TypeOK
    <2>2. Handled(c)' \subseteq held[c]
      BY <1>2 DEF HandlerSucceeds, Handled, IndInv, HoldInv
    <2> DEFINE D == EventsOf(Handled(c))'
    <2>3. D \in SUBSET EventIDs /\ WQ!Handle(c, D)
      <3> HIDE DEF D
      <3>1. D = EventsOf(Handled(c))'
        BY DEF D
      <3> QED
        BY <1>0, <1>2, <2>1, <2>2, <3>1, HandleStep DEF HandlerSucceeds
    <2> HIDE DEF D
    <2> QED
      BY <1>0, <2>3 DEF WQ!WQNext
  <1>3. CASE HandlerFails(c) \/ SyncCommitFails(c) \/ SyncCommit(c)
    <2>1. /\ held' = [held EXCEPT ![c] = {}] /\ UNCHANGED enqueues
          /\ \A d \in SyncConsumers : d # c => ran'[d] = ran[d]
          /\ \A d \in Consumers : d # c => pc'[d] = pc[d]
          /\ UNCHANGED failed
      BY <1>3 DEF HandlerFails, SyncCommitFails, SyncCommit, FailEvent, Goto, IndInv, TypeOK
    <2>2. \A d \in Consumers : d # c => Handled(d)' = Handled(d)
      BY <2>1 DEF Handled, IndInv, TypeOK
    <2>3. CASE UNCHANGED queue
      <3>1. EventsOf(Live)' = EventsOf(Live) \ {} /\ \A i \in Live \ held[c] : queue'[i] = queue[i]
        BY <2>3 DEF EventsOf, Live
      <3>2. {} \in SUBSET EventIDs /\ WQ!Finish(c, {})
        BY <1>0, <2>1, <2>2, <3>1, FinishStep
      <3> QED
        BY <1>0, <3>2 DEF WQ!WQNext
    <2>4. CASE queue' = Without(held[c]) /\ ran[c] = NumHandlers
      <3>1. Live' = Live \ held[c] /\ \A i \in Live' : queue'[i] = queue[i]
        BY <2>4, DeleteRows
      <3>2. EventsOf(Live)' = EventsOf(Live \ held[c])
        BY <3>1 DEF EventsOf
      <3>3. EventsOf(Live \ held[c]) = EventsOf(Live) \ EventsOf(held[c])
        BY <1>0, AbstractHolds, EventsApart
      <3>4. EventsOf(held[c]) \subseteq EventsOf(Handled(c))
        BY <2>4 DEF Handled
      <3>5. EventsOf(held[c]) \in SUBSET EventIDs /\ WQ!Finish(c, EventsOf(held[c]))
        BY <1>0, <2>1, <2>2, <3>1, <3>2, <3>3, <3>4, FinishStep
      <3> QED
        BY <1>0, <3>5 DEF WQ!WQNext
    <2> QED
      BY <1>3, <2>3, <2>4 DEF HandlerFails, SyncCommitFails, SyncCommit
  <1>4. CASE SaveAttempt(c) \/ SaveAttemptFails(c)
    <2>1. Live' = Live /\ \A i \in Live : queue'[i].event = queue[i].event
      BY <1>4, SaveRows DEF SaveAttemptFails, Live
    <2>2. /\ pc[c] = "failed" /\ UNCHANGED <<held, failed, enqueues>> /\ Goto(c, "error")
          /\ ran' = [ran EXCEPT ![c] = 0]
      BY <1>4 DEF SaveAttempt, SaveAttemptFails
    <2>3. held[c] = {}
      BY <1>0, <2>2 DEF IndInv, HoldInv
    <2>4. \A d \in Consumers : Handled(d)' = Handled(d)
      BY <1>0, <2>2, <2>3 DEF Handled, Goto, IndInv, TypeOK
    <2> QED
      BY <2>1, <2>2, <2>4, Invisible
  <1> QED
    BY <1>1, <1>2, <1>3, <1>4 DEF Sync

LEMMA AsyncRefines ==
  ASSUME IndInv, NamedEvents, NEW c \in AsyncConsumers, Async(c)
  PROVE  [WQ!WQNext]_(WQ!wqvars)
  <1> USE ConstantsAssumption
  <1>0. c \in Consumers /\ c \notin SyncConsumers
    BY DEF Consumers
  <1>1. CASE AsyncFetch(c)
    <2>1. PICK S \in SUBSET Eligible :
            held' = [held EXCEPT ![c] = S] /\ \E l \in {"waiting", "handling"} : Goto(c, l)
      BY <1>1 DEF AsyncFetch
    <2>2. EventsOf(S) \in SUBSET EventIDs /\ WQ!Claim(c, EventsOf(S))
      BY <1>0, <1>1, <2>1, ClaimStep DEF AsyncFetch
    <2> QED
      BY <1>0, <2>2 DEF WQ!WQNext
  <1>2. CASE HandlerReturns(c)
    <2>1. \A d \in Consumers : d # c => Handled(d)' = Handled(d)
      BY <1>2 DEF HandlerReturns, Goto, Handled, IndInv, TypeOK
    <2>2. Handled(c)' \subseteq held[c]
      BY <1>0, <1>2 DEF HandlerReturns, Handled
    <2> DEFINE D == EventsOf(Handled(c))'
    <2>3. D \in SUBSET EventIDs /\ WQ!Handle(c, D)
      <3> HIDE DEF D
      <3>1. D = EventsOf(Handled(c))'
        BY DEF D
      <3> QED
        BY <1>0, <1>2, <2>1, <2>2, <3>1, HandleStep DEF HandlerReturns
    <2> HIDE DEF D
    <2> QED
      BY <1>0, <2>3 DEF WQ!WQNext
  <1>3. CASE AsyncCommit(c) \/ AsyncConflict(c) \/ AsyncCommitFails(c)
    <2>1. PICK l \in {"waiting", "polling", "error"} : EndBatch(c, l)
      BY <1>3 DEF AsyncCommit, AsyncConflict, AsyncCommitFails
    <2>2. /\ held' = [held EXCEPT ![c] = {}] /\ UNCHANGED <<enqueues, ran>>
          /\ \A d \in AsyncConsumers : d # c => failed'[d] = failed[d]
          /\ \A d \in Consumers : d # c => pc'[d] = pc[d]
          /\ \A d \in Consumers : d # c => held'[d] = held[d]
      BY <2>1 DEF EndBatch, Goto, IndInv, TypeOK
    <2>3. \A d \in Consumers : d # c => Handled(d)' = Handled(d)
      BY <2>2 DEF Handled, Consumers
    <2>4. CASE UNCHANGED queue
      <3>1. EventsOf(Live)' = EventsOf(Live) \ {} /\ \A i \in Live \ held[c] : queue'[i] = queue[i]
        BY <2>4 DEF EventsOf, Live
      <3>2. {} \in SUBSET EventIDs /\ WQ!Finish(c, {})
        BY <1>0, <2>2, <2>3, <3>1, FinishStep
      <3> QED
        BY <1>0, <3>2 DEF WQ!WQNext
    <2>5. CASE ReplaceBatch(c) /\ pc[c] = "committing"
      <3> DEFINE F == failed[c]
      <3>1. /\ Live \ held[c] \subseteq Live'
            /\ \A i \in Live \ held[c] : queue'[i] = queue[i]
            /\ \A n \in Live' \ (Live \ held[c]) : \E i \in F : queue'[n] = Recreated(i)
            /\ \A i \in F : \E n \in Live' : queue'[n] = Recreated(i)
            /\ \A i \in F : i \in held[c] /\ i \in Live /\ Recreated(i).event = queue[i].event
        BY <2>5, ReplaceRows
      <3>2. Handled(c) = held[c] \ F /\ Handled(c) \subseteq Live
        BY <1>0, <2>5, AbstractHolds DEF Handled
      <3>3. EventsOf(Live)' = EventsOf(Live \ Handled(c))
        <4>1. ASSUME NEW e \in EventsOf(Live)' PROVE e \in EventsOf(Live \ Handled(c))
          <5>1. PICK n \in Live' : e = queue'[n].event
            BY <4>1 DEF EventsOf
          <5>2. CASE n \in Live \ held[c]
            BY <3>1, <3>2, <5>1, <5>2 DEF EventsOf
          <5>3. CASE n \notin Live \ held[c]
            <6>1. PICK i \in F : queue'[n] = Recreated(i)
              BY <3>1, <5>3
            <6>2. i \in Live \ Handled(c) /\ e = queue[i].event
              BY <3>1, <3>2, <5>1, <6>1
            <6> QED
              BY <6>2 DEF EventsOf
          <5> QED
            BY <5>2, <5>3
        <4>2. ASSUME NEW e \in EventsOf(Live \ Handled(c)) PROVE e \in EventsOf(Live)'
          <5>1. PICK i \in Live \ Handled(c) : e = queue[i].event
            BY <4>2 DEF EventsOf
          <5>2. CASE i \in Live \ held[c]
            BY <3>1, <5>1, <5>2 DEF EventsOf
          <5>3. CASE i \in F
            BY <3>1, <5>1, <5>3 DEF EventsOf
          <5> QED
            BY <3>2, <5>2, <5>3
        <4> QED
          BY <4>1, <4>2
      <3>4. EventsOf(Live \ Handled(c)) = EventsOf(Live) \ EventsOf(Handled(c))
        BY <3>2, EventsApart
      <3>5. /\ EventsOf(Handled(c)) \in SUBSET EventIDs
            /\ WQ!Finish(c, EventsOf(Handled(c)))
        BY <1>0, <2>2, <2>3, <3>1, <3>3, <3>4, FinishStep
      <3> QED
        BY <1>0, <3>5 DEF WQ!WQNext
    <2> QED
      BY <1>3, <2>4, <2>5 DEF AsyncCommit, AsyncConflict, AsyncCommitFails
  <1> QED
    BY <1>1, <1>2, <1>3 DEF Async

LEMMA LoopRefines ==
  ASSUME IndInv, NamedEvents, NEW c \in Consumers, Loop(c)
  PROVE  [WQ!WQNext]_(WQ!wqvars)
  <1> USE ConstantsAssumption
  <1>1. UNCHANGED <<queue, enqueues>> /\ Live' = Live /\ EventsOf(Live)' = EventsOf(Live) \ {}
    BY DEF Loop, Wake, HandleError, FetchFails, Crash, Live, EventsOf
  <1>2. CASE Wake(c) \/ HandleError(c) \/ FetchFails(c)
    <2>1. /\ UNCHANGED <<held, ran, failed>>
          /\ pc[c] # "committing" /\ \E l \in {"waiting", "polling", "error"} : Goto(c, l)
      BY <1>2 DEF Wake, HandleError, FetchFails
    <2>2. \A d \in Consumers : pc'[d] = "committing" <=> pc[d] = "committing"
      BY <2>1 DEF Goto, IndInv, TypeOK
    <2>3. \A d \in Consumers : Handled(d)' = Handled(d)
      BY <2>1, <2>2 DEF Handled
    <2> QED
      BY <1>1, <2>1, <2>3, Invisible
  <1>3. CASE Crash(c)
    <2>1. /\ \A d \in Consumers : d # c => pc'[d] = pc[d] /\ held'[d] = held[d]
          /\ \A d \in SyncConsumers : d # c => ran'[d] = ran[d]
          /\ \A d \in AsyncConsumers : d # c => failed'[d] = failed[d]
      BY <1>3 DEF Crash, Goto, IndInv, TypeOK
    <2>2. \A d \in Consumers : d # c => Handled(d)' = Handled(d)
      BY <2>1 DEF Handled, Consumers
    <2>3. {} \in SUBSET EventIDs /\ WQ!Finish(c, {})
      BY <1>1, <1>3, <2>2, FinishStep DEF Crash
    <2> QED
      BY <2>3 DEF WQ!WQNext
  <1> QED
    BY <1>2, <1>3 DEF Loop

LEMMA StepRefines ==
  ASSUME IndInv, NamedEvents, [Next]_vars
  PROVE  [WQ!WQNext]_(WQ!wqvars)
  <1>1. CASE UNCHANGED vars
    <2>1. /\ Live' = Live /\ UNCHANGED <<queue, held, enqueues>>
          /\ \A d \in Consumers : Handled(d)' = Handled(d)
      BY <1>1 DEF vars, Live, Handled
    <2> QED
      BY <2>1, Invisible
  <1>2. CASE Tick
    <2>1. Live' = Live /\ (\A i \in Live : queue'[i] = Aged(queue[i]))
      BY <1>2 DEF Tick, Live
    <2>2. \A i \in Live : queue'[i].event = queue[i].event
      BY <2>1, RowUpdates DEF IndInv, TypeOK
    <2>3. UNCHANGED <<held, enqueues>> /\ \A d \in Consumers : Handled(d)' = Handled(d)
      BY <1>2 DEF Tick, Handled
    <2> QED
      BY <2>1, <2>2, <2>3, Invisible
  <1>3. ASSUME NEW e \in EventIDs, NEW d \in Delays, Enqueue(e, d)
        PROVE  [WQ!WQNext]_(WQ!wqvars)
    BY <1>3, AskStep DEF WQ!WQNext
  <1> QED
    BY <1>1, <1>2, <1>3, LoopRefines, SyncRefines, AsyncRefines DEF Next

LEMMA InitRefines ==
  ASSUME LegacyIds = {}, Init
  PROVE  WQ!WQInit
  <1>1. Live = {}
    BY DEF Init, Live
  <1>2. \A c \in Consumers : held[c] = {} /\ Handled(c) = {}
    BY DEF Init, Handled
  <1>3. EventsOf(Live) = {} /\ EventsOf({}) = {}
    BY <1>1 DEF EventsOf
  <1> QED
    BY <1>2, <1>3 DEF WQ!WQInit, Init

(* Both Handle methods, the upsert, rollbacks, crashes, Recreate and the late  *)
(* UPDATE together keep the promise of WorkQueue.                              *)
THEOREM Implements ==
  ASSUME LegacyIds = {}
  PROVE  Spec => ImplementsWorkQueue
  <1>1. Init => WQ!WQInit
    BY InitRefines
  <1>2. IndInv /\ NamedEvents /\ [Next]_vars => [WQ!WQNext]_(WQ!wqvars)
    BY StepRefines
  <1> QED
    BY <1>1, <1>2, NamedInvariance, PTL DEF Spec, ImplementsWorkQueue, WQ!WQSpec
=============================================================================
