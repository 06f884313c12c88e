----------------------------- MODULE EventQueue -----------------------------
(***************************************************************************)
(* The event_queue table and the consumers that drain it (postq/*.go).     *)
(*                                                                         *)
(* A consumer claims rows with DELETE ... FOR UPDATE SKIP LOCKED inside a   *)
(* transaction it keeps open while the handlers run, so a claimed row is   *)
(* still in `queue' and merely locked until that transaction ends.  The    *)
(* rows of the model are those whose name is in the watch list: consumers  *)
(* of other names touch other rows.                                        *)
(*                                                                         *)
(* Time is relative.  A row keeps how long ago last_attempt and created_at *)
(* were, each capped where no comparison can tell two values apart.        *)
(***************************************************************************)
EXTENDS Integers, FiniteSets

CONSTANTS
  EventIDs,        \* non-null values of event_queue.event_id
  NilID,           \* uuid.Nil, what a NULL event_id is scanned into
  NullID,          \* a NULL event_id
  Ids,             \* primary keys
  LegacyIds,       \* rows with a NULL event_id, left by older releases
  SyncConsumers,   \* goroutines running SyncEventConsumer.Handle
  AsyncConsumers,  \* goroutines running AsyncEventConsumer.Handle
  NumHandlers,     \* len(SyncEventConsumer.Consumers)
  BatchSize,       \* AsyncEventConsumer.BatchSize, 0 for unset
  MaxAttempts, BaseDelay, Exponent,  \* EventFetcherOption, in Ticks
  Delays,          \* values of the delay column, 0 for NULL
  MaxEnqueues,     \* bound: times one event is enqueued
  MaxFaults        \* bound: crashes and database errors in a behaviour

Consumers == SyncConsumers \union AsyncConsumers

NoAttempt == -1      \* last_attempt IS NULL
DefaultPriority == 100

ASSUME ConstantsAssumption ==
  /\ NilID \in EventIDs /\ NullID \notin EventIDs \union Ids
  /\ IsFiniteSet(Ids) /\ LegacyIds \subseteq Ids
  /\ SyncConsumers \intersect AsyncConsumers = {}
  /\ NumHandlers \in Nat \ {0} /\ BatchSize \in Nat
  /\ MaxAttempts \in Nat /\ BaseDelay \in Nat /\ Exponent \in Nat
  /\ Delays \subseteq Nat
  /\ MaxEnqueues \in Nat /\ MaxFaults \in Nat

VARIABLES
  queue,     \* committed rows, by primary key
  older,     \* <<i, j>>: row i was created before row j
  pc,        \* where each consumer goroutine is
  held,      \* rows each consumer's open transaction has deleted
  ran,       \* sync: handlers that have returned without an error
  retry,     \* sync: the event whose failure is still to be recorded
  failed,    \* async: the events the handler has returned as failed
  enqueues, faults  \* how often each event was enqueued, how often something broke

vars == <<queue, older, pc, held, ran, retry, failed, enqueues, faults>>

Live == DOMAIN queue
Locked == UNION {held[c] : c \in Consumers}

\* BaseDelay * POWER(attempts, Exponent); POWER(0, e) is 0.
Backoff(n) == IF n = 0 THEN 0 ELSE BaseDelay * n ^ Exponent

NoRetry == [id |-> NullID, attempts |-> 0]

Positions == {"waiting", "polling", "handling", "failed", "committing", "error"}

Row == [event : EventIDs \union {NullID}, attempts : Nat,
        lastAttempt : Nat \union {NoAttempt}, delay : Nat, age : Nat, priority : Int]

NewRow(e, d) == [event |-> e, attempts |-> 0, lastAttempt |-> NoAttempt,
                 delay |-> d, age |-> 0, priority |-> DefaultPriority]

Init ==
  /\ queue = [i \in LegacyIds |-> NewRow(NullID, 0)]
  /\ older = {}
  /\ pc = [c \in Consumers |-> "waiting"]
  /\ held = [c \in Consumers |-> {}]
  /\ ran = [c \in SyncConsumers |-> 0]
  /\ retry = [c \in SyncConsumers |-> NoRetry]
  /\ failed = [c \in AsyncConsumers |-> {}]
  /\ enqueues = [e \in EventIDs |-> 0]
  /\ faults = 0

-----------------------------------------------------------------------------
(* The table.                                                              *)

\* A primary key no row has and no consumer remembers: generate_ulid().
Fresh == Ids \ (Live \union {retry[c].id : c \in SyncConsumers})

RowsOf(e) == {i \in Live : queue[i].event = e}

\* created_at = now() for the rows N, the rows `gone' having been deleted.
Created(N, gone) ==
  {p \in older : p[1] \notin gone \union N /\ p[2] \notin gone \union N}
    \union ((Live \ (gone \union N)) \X N)

Without(gone) == [i \in Live \ gone |-> queue[i]]

Elapsed(r) ==
  /\ r.age >= r.delay
  /\ r.lastAttempt = NoAttempt \/ r.lastAttempt >= Backoff(r.attempts)

\* Variant: without FOR UPDATE SKIP LOCKED.
EligibleEvenLocked ==
  {i \in Live : queue[i].attempts <= MaxAttempts /\ Elapsed(queue[i])}

\* Rows the SELECT of fetchEvents may return to some transaction.
Eligible ==
  {i \in Live \ Locked : queue[i].attempts <= MaxAttempts /\ Elapsed(queue[i])}

\* ORDER BY priority DESC, created_at ASC
Before(i, j) ==
  \/ queue[i].priority > queue[j].priority
  \/ queue[i].priority = queue[j].priority /\ <<i, j>> \in older

\* S is what ORDER BY ... LIMIT n leaves of the eligible rows.
IsBatch(S, n) ==
  /\ S \subseteq Eligible
  /\ Cardinality(S) <= n
  /\ S # Eligible => Cardinality(S) = n
  /\ \A i \in S, j \in Eligible \ S : ~Before(j, i)

\* created_at = NOW(), last_attempt = NULL, attempts = 0: delay and priority are
\* left alone, and the delay starts over.
Reset(r) == [event |-> r.event, attempts |-> 0, lastAttempt |-> NoAttempt,
             delay |-> r.delay, age |-> 0, priority |-> r.priority]

\* The triggers' INSERT ... ON CONFLICT (name, event_id) DO UPDATE.  It waits for
\* a transaction that has deleted the row to end.
Enqueue(e, d) ==
  /\ enqueues[e] < MaxEnqueues
  /\ enqueues' = [enqueues EXCEPT ![e] = @ + 1]
  /\ RowsOf(e) \intersect Locked = {}
  /\ \/ \E i \in RowsOf(e) :
          /\ queue' = [queue EXCEPT ![i] = Reset(@)]
          /\ older' = Created({i}, {})
     \/ /\ RowsOf(e) = {}
        /\ \E i \in Fresh :
             /\ queue' = [j \in Live \union {i} |-> IF j = i THEN NewRow(e, d) ELSE queue[j]]
             /\ older' = Created({i}, {})
  /\ UNCHANGED <<pc, held, ran, retry, failed, faults>>

\* One unit of time for every row, held or not.
Aged(r) ==
  [event |-> r.event, attempts |-> r.attempts,
   lastAttempt |-> IF r.lastAttempt # NoAttempt /\ r.lastAttempt < Backoff(MaxAttempts)
                   THEN r.lastAttempt + 1 ELSE r.lastAttempt,
   delay |-> r.delay, age |-> IF r.age < r.delay THEN r.age + 1 ELSE r.age,
   priority |-> r.priority]

Tick ==
  /\ queue' = [i \in Live |-> Aged(queue[i])]
  /\ UNCHANGED <<older, pc, held, ran, retry, failed, enqueues, faults>>

-----------------------------------------------------------------------------
(* PGConsumer: the loop of one consumer goroutine.                         *)

Goto(c, l) == pc' = [pc EXCEPT ![c] = l]

\* Listen: a notification, or pgNotifyTimeout without one.
Wake(c) ==
  /\ pc[c] = "waiting"
  /\ Goto(c, "polling")
  /\ UNCHANGED <<queue, older, held, ran, retry, failed, enqueues, faults>>

\* ConsumeUntilEmpty asks the error handler whether to try again.
HandleError(c) ==
  /\ pc[c] = "error"
  /\ Goto(c, "polling") \/ Goto(c, "waiting")
  /\ UNCHANGED <<queue, older, held, ran, retry, failed, enqueues, faults>>

Fault == faults < MaxFaults /\ faults' = faults + 1

\* The transaction cannot be begun, or the fetch fails.
FetchFails(c) ==
  /\ pc[c] = "polling"
  /\ Fault
  /\ Goto(c, "error")
  /\ UNCHANGED <<queue, older, held, ran, retry, failed, enqueues>>

\* The process dies: the database rolls its transactions back, a new process
\* starts over in Listen and nothing is recorded about the event.
Crash(c) ==
  /\ pc[c] # "waiting"
  /\ Fault
  /\ Goto(c, "waiting")
  /\ held' = [held EXCEPT ![c] = {}]
  /\ ran' = [d \in SyncConsumers |-> IF d = c THEN 0 ELSE ran[d]]
  /\ retry' = [d \in SyncConsumers |-> IF d = c THEN NoRetry ELSE retry[d]]
  /\ failed' = [d \in AsyncConsumers |-> IF d = c THEN {} ELSE failed[d]]
  /\ UNCHANGED <<queue, older, enqueues>>

-----------------------------------------------------------------------------
(* SyncEventConsumer.Handle                                                *)

SyncFetch(c) ==
  /\ pc[c] = "polling"
  /\ \E S \in SUBSET Eligible :
       /\ IsBatch(S, 1)
       /\ held' = [held EXCEPT ![c] = S]
       /\ Goto(c, IF S = {} THEN "waiting" ELSE "handling")
  /\ UNCHANGED <<queue, older, ran, retry, failed, enqueues, faults>>

\* A handler works on its own connections, not on the open transaction: what it
\* wrote when it returns is committed.
HandlerSucceeds(c) ==
  /\ pc[c] = "handling" /\ ran[c] < NumHandlers
  /\ ran' = [ran EXCEPT ![c] = @ + 1]
  /\ UNCHANGED <<queue, older, pc, held, retry, failed, enqueues, faults>>

\* Variant: the failure is recorded without counting it.
FailEventUncounted(c) ==
  /\ Goto(c, "failed")
  /\ held' = [held EXCEPT ![c] = {}]
  /\ \E i \in held[c] :
       retry' = [retry EXCEPT ![c] = [id |-> i, attempts |-> queue[i].attempts]]

\* consumeEvent returns the event with an error: the deferred Rollback has ended
\* the transaction when Handle comes to record the failure.
FailEvent(c) ==
  /\ Goto(c, "failed")
  /\ held' = [held EXCEPT ![c] = {}]
  /\ \E i \in held[c] :
       retry' = [retry EXCEPT ![c] = [id |-> i, attempts |-> queue[i].attempts + 1]]

HandlerFails(c) ==
  /\ pc[c] = "handling" /\ ran[c] < NumHandlers
  /\ FailEvent(c)
  /\ UNCHANGED <<queue, older, ran, failed, enqueues, faults>>

SyncCommit(c) ==
  /\ pc[c] = "handling" /\ ran[c] = NumHandlers
  /\ queue' = Without(held[c])
  /\ older' = Created({}, held[c])
  /\ held' = [held EXCEPT ![c] = {}]
  /\ ran' = [ran EXCEPT ![c] = 0]
  /\ Goto(c, "polling")
  /\ UNCHANGED <<retry, failed, enqueues, faults>>

\* Commit returns an error; the database may or may not have committed.
SyncCommitFails(c) ==
  /\ pc[c] = "handling" /\ ran[c] = NumHandlers
  /\ Fault
  /\ FailEvent(c)
  /\ \/ queue' = Without(held[c]) /\ older' = Created({}, held[c])
     \/ UNCHANGED <<queue, older>>
  /\ UNCHANGED <<ran, failed, enqueues>>

\* SET error, attempts = n, last_attempt = NOW()
Attempted(r, n) == [event |-> r.event, attempts |-> n, lastAttempt |-> 0,
                    delay |-> r.delay, age |-> r.age, priority |-> r.priority]

\* UPDATE event_queue SET error, attempts, last_attempt = NOW() WHERE id = ..., in
\* a transaction of its own that waits for the row's lock.
SaveAttempt(c) ==
  LET i == retry[c].id IN
  /\ pc[c] = "failed"
  /\ i \notin Locked
  /\ queue' = IF i \in Live
              THEN [queue EXCEPT ![i] = Attempted(@, retry[c].attempts)]
              ELSE queue
  /\ retry' = [retry EXCEPT ![c] = NoRetry]
  /\ ran' = [ran EXCEPT ![c] = 0]
  /\ Goto(c, "error")
  /\ UNCHANGED <<older, held, failed, enqueues, faults>>

\* The UPDATE fails, which is only logged.
SaveAttemptFails(c) ==
  /\ pc[c] = "failed"
  /\ Fault
  /\ retry' = [retry EXCEPT ![c] = NoRetry]
  /\ ran' = [ran EXCEPT ![c] = 0]
  /\ Goto(c, "error")
  /\ UNCHANGED <<queue, older, held, failed, enqueues>>

-----------------------------------------------------------------------------
(* AsyncEventConsumer.Handle                                               *)

AsyncFetch(c) ==
  /\ pc[c] = "polling"
  /\ \E S \in SUBSET Eligible :
       /\ IsBatch(S, IF BatchSize = 0 THEN 1 ELSE BatchSize)
       /\ held' = [held EXCEPT ![c] = S]
  /\ Goto(c, "handling")
  /\ UNCHANGED <<queue, older, ran, retry, failed, enqueues, faults>>

\* The handler, which is called with an empty batch too, returns failed events.
HandlerReturns(c) ==
  /\ pc[c] = "handling"
  /\ \E F \in SUBSET held[c] : failed' = [failed EXCEPT ![c] = F]
  /\ Goto(c, "committing")
  /\ UNCHANGED <<queue, older, held, ran, retry, enqueues, faults>>

\* The event_id a failed event is recreated with.
Scanned(i) == IF queue[i].event = NullID THEN NilID ELSE queue[i].event

\* Rows of other transactions with an event_id Recreate is about to insert.
Rivals(c) == UNION {RowsOf(Scanned(i)) \ held[c] : i \in failed[c]}

\* Variant: without the unique constraint on (name, event_id).
ConflictUnenforced(c) == FALSE

\* Recreate would insert two rows with one (name, event_id).
Conflict(c) ==
  \/ \E i, j \in failed[c] : i # j /\ Scanned(i) = Scanned(j)
  \/ Rivals(c) # {}

\* Variant: attempts is left to its default.
RecreatedAnew(i) ==
  [event |-> Scanned(i), attempts |-> 0,
   lastAttempt |-> queue[i].lastAttempt, delay |-> 0, age |-> 0,
   priority |-> queue[i].priority - 1]

\* Events.Recreate: a new row with one more attempt, one less priority, the old
\* last_attempt and no delay.
Recreated(i) ==
  [event |-> Scanned(i), attempts |-> queue[i].attempts + 1,
   lastAttempt |-> queue[i].lastAttempt, delay |-> 0, age |-> 0,
   priority |-> queue[i].priority - 1]

\* Variant: failed events are not recreated.
ReplaceBatchDropping(c) ==
  /\ queue' = Without(held[c])
  /\ older' = Created({}, held[c])

\* The transaction deletes the batch and recreates the failed events.
ReplaceBatch(c) ==
  \E new \in [failed[c] -> Fresh] :
    LET N == {new[i] : i \in failed[c]}
        Source(n) == CHOOSE i \in failed[c] : new[i] = n
    IN  /\ \A i, j \in failed[c] : new[i] = new[j] => i = j
        /\ queue' = [n \in (Live \ held[c]) \union N |->
                       IF n \in N THEN Recreated(Source(n)) ELSE queue[n]]
        /\ older' = Created(N, held[c])

\* Handle returns.
EndBatch(c, l) ==
  /\ held' = [held EXCEPT ![c] = {}]
  /\ failed' = [failed EXCEPT ![c] = {}]
  /\ Goto(c, l)
  /\ UNCHANGED <<ran, retry, enqueues>>

AsyncCommit(c) ==
  /\ pc[c] = "committing"
  /\ ~Conflict(c)
  /\ ReplaceBatch(c)
  /\ EndBatch(c, IF held[c] = {} THEN "waiting" ELSE "polling")
  /\ UNCHANGED faults

\* Recreate violates the unique constraint.  Its error is only logged, the
\* database has aborted the transaction and Commit fails.  Before that the
\* inserts wait for transactions that hold a rival row.
AsyncConflict(c) ==
  /\ pc[c] = "committing"
  /\ Rivals(c) \intersect Locked = {}
  /\ Conflict(c)
  /\ EndBatch(c, "error")
  /\ UNCHANGED <<queue, older, faults>>

\* A database error in Recreate or Commit; the database may have committed.
AsyncCommitFails(c) ==
  /\ pc[c] = "committing"
  /\ Fault
  /\ \/ ~Conflict(c) /\ ReplaceBatch(c)
     \/ UNCHANGED <<queue, older>>
  /\ EndBatch(c, "error")

-----------------------------------------------------------------------------
Sync(c) ==
  \/ SyncFetch(c) \/ HandlerSucceeds(c) \/ HandlerFails(c) \/ SyncCommit(c)
  \/ SyncCommitFails(c) \/ SaveAttempt(c) \/ SaveAttemptFails(c)

Async(c) ==
  AsyncFetch(c) \/ HandlerReturns(c) \/ AsyncCommit(c) \/ AsyncConflict(c) \/ AsyncCommitFails(c)

Loop(c) == Wake(c) \/ HandleError(c) \/ FetchFails(c) \/ Crash(c)

Next ==
  \/ \E e \in EventIDs, d \in Delays : Enqueue(e, d)
  \/ Tick
  \/ \E c \in Consumers : Loop(c)
  \/ \E c \in SyncConsumers : Sync(c)
  \/ \E c \in AsyncConsumers : Async(c)

Spec == Init /\ [][Next]_vars

\* Timers fire, handlers return, statements complete; nothing forces producers
\* to produce or anything to fail.  An UPDATE that waits for a row gets it: while it
\* is in the queue for the lock, SKIP LOCKED passes the row over.
Fairness ==
  /\ WF_vars(Tick)
  /\ \A c \in Consumers : WF_vars(Wake(c)) /\ WF_vars(HandleError(c))
  /\ \A c \in SyncConsumers :
       /\ WF_vars(SyncFetch(c)) /\ SF_vars(SaveAttempt(c))
       /\ WF_vars(HandlerSucceeds(c) \/ HandlerFails(c) \/ SyncCommit(c))
  /\ \A c \in AsyncConsumers :
       /\ WF_vars(AsyncFetch(c)) /\ WF_vars(HandlerReturns(c))
       /\ WF_vars(AsyncCommit(c) \/ AsyncConflict(c))

FairSpec == Spec /\ Fairness

-----------------------------------------------------------------------------
(* Properties.                                                             *)

\* Types, and what ties a consumer's position to the rows it holds.
TypeOK ==
  /\ Live \subseteq Ids
  /\ \A i \in Live : queue[i] \in Row
  /\ older \subseteq Live \X Live
  /\ pc \in [Consumers -> Positions]
  /\ held \in [Consumers -> SUBSET Ids]
  /\ ran \in [SyncConsumers -> 0 .. NumHandlers]
  /\ retry \in [SyncConsumers -> [id : Ids \union {NullID}, attempts : Nat]]
  /\ failed \in [AsyncConsumers -> SUBSET Ids]
  /\ enqueues \in [EventIDs -> 0 .. MaxEnqueues]
  /\ faults \in 0 .. MaxFaults

EventsOf(S) == {queue[i].event : i \in S}

\* The rows whose handlers have succeeded in the consumer's open transaction.
Handled(c) ==
  IF c \in SyncConsumers
  THEN IF ran[c] = NumHandlers THEN held[c] ELSE {}
  ELSE IF pc[c] = "committing" THEN held[c] \ failed[c] ELSE {}

\* fetchEvents: two consumers are never at work on one event, whatever mix of
\* re-enqueues, rollbacks and recreated rows led to the rows they hold.
NoConcurrentHandling ==
  \A c, d \in Consumers :
    c # d => EventsOf(held[c]) \intersect EventsOf(held[d]) \subseteq {NullID}

\* The queue implements WorkQueue: an enqueued event stays in the table until a
\* consumer that fetched it after the enqueue has handled it (Handle of both
\* consumers, the triggers' upsert).  For tables without NULL event_ids, which
\* have no identity that survives Recreate.
WQ == INSTANCE WorkQueue WITH
        Work <- EventIDs, Workers <- Consumers,
        asked <- enqueues, due <- EventsOf(Live),
        claimed <- [c \in Consumers |-> EventsOf(held[c])],
        handled <- [c \in Consumers |-> EventsOf(Handled(c))]

ImplementsWorkQueue == WQ!WQSpec

\* What the proofs need besides TypeOK: a row is held by one open transaction, at
\* its position in Handle, and (name, event_id) is unique.
HoldInv ==
  /\ \A c \in Consumers : held[c] \subseteq Live
  /\ \A c, d \in Consumers : c # d => held[c] \intersect held[d] = {}
  /\ \A c \in Consumers : held[c] # {} => pc[c] \in {"handling", "committing"}
  /\ \A c \in SyncConsumers :
       /\ pc[c] # "committing"
       /\ pc[c] = "handling" => \E i \in Ids : held[c] = {i}
       /\ ran[c] # 0 => pc[c] \in {"handling", "failed"}
  /\ \A c \in AsyncConsumers :
       /\ pc[c] # "failed"
       /\ failed[c] \subseteq held[c]
       /\ failed[c] # {} => pc[c] = "committing"

UniqueEvents ==
  \A i, j \in Live : queue[i].event = queue[j].event /\ i # j => queue[i].event = NullID

\* The inductive invariant: consumers hold disjoint sets of committed rows, and no
\* two rows share a non-null event_id (fetchEvents, Recreate, the upsert).
IndInv == TypeOK /\ HoldInv /\ UniqueEvents

\* The attempt counts of e's row: the stored one, and those about to be stored by
\* consumers that have rolled back an attempt.
Counts(e) ==
  {queue[i].attempts : i \in RowsOf(e)}
    \union {retry[c].attempts : c \in {d \in SyncConsumers : retry[d].id \in RowsOf(e)}}

\* Only an enqueue may take the least of an event's counts down.  The UPDATE of
\* SyncEventConsumer.Handle runs after the rollback and may overwrite a higher
\* count of another consumer; it never goes back behind the oldest known failure,
\* which is what bounds the retries.
AttemptsNotForgotten ==
  [][\A e \in EventIDs :
       enqueues'[e] = enqueues[e] /\ Counts(e) # {} =>
         \A n \in Counts(e)' : \E m \in Counts(e) : m <= n]_vars

Retriable(e) == \E i \in RowsOf(e) : queue[i].attempts <= MaxAttempts

\* ConsumeUntilEmpty, Listen: every event is handled or runs out of attempts.
EventsSettle == \A e \in EventIDs : Retriable(e) ~> ~Retriable(e)
=============================================================================
