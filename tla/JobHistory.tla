----------------------------- MODULE JobHistory -----------------------------
(***************************************************************************)
(* What becomes of the job_history rows of one job: Job.init, start and    *)
(* end, the StatusRing that decides which rows are too many, the channel   *)
(* of evicted ids and deleteEvictedJobs (job/job.go), and the clean-up     *)
(* queries (job/cleanup.go).  How a run comes to its status is JobRun.tla. *)
(***************************************************************************)
EXTENDS Integers, Sequences, FiniteSets, SequencesExt

CONSTANTS
  Runs,            \* invocations of Run over the life of the database, numbered as they begin
  Success, Failed, \* Retention of the job
  Singleton,       \* BOOLEAN
  Concurrent,      \* BOOLEAN, a second run may begin before the first is initialised
  Capacity,        \* of the channel EvictedJobs
  BatchSize,       \* of BufferWithTimeout
  Outcomes,        \* statuses that runs end in
  Old,             \* runs that begin early enough for their rows to grow old
  MaxFaults        \* bound: crashes and failed queries

Final == {"SUCCESS", "FAILED", "WARNING", "SKIPPED"}
Statuses == Final \union {"RUNNING", "STALE"}
None == "none"
Nil == -1          \* uuid.Nil, the id of a history that was never written

ASSUME HistoryAssumption ==
  /\ Success \in Nat /\ Failed \in Nat /\ Singleton \in BOOLEAN /\ Concurrent \in BOOLEAN
  /\ Capacity \in Nat \ {0} /\ BatchSize \in Nat \ {0} /\ MaxFaults \in Nat
  /\ Outcomes \subseteq Final /\ Old \subseteq Runs
  /\ Runs \subseteq Nat /\ IsFiniteSet(Runs)

VARIABLES
  pc,           \* where each run is
  started,      \* the runs in the order of time_start
  status,       \* JobHistory.Status of each run, in memory
  saved,        \* runs whose history got its id from the database
  db,           \* status of the row of each run, None without one
  initialized,
  rings,        \* the ids each ring holds, oldest first
  todo,         \* histories that populateFromDB has still to add, for each run: <<id, status>>
  evicted,      \* the channel
  batch,        \* ids deleteEvictedJobs has taken from it
  dropped,      \* ids it has dropped since the process started
  lost,         \* runs whose final status was not written
  aged,         \* runs whose row was deleted for its age
  faults

vars == <<pc, started, status, saved, db, initialized, rings, todo, evicted, batch,
          dropped, lost, aged, faults>>
memory == <<initialized, rings, evicted, batch, dropped>>

Init ==
  /\ pc = [r \in Runs |-> "idle"]
  /\ started = << >>
  /\ status = [r \in Runs |-> None]
  /\ saved = {}
  /\ db = [r \in Runs |-> None]
  /\ initialized = FALSE
  /\ rings = [s \in Statuses |-> << >>]
  /\ todo = [r \in Runs |-> {}]
  /\ evicted = << >>
  /\ batch = {}
  /\ dropped = {}
  /\ lost = {}
  /\ aged = {}
  /\ faults = 0

Goto(r, l) == pc' = [pc EXCEPT ![r] = l]
Fault == faults < MaxFaults /\ faults' = faults + 1

-----------------------------------------------------------------------------
(* StatusRing                                                              *)

\* Retention.Count, and the exception for singletons.
Count(s) ==
  IF s = "RUNNING" /\ Singleton THEN 1
  ELSE IF s \in {"SKIPPED", "FAILED", "WARNING"} THEN Failed ELSE Success

\* Variant: a ring of Count slots.
AddOneShort(id, s) ==
  LET ring == Append(rings[s], id)
      full == Len(ring) >= Count(s)
  IN  /\ full => Len(evicted) < Capacity
      /\ evicted' = IF full THEN Append(evicted, Head(ring)) ELSE evicted
      /\ rings' = [rings EXCEPT ![s] = IF full THEN Tail(ring) ELSE ring]

\* Add: a ring of Count + 1 slots, whose oldest value is evicted when the next slot
\* to be written is taken.  The send waits for room in the channel.
Add(id, s) ==
  LET ring == Append(rings[s], id)
      full == Len(ring) > Count(s)
  IN  /\ full => Len(evicted) < Capacity
      /\ evicted' = IF full THEN Append(evicted, Head(ring)) ELSE evicted
      /\ rings' = [rings EXCEPT ![s] = IF full THEN Tail(ring) ELSE ring]

-----------------------------------------------------------------------------
(* init                                                                    *)

\* Run: j.initialized is read without a lock.
Begin(r) ==
  /\ pc[r] = "idle" /\ \A q \in Runs : q < r => pc[q] # "idle"
  /\ Concurrent \/ \A q \in Runs : pc[q] \notin {"init", "reading", "populating"}
  /\ Goto(r, IF initialized THEN "starting" ELSE "init")
  /\ UNCHANGED <<started, status, saved, db, memory, todo, lost, aged, faults>>

\* j.statusRing = NewStatusRing(...)
NewRing(r) ==
  /\ pc[r] = "init"
  /\ rings' = [s \in Statuses |-> << >>]
  /\ Goto(r, "reading")
  /\ UNCHANGED <<started, status, saved, db, initialized, todo, evicted, batch, dropped,
                 lost, aged, faults>>

\* populateFromDB: the query.
ReadRows(r) ==
  /\ pc[r] = "reading"
  /\ todo' = [todo EXCEPT ![r] = {<<q, db[q]>> : q \in {p \in Runs : db[p] # None}}]
  /\ Goto(r, "populating")
  /\ UNCHANGED <<started, status, saved, db, memory, lost, aged, faults>>

\* The query fails, and with it init: the run is over, the next one starts anew.
ReadFails(r) ==
  /\ pc[r] = "reading" /\ Fault
  /\ Goto(r, "done")
  /\ UNCHANGED <<started, status, saved, db, memory, todo, lost, aged>>

\* The order of time_start.
Before(p, q) == \E i, j \in DOMAIN started : i < j /\ started[i] = p /\ started[j] = q

\* populateFromDB: the loop, over histories in the order of time_start.
Populate(r) ==
  /\ pc[r] = "populating"
  /\ \E h \in todo[r] :
       /\ \A other \in todo[r] : ~ Before(other[1], h[1])
       /\ Add(h[1], h[2])
       /\ todo' = [todo EXCEPT ![r] = @ \ {h}]
  /\ UNCHANGED <<pc, started, status, saved, db, initialized, batch, dropped, lost, aged, faults>>

Initialized(r) ==
  /\ pc[r] = "populating" /\ todo[r] = {}
  /\ initialized' = TRUE
  /\ Goto(r, "starting")
  /\ UNCHANGED <<started, status, saved, db, rings, todo, evicted, batch, dropped, lost, aged, faults>>

-----------------------------------------------------------------------------
(* start and end                                                           *)

\* start: the row is written when successes are retained.  A failed write is logged.
Start(r) ==
  /\ pc[r] = "starting"
  /\ started' = Append(started, r)
  /\ status' = [status EXCEPT ![r] = "RUNNING"]
  /\ \/ /\ Success > 0
        /\ db' = [db EXCEPT ![r] = "RUNNING"] /\ saved' = saved \union {r}
        /\ UNCHANGED faults
     \/ Success > 0 /\ Fault /\ UNCHANGED <<db, saved>>
     \/ Success = 0 /\ UNCHANGED <<db, saved, faults>>
  /\ Goto(r, "running")
  /\ UNCHANGED <<memory, todo, lost, aged>>

\* end: Save updates the row, or inserts it when there is none.
End(r) ==
  /\ pc[r] = "running"
  /\ \E s \in Outcomes :
       LET wanted == Success > 0 \/ s \in {"FAILED", "WARNING"} IN
       /\ status' = [status EXCEPT ![r] = s]
       /\ \/ /\ wanted
             /\ db' = [db EXCEPT ![r] = s] /\ saved' = saved \union {r}
             /\ UNCHANGED <<lost, faults>>
          \/ wanted /\ Fault /\ lost' = lost \union {r} /\ UNCHANGED <<db, saved>>
          \/ ~wanted /\ lost' = lost \union {r} /\ UNCHANGED <<db, saved, faults>>
  /\ Goto(r, "adding")
  /\ UNCHANGED <<started, memory, todo, aged>>

\* end: statusRing.Add, with a nil id when no write succeeded.
AddEnded(r) ==
  /\ pc[r] = "adding"
  /\ Add(IF r \in saved THEN r ELSE Nil, status[r])
  /\ Goto(r, "done")
  /\ UNCHANGED <<started, status, saved, db, initialized, todo, batch, dropped, lost, aged, faults>>

-----------------------------------------------------------------------------
(* deleteEvictedJobs and the clean-up queries                              *)

\* Variant: nothing is taken until there is more than one buffer can hold.
TakeFullBatch ==
  /\ batch = {} /\ Len(evicted) > BatchSize
  /\ batch' = {evicted[i] : i \in 1 .. BatchSize}
  /\ evicted' = SubSeq(evicted, BatchSize + 1, Len(evicted))
  /\ UNCHANGED <<pc, started, status, saved, db, initialized, rings, todo, dropped, lost, aged, faults>>

\* BufferWithTimeout: what there is, up to BatchSize.
TakeBatch ==
  /\ batch = {} /\ evicted # << >>
  /\ \E n \in 1 .. Len(evicted) :
       /\ n <= BatchSize
       /\ batch' = {evicted[i] : i \in 1 .. n}
       /\ evicted' = SubSeq(evicted, n + 1, Len(evicted))
  /\ UNCHANGED <<pc, started, status, saved, db, initialized, rings, todo, dropped, lost, aged, faults>>

DeleteBatch ==
  /\ batch # {}
  /\ db' = [r \in Runs |-> IF r \in batch THEN None ELSE db[r]]
  /\ batch' = {}
  /\ UNCHANGED <<pc, started, status, saved, initialized, rings, todo, evicted, dropped, lost, aged, faults>>

\* The query fails: its ids are forgotten.
DeleteFails ==
  /\ batch # {} /\ Fault
  /\ dropped' = dropped \union (batch \ {Nil})
  /\ batch' = {}
  /\ UNCHANGED <<pc, started, status, saved, db, initialized, rings, todo, evicted, lost, aged>>

\* CleanupStaleRunningHistory
CleanupStaleRunning(r) ==
  /\ db[r] = "RUNNING"
  /\ db' = [db EXCEPT ![r] = "STALE"]
  /\ UNCHANGED <<pc, started, status, saved, memory, todo, lost, aged, faults>>

\* CleanupStaleHistory, for rows that are old and of one of the statuses it is called with.
CleanupStale(r) ==
  /\ r \in Old /\ db[r] # None
  /\ db' = [db EXCEPT ![r] = None]
  /\ aged' = aged \union {r}
  /\ UNCHANGED <<pc, started, status, saved, memory, todo, lost, faults>>

\* The process dies and a new one starts: rings and channel are gone.
Crash ==
  /\ Fault
  /\ \E r \in Runs : pc[r] # "idle"
  /\ pc' = [r \in Runs |-> IF pc[r] = "idle" THEN "idle" ELSE "done"]
  /\ initialized' = FALSE
  /\ rings' = [s \in Statuses |-> << >>]
  /\ todo' = [r \in Runs |-> {}]
  /\ evicted' = << >> /\ batch' = {} /\ dropped' = {}
  /\ UNCHANGED <<started, status, saved, db, lost, aged>>

-----------------------------------------------------------------------------
Next ==
  \/ \E r \in Runs :
       \/ Begin(r) \/ NewRing(r) \/ ReadRows(r) \/ ReadFails(r) \/ Populate(r) \/ Initialized(r)
       \/ Start(r) \/ End(r) \/ AddEnded(r) \/ CleanupStaleRunning(r) \/ CleanupStale(r)
  \/ TakeBatch \/ DeleteBatch \/ DeleteFails \/ Crash

Spec == Init /\ [][Next]_vars

\* Runs that have begun move on, and so does the evictor.
FairSpec ==
  /\ Spec
  /\ WF_vars(TakeBatch) /\ WF_vars(DeleteBatch)
  /\ \A r \in Runs :
       /\ WF_vars(NewRing(r) \/ ReadRows(r) \/ Initialized(r) \/ Start(r) \/ End(r))
       /\ SF_vars(Populate(r) \/ AddEnded(r))

-----------------------------------------------------------------------------
(* Properties.                                                             *)

Positions ==
  {"idle", "init", "reading", "populating", "starting", "running", "adding", "done"}
Ids == Runs \union {Nil}

\* The types of the variables: the eviction channel never exceeds its capacity.
TypeOK ==
  /\ pc \in [Runs -> Positions]
  /\ started \in Seq(Runs) /\ IsInjective(started)
  /\ status \in [Runs -> Statuses \union {None}]
  /\ db \in [Runs -> Statuses \union {None}]
  /\ initialized \in BOOLEAN
  /\ rings \in [Statuses -> Seq(Ids)]
  /\ todo \in [Runs -> SUBSET (Runs \X Statuses)]
  /\ evicted \in Seq(Ids) /\ Len(evicted) <= Capacity
  /\ batch \subseteq Ids
  /\ saved \union dropped \union lost \union aged \subseteq Runs
  /\ faults \in 0 .. MaxFaults

\* The runs that ended in s, and the rows that say so.
EndedIn(s) == {r \in Runs : pc[r] = "done" /\ status[r] = s}
Rows(s) == {r \in Runs : db[r] = s}

\* Retention "Success is the number of success job history to retain", and Failed
\* that of the unsuccessful: the rings give up no row of a status that has only that
\* many, across restarts.  Rows never written and rows deleted for their age count.
RetainedAreKept ==
  \A s \in Final :
    LET gone == {r \in EndedIn(s) : r \in lost \union aged}
        all == Cardinality(EndedIn(s))
    IN  Cardinality(Rows(s) \union gone) >= (IF all < Count(s) THEN all ELSE Count(s))

\* The ids in a ring.
InRings == UNION {ToSet(rings[s]) : s \in Statuses}

\* StatusRing and populateFromDB: no row is forgotten.  Each is in a ring, on its
\* way into one or out of the table, or its deletion failed; a restart takes them
\* all up again.
RowsAreTracked ==
  initialized =>
    \A r \in Runs : db[r] # None =>
      \/ r \in InRings \union ToSet(evicted) \union batch \union dropped
      \/ pc[r] \in {"running", "adding"}
      \/ \E q \in Runs : \E h \in todo[q] : h[1] = r

\* StatusRing: it keeps no row too few, and none too many without knowing of it.
RetentionIsExact == TypeOK /\ RetainedAreKept /\ RowsAreTracked

\* Add: a full eviction channel delays a run, it does not stop it.
RunsGetAdded == \A r \in Runs : pc[r] \in {"populating", "adding"} ~> pc[r] \in {"starting", "done"}

\* deleteEvictedJobs: an evicted row is deleted, unless the batch it is in is lost
\* to a failed DELETE or to the end of the process.
EvictedAreDeleted ==
  \A r \in Runs : r \in ToSet(evicted) ~> db[r] = None \/ r \in dropped \/ ~initialized

\* Add, deleteEvictedJobs: the two ends of the eviction channel never stop each other.
EvictionGoesOn == RunsGetAdded /\ EvictedAreDeleted
=============================================================================
