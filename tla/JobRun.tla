------------------------------- MODULE JobRun -------------------------------
(***************************************************************************)
(* Job.Run (job/job.go): concurrent runs of jobs in one process, from the  *)
(* cron trigger to the end of the job history.  The deferred calls of Run  *)
(* are steps of their own: the semaphores are released in reverse order,   *)
(* then the singleton lock, and only then is the history ended.            *)
(***************************************************************************)
EXTENDS Integers, Sequences, FiniteSets, FiniteSetsExt

CONSTANTS
  Runs,       \* invocations of Run
  Jobs,       \* Job objects
  Config,     \* [Jobs -> JobConfig], the fields of each after init()
  Semaphores,
  Permits,    \* [Semaphores -> Nat \ {0}]
  MaxCounts,  \* bound: successes and errors that functions record
  MaxFaults   \* bound: failed initialisations and writes, and crashes

JobConfig == [id : STRING, singleton : BOOLEAN, semaphores : Seq(Semaphores),
              timeout : BOOLEAN, resource : BOOLEAN, history : BOOLEAN,
              retainSuccess : BOOLEAN, ignoreSuccess : BOOLEAN]

ASSUME JobAssumption ==
  /\ \A j \in Jobs : /\ Config[j].singleton \in BOOLEAN
                     /\ Config[j].semaphores \in Seq(Semaphores)
  /\ Permits \in [Semaphores -> Nat \ {0}]
  /\ MaxCounts \in Nat /\ MaxFaults \in Nat

VARIABLES
  job,        \* the Job each run is of, never changed
  pc,         \* where each run is
  running,    \* singletonLocks.running, with the run that took each id
  used,       \* permits taken of each semaphore
  got,        \* semaphores each run has acquired, a prefix of its job's list
  hist,       \* JobHistory of each run, in memory
  row,        \* the status of its job_history row, "none" without one
  cancelled,  \* contexts that are done, see FnContext
  faults

vars == <<job, pc, running, used, got, hist, row, cancelled, faults>>

None == "none"
Final == {"SUCCESS", "WARNING", "FAILED", "SKIPPED"}

Cfg(r) == Config[job[r]]

\* Variant: jobs of a resource take their semaphores from the last to the first.
SemReversed(r, n) ==
  Cfg(r).semaphores[IF Cfg(r).resource THEN Len(Cfg(r).semaphores) + 1 - n ELSE n]

\* The n-th semaphore that a run acquires.
Sem(r, n) == Cfg(r).semaphores[n]

NewHistory == [status |-> "RUNNING", errors |-> 0, successes |-> 0]

Init ==
  /\ job \in [Runs -> Jobs]
  /\ pc = [r \in Runs |-> "idle"]
  /\ running = {}
  /\ used = [s \in Semaphores |-> 0]
  /\ got = [r \in Runs |-> 0]
  /\ hist = [r \in Runs |-> [NewHistory EXCEPT !.status = None]]
  /\ row = [r \in Runs |-> None]
  /\ cancelled = {}
  /\ faults = 0

Goto(r, l) == pc' = [pc EXCEPT ![r] = l]
Fault == faults < MaxFaults /\ faults' = faults + 1

-----------------------------------------------------------------------------
(* JobHistory (models/job_history.go).                                     *)

EvaluateStatus(h) ==
  IF h.status # "RUNNING" THEN h.status
  ELSE IF h.errors > 0 /\ h.successes > 0 THEN "WARNING"
  ELSE IF h.errors > 0 THEN "FAILED"
  ELSE "SUCCESS"

Ended(h) == [h EXCEPT !.status = EvaluateStatus(h)]

\* AddError logs the history, and String() ends the history of a resource.
ErrorAdded(r) ==
  LET h == [hist[r] EXCEPT !.errors = @ + 1] IN IF Cfg(r).resource THEN Ended(h) ELSE h

\* Persist: a failed write is only logged.
Persist(r, wanted, status) ==
  \/ wanted /\ row' = [row EXCEPT ![r] = status] /\ UNCHANGED faults
  \/ wanted /\ Fault /\ UNCHANGED row
  \/ ~wanted /\ UNCHANGED <<row, faults>>

-----------------------------------------------------------------------------
(* Run                                                                     *)

\* The schedule fires, or RunNow; the jitter has passed and init() succeeded.
Begin(r) ==
  /\ pc[r] = "idle"
  /\ Goto(r, "starting")
  /\ UNCHANGED <<job, running, used, got, hist, row, cancelled, faults>>

\* init() fails, or a property disables the job: there is no history.
NotRun(r) ==
  /\ pc[r] = "idle"
  /\ Goto(r, "done")
  /\ UNCHANGED <<job, running, used, got, hist, row, cancelled, faults>>

\* start()
Start(r) ==
  /\ pc[r] = "starting"
  /\ hist' = [hist EXCEPT ![r] = NewHistory]
  /\ Persist(r, Cfg(r).history /\ Cfg(r).retainSuccess /\ ~Cfg(r).ignoreSuccess, "RUNNING")
  /\ Goto(r, "locking")
  /\ UNCHANGED <<job, running, used, got, cancelled>>

\* Variant: the lock is keyed by the job object, not by Job.ID().
LockedPerObject(r) == \E q \in running : job[q] = job[r]

\* singletonLocks.running has the id of the run's job.
Locked(r) == \E q \in running : Cfg(q).id = Cfg(r).id

\* singletonLocks.TryLock(j.ID())
TryLock(r) ==
  /\ pc[r] = "locking"
  /\ Cfg(r).singleton => ~Locked(r)
  /\ running' = IF Cfg(r).singleton THEN running \union {r} ELSE running
  /\ Goto(r, "acquiring")
  /\ UNCHANGED <<job, used, got, hist, row, cancelled, faults>>

\* The job is already running.
SkipRunning(r) ==
  /\ pc[r] = "locking"
  /\ Cfg(r).singleton /\ Locked(r)
  /\ hist' = [hist EXCEPT ![r].status = "SKIPPED"]
  /\ Goto(r, "ending")
  /\ UNCHANGED <<job, running, used, got, row, cancelled, faults>>

\* Semaphores are acquired in order; Acquire blocks while there is no permit.
Acquire(r) ==
  /\ pc[r] = "acquiring"
  /\ got[r] < Len(Cfg(r).semaphores)
  /\ used[Sem(r, got[r] + 1)] < Permits[Sem(r, got[r] + 1)]
  /\ used' = [used EXCEPT ![Sem(r, got[r] + 1)] = @ + 1]
  /\ got' = [got EXCEPT ![r] = @ + 1]
  /\ UNCHANGED <<job, pc, running, hist, row, cancelled, faults>>

\* The context of the run is done while it waits.
SkipCrowded(r) ==
  /\ pc[r] = "acquiring"
  /\ got[r] < Len(Cfg(r).semaphores)
  /\ <<r, "run">> \in cancelled
  /\ hist' = [hist EXCEPT ![r].status = "SKIPPED"]
  /\ Goto(r, "releasing")
  /\ UNCHANGED <<job, running, used, got, row, cancelled, faults>>

CallFn(r) ==
  /\ pc[r] = "acquiring"
  /\ got[r] = Len(Cfg(r).semaphores)
  /\ Goto(r, "fn")
  /\ UNCHANGED <<job, running, used, got, hist, row, cancelled, faults>>

\* The context Fn is called with: that of the JobRuntime, made before the context
\* with the timeout.
FnContext(r) == <<r, "run">>

\* What ctx.WithTimeout(j.Timeout) cancels.
TimeoutFires(r) ==
  /\ pc[r] = "fn" /\ Cfg(r).timeout
  /\ <<r, "timed">> \notin cancelled
  /\ cancelled' = cancelled \union {<<r, "timed">>}
  /\ UNCHANGED <<job, pc, running, used, got, hist, row, faults>>

\* The application stops: the context of the job is done, and all made from it.
Stop ==
  /\ \E r \in Runs : <<r, "run">> \notin cancelled
  /\ cancelled' = Runs \X {"run", "timed"}
  /\ UNCHANGED <<job, pc, running, used, got, hist, row, faults>>

\* Errors and successes of all runs, for the bound.
Counted == MapThenSumSet(LAMBDA r : hist[r].errors + hist[r].successes, Runs)

FnAddsError(r) ==
  /\ pc[r] = "fn" /\ Counted < MaxCounts
  /\ hist' = [hist EXCEPT ![r] = ErrorAdded(r)]
  /\ UNCHANGED <<job, pc, running, used, got, row, cancelled, faults>>

FnAddsSuccess(r) ==
  /\ pc[r] = "fn" /\ Counted < MaxCounts
  /\ hist' = [hist EXCEPT ![r].successes = @ + 1]
  /\ UNCHANGED <<job, pc, running, used, got, row, cancelled, faults>>

\* Fn returns an error or none.
FnReturns(r) ==
  /\ pc[r] = "fn"
  /\ hist' = hist \/ hist' = [hist EXCEPT ![r] = ErrorAdded(r)]
  /\ Goto(r, "releasing")
  /\ UNCHANGED <<job, running, used, got, row, cancelled, faults>>

\* Fn returns because its context is done.
FnAborts(r) ==
  /\ pc[r] = "fn" /\ FnContext(r) \in cancelled
  /\ hist' = [hist EXCEPT ![r] = ErrorAdded(r)]
  /\ Goto(r, "releasing")
  /\ UNCHANGED <<job, running, used, got, row, cancelled, faults>>

\* Variant: the semaphores of a run that failed are not given back.
ReleaseUnlessFailed(r) ==
  /\ pc[r] = "releasing" /\ got[r] > 0
  /\ used' = IF hist[r].errors > 0 THEN used ELSE [used EXCEPT ![Sem(r, got[r])] = @ - 1]
  /\ got' = [got EXCEPT ![r] = @ - 1]
  /\ UNCHANGED <<job, pc, running, hist, row, cancelled, faults>>

\* The deferred Release of the last semaphore acquired.
Release(r) ==
  /\ pc[r] = "releasing" /\ got[r] > 0
  /\ used' = [used EXCEPT ![Sem(r, got[r])] = @ - 1]
  /\ got' = [got EXCEPT ![r] = @ - 1]
  /\ UNCHANGED <<job, pc, running, hist, row, cancelled, faults>>

\* The deferred unlock of a singleton.
Unlock(r) ==
  /\ pc[r] = "releasing" /\ got[r] = 0
  /\ running' = running \ {r}
  /\ Goto(r, "ending")
  /\ UNCHANGED <<job, used, got, hist, row, cancelled, faults>>

\* end().  The statusRing.Add that follows is modelled by JobHistory.tla; it only
\* waits while the channel of evicted histories is full.
End(r) ==
  /\ pc[r] = "ending"
  /\ hist' = [hist EXCEPT ![r] = Ended(@)]
  /\ Persist(r, Cfg(r).history /\ (Cfg(r).retainSuccess \/ hist[r].errors > 0)
                  /\ ~Cfg(r).ignoreSuccess, EvaluateStatus(hist[r]))
  /\ Goto(r, "done")
  /\ UNCHANGED <<job, running, used, got, cancelled>>

\* The process dies: locks and semaphores go with it, the rows stay.
Crash ==
  /\ Fault
  /\ \E r \in Runs : pc[r] \notin {"idle", "done"}
  /\ pc' = [r \in Runs |-> IF pc[r] = "idle" THEN "idle" ELSE "done"]
  /\ running' = {}
  /\ used' = [s \in Semaphores |-> 0]
  /\ got' = [r \in Runs |-> 0]
  /\ UNCHANGED <<job, hist, row, cancelled>>

\* CleanupStaleRunningHistory, for rows that were started long ago, whether the
\* run is gone or only slow.
CleanupStaleRunning(r) ==
  /\ row[r] = "RUNNING"
  /\ row' = [row EXCEPT ![r] = "STALE"]
  /\ UNCHANGED <<job, pc, running, used, got, hist, cancelled, faults>>

Next ==
  \/ \E r \in Runs :
       \/ Begin(r) \/ NotRun(r) \/ Start(r) \/ TryLock(r) \/ SkipRunning(r)
       \/ Acquire(r) \/ SkipCrowded(r) \/ CallFn(r) \/ TimeoutFires(r)
       \/ FnAddsError(r) \/ FnAddsSuccess(r) \/ FnReturns(r) \/ FnAborts(r)
       \/ Release(r) \/ Unlock(r) \/ End(r) \/ CleanupStaleRunning(r)
  \/ Stop \/ Crash

Spec == Init /\ [][Next]_vars

\* The steps of Run other than the return of Fn and the wait for a semaphore.
Advance(r) ==
  \/ Start(r) \/ TryLock(r) \/ SkipRunning(r) \/ SkipCrowded(r) \/ CallFn(r) \/ FnAborts(r)
  \/ Release(r) \/ Unlock(r) \/ End(r)

\* The cleanup job comes round, and a semaphore serves those who wait in order.
Fairness ==
  \A r \in Runs : SF_vars(Acquire(r)) /\ WF_vars(TimeoutFires(r)) /\ WF_vars(CleanupStaleRunning(r))

\* Functions return.
FairSpec == Spec /\ Fairness /\ \A r \in Runs : WF_vars(Advance(r) \/ FnReturns(r))

\* Functions may hang until their context is done.
HangingSpec == Spec /\ Fairness /\ \A r \in Runs : WF_vars(Advance(r))

-----------------------------------------------------------------------------
(* Properties.                                                             *)

Positions == {"idle", "starting", "locking", "acquiring", "fn", "releasing", "ending", "done"}
Statuses == Final \union {"RUNNING", None}

\* The types of the variables: a row has a status that End, Start or the cleanup
\* writes, and no semaphore is released more often than it was acquired.
TypeOK ==
  /\ job \in [Runs -> Jobs]
  /\ pc \in [Runs -> Positions]
  /\ running \subseteq Runs
  /\ used \in [Semaphores -> Nat]
  /\ got \in [Runs -> Nat]
  /\ hist \in [Runs -> [status : Statuses, errors : Nat, successes : Nat]]
  /\ row \in [Runs -> Statuses \union {"STALE"}]
  /\ cancelled \subseteq Runs \X {"run", "timed"}
  /\ faults \in 0 .. MaxFaults

\* singletonLocks: two runs of singleton jobs with one ID() are never inside Fn
\* together, be they of one Job object or of two.
SingletonsExclusive ==
  \A q, r \in Runs :
    q # r /\ pc[q] = "fn" /\ pc[r] = "fn" /\ Cfg(q).singleton /\ Cfg(r).singleton
      => Cfg(q).id # Cfg(r).id

\* The permits of s that runs hold, each as the run and the place in its job's list.
Held(s) == UNION {{<<r, n>> : n \in {m \in 1 .. got[r] : Sem(r, m) = s}} : r \in Runs}

\* The part of Run between its lock and the deferred calls.
Inside(r) == pc[r] \in {"acquiring", "fn", "releasing"}

\* Semaphores and defers: a semaphore has given exactly the permits that runs will give
\* back, never more than it has, and only runs that have not returned hold any.
NothingLeaked ==
  /\ \A s \in Semaphores :
       /\ IsFiniteSet(Held(s))
       /\ used[s] = Cardinality(Held(s)) /\ used[s] <= Permits[s]
  /\ \A r \in Runs : got[r] <= Len(Cfg(r).semaphores) /\ (got[r] > 0 => Inside(r))

\* singletonLocks: the locks are those of the singletons that are inside, one for an id.
LocksFollowRuns ==
  /\ running = {r \in Runs : Inside(r) /\ Cfg(r).singleton}
  /\ \A q, r \in running : q # r => Cfg(q).id # Cfg(r).id

\* evaluateStatus: SUCCESS is the status of a run that is over, without an error.
SuccessIsEarned ==
  \A r \in Runs :
    "SUCCESS" \in {hist[r].status, row[r]} => pc[r] = "done" /\ hist[r].errors = 0

\* The records that Run keeps, at every step.
IndInv == TypeOK /\ NothingLeaked /\ LocksFollowRuns /\ SuccessIsEarned

\* evaluateStatus: no order of errors, successes, skips and stale clean-ups ends in
\* a SUCCESS that hides an error, in the row or in LastJob.
ErrorsNotHidden ==
  \A r \in Runs : pc[r] = "done" /\ hist[r].errors > 0 =>
    row[r] # "SUCCESS" /\ hist[r].status # "SUCCESS"

\* Run: its records at every step, of locks and permits, and of what went wrong.
RunsAccountedFor == IndInv /\ ErrorsNotHidden

\* Run: when functions return every run does, whatever the others hold.
RunsEnd == \A r \in Runs : pc[r] = "starting" ~> pc[r] = "done"

\* CleanupStaleRunningHistory, end(): no row says RUNNING forever, not even after a
\* crash or a failed write.
RowsSettle == \A r \in Runs : row[r] = "RUNNING" ~> row[r] # "RUNNING"

\* Run: neither a run nor its row is left behind.
RunsSettle == RunsEnd /\ RowsSettle

\* PROPERTIES.md, jobs.<name>.timeout "Overrides job timeout": a run of a job with a
\* timeout comes to an end.
TimedRunsEnd == \A r \in Runs : pc[r] = "fn" /\ Cfg(r).timeout ~> pc[r] = "done"
=============================================================================
