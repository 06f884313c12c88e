----------------------------- MODULE JobRunProofs -----------------------------
(***************************************************************************)
(* Proofs about JobRun, for any runs, jobs and semaphores: no permit is    *)
(* taken twice or lost, singletons exclude each other and no SUCCESS hides *)
(* an error.                                                               *)
(***************************************************************************)
EXTENDS JobRun, FiniteSetTheorems, SequenceTheorems, TLAPS

(* The semaphores that a run names are semaphores.                         *)
LEMMA SemType ==
  ASSUME TypeOK, NEW r \in Runs, NEW n \in 1 .. Len(Cfg(r).semaphores)
  PROVE  Sem(r, n) \in Semaphores
  BY JobAssumption DEF TypeOK, Cfg, Sem

(* A step that touches neither got nor used keeps what is held.            *)
LEMMA SameHeld ==
  ASSUME NothingLeaked, UNCHANGED <<job, used, got>>,
         \A r \in Runs : got[r] > 0 => Inside(r)'
  PROVE  NothingLeaked'
  <1>1. \A s : Held(s)' = Held(s)
    BY DEF Held, Sem, Cfg
  <1> QED
    BY <1>1 DEF NothingLeaked, Cfg

(* A step that leaves statuses, errors and the end of runs alone.          *)
LEMMA SameSuccess ==
  ASSUME SuccessIsEarned, UNCHANGED <<hist, row>>,
         \A r \in Runs : pc[r] = "done" => pc'[r] = "done"
  PROVE  SuccessIsEarned'
  BY DEF SuccessIsEarned

-----------------------------------------------------------------------------
(* JobHistory.                                                             *)

LEMMA HistoryTypes ==
  ASSUME TypeOK, NEW r \in Runs
  PROVE  LET H == [status : Statuses, errors : Nat, successes : Nat] IN
         /\ NewHistory \in H
         /\ Ended(hist[r]) \in H
         /\ ErrorAdded(r) \in H
         /\ EvaluateStatus(hist[r]) \in Statuses
  <1> DEFINE H == [status : Statuses, errors : Nat, successes : Nat]
  <1>1. hist[r] \in H
    BY DEF TypeOK
  <1>2. \A h \in H : EvaluateStatus(h) \in Statuses /\ Ended(h) \in H
    BY DEF EvaluateStatus, Ended, Statuses, Final
  <1>3. [hist[r] EXCEPT !.errors = @ + 1] \in H
    BY <1>1
  <1>4. ErrorAdded(r) \in H
    BY <1>2, <1>3 DEF ErrorAdded
  <1>5. NewHistory \in H
    BY DEF NewHistory, Statuses
  <1> QED
    BY <1>1, <1>2, <1>4, <1>5

(* What a write of the row may do.                                         *)
LEMMA Persisted ==
  ASSUME TypeOK, NEW r \in Runs, NEW wanted, NEW status \in Statuses, Persist(r, wanted, status)
  PROVE  /\ row' \in [Runs -> Statuses \union {"STALE"}]
         /\ faults' \in 0 .. MaxFaults
         /\ \A q \in Runs : row'[q] = row[q] \/ (q = r /\ row'[q] = status)
  <1>1. faults \in 0 .. MaxFaults /\ row \in [Runs -> Statuses \union {"STALE"}]
    BY DEF TypeOK
  <1>2. CASE wanted /\ row' = [row EXCEPT ![r] = status] /\ UNCHANGED faults
    BY <1>1, <1>2
  <1>3. CASE wanted /\ Fault /\ UNCHANGED row
    BY <1>1, <1>3, JobAssumption DEF Fault
  <1>4. CASE ~wanted /\ UNCHANGED <<row, faults>>
    BY <1>1, <1>4
  <1> QED
    BY <1>2, <1>3, <1>4 DEF Persist

(* An error that is added fixes no SUCCESS.                                *)
LEMMA ErrorAddedStatus ==
  ASSUME TypeOK, SuccessIsEarned, NEW r \in Runs, pc[r] # "done"
  PROVE  ErrorAdded(r).status # "SUCCESS"
  <1>1. hist[r].status # "SUCCESS" /\ hist[r].errors \in Nat
    BY DEF SuccessIsEarned, TypeOK
  <1> DEFINE h == [hist[r] EXCEPT !.errors = @ + 1]
  <1>2. h.status # "SUCCESS" /\ h.errors > 0
    BY <1>1 DEF TypeOK
  <1>3. EvaluateStatus(h) # "SUCCESS"
    BY <1>2 DEF EvaluateStatus
  <1>4. Ended(h).status # "SUCCESS"
    BY <1>3 DEF Ended, TypeOK
  <1> QED
    BY <1>2, <1>4 DEF ErrorAdded

-----------------------------------------------------------------------------
(* The initial state, and one lemma per action or family of actions.       *)

LEMMA InitInv == Init => IndInv
  <1> SUFFICES ASSUME Init PROVE IndInv
    OBVIOUS
  <1> USE JobAssumption DEF Init
  <1>1. TypeOK
    BY DEF TypeOK, Positions, Statuses, None, NewHistory
  <1>2. NothingLeaked
    <2>1. \A s : Held(s) = {}
      BY DEF Held
    <2>2. \A t \in Semaphores : 0 <= Permits[t]
      OBVIOUS
    <2>3. \A j \in Jobs : 0 <= Len(Config[j].semaphores)
      BY LenProperties
    <2>4. \A r \in Runs : got[r] <= Len(Cfg(r).semaphores) /\ (got[r] > 0 => Inside(r))
      BY <2>3 DEF Cfg
    <2> QED
      BY <2>1, <2>2, <2>4, FS_EmptySet DEF NothingLeaked
  <1>3. LocksFollowRuns
    BY DEF LocksFollowRuns, Inside
  <1>4. SuccessIsEarned
    BY DEF SuccessIsEarned, NewHistory, None
  <1> QED
    BY <1>1, <1>2, <1>3, <1>4 DEF IndInv

(* A step of one run that moves between places outside its locks.          *)
LEMMA MoveInv ==
  ASSUME IndInv, NEW r \in Runs, Begin(r) \/ NotRun(r) \/ CallFn(r)
  PROVE  IndInv'
  <1>1. TypeOK'
    BY DEF IndInv, TypeOK, Begin, NotRun, CallFn, Goto, Positions
  <1>2. \A q \in Runs : Inside(q) <=> Inside(q)'
    BY DEF IndInv, TypeOK, Begin, NotRun, CallFn, Goto, Inside
  <1>3. NothingLeaked'
    BY <1>2, SameHeld DEF IndInv, NothingLeaked, Begin, NotRun, CallFn
  <1>4. LocksFollowRuns'
    BY <1>2 DEF IndInv, LocksFollowRuns, Begin, NotRun, CallFn, Cfg
  <1>5. SuccessIsEarned'
    BY SameSuccess DEF IndInv, TypeOK, Begin, NotRun, CallFn, Goto
  <1> QED
    BY <1>1, <1>3, <1>4, <1>5 DEF IndInv

LEMMA StartInv ==
  ASSUME IndInv, NEW r \in Runs, Start(r)
  PROVE  IndInv'
  <1>1. TypeOK'
    <2>1. hist' \in [Runs -> [status : Statuses, errors : Nat, successes : Nat]]
      <3>1. NewHistory \in [status : Statuses, errors : Nat, successes : Nat]
        BY HistoryTypes DEF IndInv
      <3> QED
        BY <3>1 DEF IndInv, TypeOK, Start
    <2>2. row' \in [Runs -> Statuses \union {"STALE"}] /\ faults' \in 0 .. MaxFaults
      BY Persisted DEF IndInv, Start, Statuses
    <2> QED
      BY <2>1, <2>2 DEF IndInv, TypeOK, Start, Goto, Positions
  <1>2. \A q \in Runs : Inside(q) <=> Inside(q)'
    BY DEF IndInv, TypeOK, Start, Goto, Inside
  <1>3. NothingLeaked'
    BY <1>2, SameHeld DEF IndInv, NothingLeaked, Start
  <1>4. LocksFollowRuns'
    BY <1>2 DEF IndInv, LocksFollowRuns, Start, Cfg
  <1>5. SuccessIsEarned'
    <2>1. \A q \in Runs : row'[q] = row[q] \/ row'[q] = "RUNNING"
      BY Persisted DEF IndInv, Start, Statuses
    <2> QED
      BY <2>1 DEF IndInv, TypeOK, SuccessIsEarned, Start, Goto, NewHistory
  <1> QED
    BY <1>1, <1>3, <1>4, <1>5 DEF IndInv

LEMMA TryLockInv ==
  ASSUME IndInv, NEW r \in Runs, TryLock(r)
  PROVE  IndInv'
  <1>1. TypeOK'
    BY DEF IndInv, TypeOK, TryLock, Goto, Positions
  <1>2. \A q \in Runs : Inside(q)' <=> Inside(q) \/ q = r
    BY DEF IndInv, TypeOK, TryLock, Goto, Inside
  <1>3. NothingLeaked'
    BY <1>2, SameHeld DEF IndInv, NothingLeaked, TryLock
  <1>4. LocksFollowRuns'
    BY <1>2 DEF IndInv, LocksFollowRuns, TryLock, Locked, Cfg
  <1>5. SuccessIsEarned'
    BY SameSuccess DEF IndInv, TypeOK, TryLock, Goto
  <1> QED
    BY <1>1, <1>3, <1>4, <1>5 DEF IndInv

LEMMA SkipInv ==
  ASSUME IndInv, NEW r \in Runs, SkipRunning(r) \/ SkipCrowded(r)
  PROVE  IndInv'
  <1> DEFINE h == [hist[r] EXCEPT !.status = "SKIPPED"]
  <1>0. /\ h \in [status : Statuses, errors : Nat, successes : Nat]
        /\ h.status = "SKIPPED" /\ hist' = [hist EXCEPT ![r] = h]
    <2>1. hist[r] \in [status : Statuses, errors : Nat, successes : Nat]
      BY DEF IndInv, TypeOK
    <2>2. hist' = [hist EXCEPT ![r] = h]
      BY DEF SkipRunning, SkipCrowded
    <2> QED
      BY <2>1, <2>2 DEF Statuses, Final
  <1> HIDE DEF h
  <1>1. TypeOK'
    BY <1>0 DEF IndInv, TypeOK, SkipRunning, SkipCrowded, Goto, Positions
  <1>2. \A q \in Runs : Inside(q) <=> Inside(q)'
    BY DEF IndInv, TypeOK, SkipRunning, SkipCrowded, Goto, Inside
  <1>3. NothingLeaked'
    BY <1>2, SameHeld DEF IndInv, NothingLeaked, SkipRunning, SkipCrowded
  <1>4. LocksFollowRuns'
    BY <1>2 DEF IndInv, LocksFollowRuns, SkipRunning, SkipCrowded, Cfg
  <1>5. SuccessIsEarned'
    BY <1>0 DEF IndInv, TypeOK, SuccessIsEarned, SkipRunning, SkipCrowded, Goto
  <1> QED
    BY <1>1, <1>3, <1>4, <1>5 DEF IndInv

(* Acquire: one more place is held, which was not held before.             *)
LEMMA AcquireInv ==
  ASSUME IndInv, NEW r \in Runs, Acquire(r)
  PROVE  IndInv'
  <1> DEFINE n == got[r] + 1
             s == Sem(r, n)
  <1>1. /\ got \in [Runs -> Nat] /\ used \in [Semaphores -> Nat] /\ job \in [Runs -> Jobs]
        /\ got' = [got EXCEPT ![r] = n] /\ used' = [used EXCEPT ![s] = @ + 1]
        /\ used[s] < Permits[s] /\ UNCHANGED <<job, pc, running, hist, row, cancelled, faults>>
    BY DEF IndInv, TypeOK, Acquire
  <1>2. n \in 1 .. Len(Cfg(r).semaphores) /\ s \in Semaphores
    <2>1. Cfg(r).semaphores \in Seq(Semaphores)
      BY <1>1, JobAssumption DEF Cfg
    <2>2. n \in 1 .. Len(Cfg(r).semaphores)
      BY <1>1, <2>1, LenProperties DEF Acquire, IndInv, NothingLeaked
    <2> QED
      BY <2>2, SemType DEF IndInv
  <1>3. TypeOK'
    <2>1. got' \in [Runs -> Nat] /\ used' \in [Semaphores -> Nat]
      BY <1>1, <1>2
    <2> QED
      BY <1>1, <2>1 DEF IndInv, TypeOK
  <1>4. \A t : Held(t)' = IF t = s THEN Held(t) \union {<<r, n>>} ELSE Held(t)
    <2>1. \A q \in Runs : \A m : Sem(q, m)' = Sem(q, m)
      BY <1>1 DEF Sem, Cfg
    <2>2. \A q \in Runs : q # r => got'[q] = got[q]
      BY <1>1
    <2>3. got[r] \in Nat /\ got'[r] = n /\ n = got[r] + 1
      BY <1>1
    <2>4. \A m : m \in 1 .. n <=> m \in 1 .. got[r] \/ m = n
      BY <2>3
    <2> QED
      BY <2>1, <2>2, <2>3, <2>4 DEF Held
  <1>5. <<r, n>> \notin Held(s)
    BY <1>1 DEF Held
  <1> HIDE DEF n, s
  <1>6. NothingLeaked'
    <2>1. ASSUME NEW t \in Semaphores
          PROVE  /\ IsFiniteSet(Held(t))' /\ used'[t] = Cardinality(Held(t))' /\ used'[t] <= Permits[t]
      <3>1. IsFiniteSet(Held(t)) /\ used[t] = Cardinality(Held(t)) /\ used[t] <= Permits[t]
        BY DEF IndInv, NothingLeaked
      <3>2. CASE t = s
        <4>1. IsFiniteSet(Held(t)') /\ Cardinality(Held(t)') = Cardinality(Held(t)) + 1
          BY <1>4, <1>5, <3>1, <3>2, FS_AddElement
        <4>2. used'[t] = used[t] + 1 /\ used'[t] <= Permits[t]
          <5>1. Permits[t] \in Nat
            BY JobAssumption
          <5> QED
            BY <1>1, <1>2, <3>2, <5>1
        <4> QED
          BY <3>1, <4>1, <4>2
      <3>3. CASE t # s
        BY <1>1, <1>4, <3>1, <3>3
      <3> QED
        BY <3>2, <3>3
    <2>2. \A q \in Runs : got'[q] <= Len(Cfg(q)'.semaphores) /\ (got'[q] > 0 => Inside(q)')
      <3>1. \A q \in Runs : got[q] <= Len(Cfg(q).semaphores) /\ (got[q] > 0 => Inside(q))
        BY DEF IndInv, NothingLeaked
      <3>2. got'[r] <= Len(Cfg(r).semaphores) /\ Inside(r)
        BY <1>1, <1>2 DEF Acquire, Inside
      <3> QED
        BY <1>1, <3>1, <3>2 DEF Inside, Cfg
    <2> QED
      BY <2>1, <2>2 DEF NothingLeaked
  <1>7. LocksFollowRuns'
    BY <1>1 DEF IndInv, LocksFollowRuns, Inside, Cfg
  <1>8. SuccessIsEarned'
    BY <1>1, SameSuccess DEF IndInv
  <1> QED
    BY <1>3, <1>6, <1>7, <1>8 DEF IndInv

(* Release: the last place that was taken is given back.                   *)
LEMMA ReleaseInv ==
  ASSUME IndInv, NEW r \in Runs, Release(r)
  PROVE  IndInv'
  <1> DEFINE n == got[r]
             s == Sem(r, n)
  <1>1. /\ got \in [Runs -> Nat] /\ used \in [Semaphores -> Nat] /\ job \in [Runs -> Jobs]
        /\ got' = [got EXCEPT ![r] = n - 1] /\ used' = [used EXCEPT ![s] = @ - 1]
        /\ n = got[r] /\ n \in Nat /\ n > 0 /\ UNCHANGED <<job, pc, running, hist, row, cancelled, faults>>
    BY DEF IndInv, TypeOK, Release
  <1>2. n \in 1 .. Len(Cfg(r).semaphores) /\ s \in Semaphores
    <2>1. Cfg(r).semaphores \in Seq(Semaphores)
      BY <1>1, JobAssumption DEF Cfg
    <2>2. n \in 1 .. Len(Cfg(r).semaphores)
      BY <1>1, <2>1, LenProperties DEF IndInv, NothingLeaked
    <2> QED
      BY <2>2, SemType DEF IndInv
  <1>3. <<r, n>> \in Held(s)
    BY <1>1 DEF Held
  <1>4. \A t : Held(t)' = IF t = s THEN Held(t) \ {<<r, n>>} ELSE Held(t)
    BY <1>1 DEF Held, Sem, Cfg
  <1> HIDE DEF n, s
  <1>5. ASSUME NEW t \in Semaphores
        PROVE  /\ IsFiniteSet(Held(t))' /\ used'[t] \in Nat
               /\ used'[t] = Cardinality(Held(t))' /\ used'[t] <= Permits[t]
    <2>1. IsFiniteSet(Held(t)) /\ used[t] = Cardinality(Held(t)) /\ used[t] <= Permits[t]
      BY DEF IndInv, NothingLeaked
    <2>2. CASE t = s
      <3>1. IsFiniteSet(Held(t)') /\ Cardinality(Held(t)') = Cardinality(Held(t)) - 1
        BY <1>3, <1>4, <2>1, <2>2, FS_RemoveElement
      <3>2. Cardinality(Held(t)') \in Nat
        BY <3>1, FS_CardinalityType
      <3>3. used'[t] = used[t] - 1 /\ used[t] \in Nat /\ Permits[t] \in Nat
        BY <1>1, <1>2, <2>2, JobAssumption
      <3> QED
        BY <2>1, <3>1, <3>2, <3>3
    <2>3. CASE t # s
      BY <1>1, <1>4, <2>1, <2>3
    <2> QED
      BY <2>2, <2>3
  <1>6. TypeOK'
    <2>1. used' \in [Semaphores -> Nat]
      BY <1>1, <1>5
    <2> QED
      BY <1>1, <2>1 DEF IndInv, TypeOK
  <1>7. NothingLeaked'
    <2>1. \A q \in Runs : got'[q] <= Len(Cfg(q)'.semaphores) /\ (got'[q] > 0 => Inside(q)')
      <3>1. \A q \in Runs : got[q] <= Len(Cfg(q).semaphores) /\ (got[q] > 0 => Inside(q))
        BY DEF IndInv, NothingLeaked
      <3>2. got'[r] <= Len(Cfg(r).semaphores)
        BY <1>1, <1>2
      <3> QED
        BY <1>1, <3>1, <3>2 DEF Inside, Cfg
    <2> QED
      BY <1>5, <2>1 DEF NothingLeaked
  <1>8. LocksFollowRuns'
    BY <1>1 DEF IndInv, LocksFollowRuns, Inside, Cfg
  <1>9. SuccessIsEarned'
    BY <1>1, SameSuccess DEF IndInv
  <1> QED
    BY <1>6, <1>7, <1>8, <1>9 DEF IndInv

(* Contexts are no part of the invariant but for their type.               *)
LEMMA CancelInv ==
  ASSUME IndInv, Stop \/ \E r \in Runs : TimeoutFires(r)
  PROVE  IndInv'
  <1>1. cancelled' \subseteq Runs \X {"run", "timed"}
    <2>1. CASE Stop
      BY <2>1 DEF Stop
    <2>2. CASE \E r \in Runs : TimeoutFires(r)
      <3>1. PICK r \in Runs : cancelled' = cancelled \union {<<r, "timed">>}
        BY <2>2 DEF TimeoutFires
      <3>2. <<r, "timed">> \in Runs \X {"run", "timed"}
        OBVIOUS
      <3>3. cancelled \subseteq Runs \X {"run", "timed"}
        BY DEF IndInv, TypeOK
      <3> QED
        BY <3>1, <3>2, <3>3
    <2> QED
      BY <2>1, <2>2
  <1>2. UNCHANGED <<job, pc, running, used, got, hist, row, faults>>
    BY DEF Stop, TimeoutFires
  <1>3. NothingLeaked'
    BY <1>2, SameHeld DEF IndInv, NothingLeaked, Inside
  <1>4. LocksFollowRuns' /\ SuccessIsEarned'
    BY <1>2, SameSuccess DEF IndInv, LocksFollowRuns, Inside, Cfg
  <1>5. TypeOK'
    BY <1>1, <1>2 DEF IndInv, TypeOK
  <1> QED
    BY <1>3, <1>4, <1>5 DEF IndInv

(* Fn records a success or an error, and may return.                       *)
LEMMA FnInv ==
  ASSUME IndInv, NEW r \in Runs,
         FnAddsError(r) \/ FnAddsSuccess(r) \/ FnReturns(r) \/ FnAborts(r)
  PROVE  IndInv'
  <1> DEFINE H == [status : Statuses, errors : Nat, successes : Nat]
             h == [hist[r] EXCEPT !.successes = @ + 1]
  <1>1. /\ hist \in [Runs -> H] /\ pc \in [Runs -> Positions] /\ pc[r] = "fn"
        /\ UNCHANGED <<job, running, used, got, row, cancelled, faults>>
        /\ pc' = pc \/ pc' = [pc EXCEPT ![r] = "releasing"]
    BY DEF IndInv, TypeOK, FnAddsError, FnAddsSuccess, FnReturns, FnAborts, Goto
  <1>2. hist[r].status # "SUCCESS"
    BY <1>1 DEF IndInv, SuccessIsEarned
  <1>3. h \in H /\ h.status = hist[r].status
    BY <1>1
  <1>4. ErrorAdded(r) \in H /\ ErrorAdded(r).status # "SUCCESS"
    BY <1>1, HistoryTypes, ErrorAddedStatus DEF IndInv
  <1>5. \E g \in H : g.status # "SUCCESS" /\ hist' = [hist EXCEPT ![r] = g]
    <2>1. CASE FnAddsError(r) \/ FnAborts(r)
      BY <1>4, <2>1 DEF FnAddsError, FnAborts
    <2>2. CASE FnAddsSuccess(r)
      BY <1>2, <1>3, <2>2 DEF FnAddsSuccess
    <2>3. CASE FnReturns(r)
      <3>1. hist = [hist EXCEPT ![r] = hist[r]] /\ hist[r] \in H
        BY <1>1
      <3> QED
        BY <1>2, <1>4, <2>3, <3>1 DEF FnReturns
    <2> QED
      BY <2>1, <2>2, <2>3
  <1> HIDE DEF H, h
  <1>6. PICK g \in H : g.status # "SUCCESS" /\ hist' = [hist EXCEPT ![r] = g]
    BY <1>5
  <1>7. \A q \in Runs : Inside(q) <=> Inside(q)'
    BY <1>1 DEF Inside
  <1>8. TypeOK'
    BY <1>1, <1>6 DEF IndInv, TypeOK, Positions, H
  <1>9. NothingLeaked'
    BY <1>1, <1>7, SameHeld DEF IndInv, NothingLeaked
  <1>10. LocksFollowRuns'
    BY <1>1, <1>7 DEF IndInv, LocksFollowRuns, Cfg
  <1>11. SuccessIsEarned'
    BY <1>1, <1>6 DEF IndInv, SuccessIsEarned
  <1> QED
    BY <1>8, <1>9, <1>10, <1>11 DEF IndInv

LEMMA UnlockInv ==
  ASSUME IndInv, NEW r \in Runs, Unlock(r)
  PROVE  IndInv'
  <1>1. TypeOK'
    BY DEF IndInv, TypeOK, Unlock, Goto, Positions
  <1>2. \A q \in Runs : Inside(q)' <=> Inside(q) /\ q # r
    BY DEF IndInv, TypeOK, Unlock, Goto, Inside
  <1>3. NothingLeaked'
    BY <1>2, SameHeld DEF IndInv, TypeOK, NothingLeaked, Unlock
  <1>4. LocksFollowRuns'
    BY <1>2 DEF IndInv, LocksFollowRuns, Unlock, Cfg
  <1>5. SuccessIsEarned'
    BY SameSuccess DEF IndInv, TypeOK, Unlock, Goto
  <1> QED
    BY <1>1, <1>3, <1>4, <1>5 DEF IndInv

(* End: the status it comes to is a SUCCESS only if there was no error.    *)
LEMMA EndInv ==
  ASSUME IndInv, NEW r \in Runs, End(r)
  PROVE  IndInv'
  <1> DEFINE H == [status : Statuses, errors : Nat, successes : Nat]
             s == EvaluateStatus(hist[r])
  <1>1. /\ hist \in [Runs -> H] /\ pc \in [Runs -> Positions] /\ pc[r] = "ending"
        /\ UNCHANGED <<job, running, used, got, cancelled>>
        /\ pc' = [pc EXCEPT ![r] = "done"] /\ hist' = [hist EXCEPT ![r] = Ended(@)]
    BY DEF IndInv, TypeOK, End, Goto
  <1>2. /\ row' \in [Runs -> Statuses \union {"STALE"}] /\ faults' \in 0 .. MaxFaults
        /\ \A q \in Runs : row'[q] = row[q] \/ (q = r /\ row'[q] = s)
    BY HistoryTypes, Persisted DEF IndInv, End
  <1>3. Ended(hist[r]) \in H /\ Ended(hist[r]).status = s /\ Ended(hist[r]).errors = hist[r].errors
    BY <1>1, HistoryTypes DEF IndInv, Ended
  <1>4. s = "SUCCESS" => hist[r].errors = 0
    <2>1. hist[r].status # "SUCCESS"
      BY <1>1 DEF IndInv, SuccessIsEarned
    <2> QED
      BY <1>1, <2>1 DEF EvaluateStatus
  <1>5. TypeOK'
    BY <1>1, <1>2, <1>3 DEF IndInv, TypeOK, Positions
  <1>6. \A q \in Runs : Inside(q) <=> Inside(q)'
    BY <1>1 DEF Inside
  <1>7. NothingLeaked'
    BY <1>1, <1>6, SameHeld DEF IndInv, NothingLeaked
  <1>8. LocksFollowRuns'
    BY <1>1, <1>6 DEF IndInv, LocksFollowRuns, Cfg
  <1> HIDE DEF H, s
  <1>9. SuccessIsEarned'
    BY <1>1, <1>2, <1>3, <1>4 DEF IndInv, SuccessIsEarned
  <1> QED
    BY <1>5, <1>7, <1>8, <1>9 DEF IndInv

LEMMA CrashInv ==
  ASSUME IndInv, Crash
  PROVE  IndInv'
  <1>1. TypeOK'
    BY JobAssumption DEF IndInv, TypeOK, Crash, Fault, Positions
  <1>2. \A q \in Runs : ~Inside(q)'
    BY DEF Crash, Inside
  <1>3. NothingLeaked'
    <2>1. \A s : Held(s)' = {}
      BY DEF Held, Crash
    <2>2. \A s \in Semaphores : used'[s] = 0 /\ used'[s] <= Permits[s]
      <3>1. \A s \in Semaphores : Permits[s] \in Nat
        BY JobAssumption
      <3> QED
        BY <3>1 DEF Crash
    <2>3. \A q \in Runs : got'[q] <= Len(Cfg(q)'.semaphores) /\ got'[q] = 0
      <3>1. \A j \in Jobs : 0 <= Len(Config[j].semaphores)
        BY JobAssumption, LenProperties
      <3> QED
        BY <3>1 DEF IndInv, TypeOK, Crash, Cfg
    <2>4. \A s \in Semaphores :
            /\ IsFiniteSet(Held(s)')
            /\ used'[s] = Cardinality(Held(s)') /\ used'[s] <= Permits[s]
      BY <2>1, <2>2, FS_EmptySet
    <2>5. \A q \in Runs : got'[q] <= Len(Cfg(q)'.semaphores) /\ (got'[q] > 0 => Inside(q)')
      BY <2>3
    <2> QED
      BY <2>4, <2>5 DEF NothingLeaked
  <1>4. LocksFollowRuns'
    BY <1>2 DEF LocksFollowRuns, Crash
  <1>5. SuccessIsEarned'
    BY SameSuccess DEF IndInv, Crash
  <1> QED
    BY <1>1, <1>3, <1>4, <1>5 DEF IndInv

LEMMA CleanupInv ==
  ASSUME IndInv, NEW r \in Runs, CleanupStaleRunning(r)
  PROVE  IndInv'
  <1>1. TypeOK'
    BY DEF IndInv, TypeOK, CleanupStaleRunning
  <1>2. NothingLeaked'
    BY SameHeld DEF IndInv, NothingLeaked, CleanupStaleRunning, Inside
  <1>3. LocksFollowRuns'
    BY DEF IndInv, LocksFollowRuns, CleanupStaleRunning, Inside, Cfg
  <1>4. SuccessIsEarned'
    BY DEF IndInv, TypeOK, SuccessIsEarned, CleanupStaleRunning
  <1> QED
    BY <1>1, <1>2, <1>3, <1>4 DEF IndInv

LEMMA StutterInv ==
  ASSUME IndInv, UNCHANGED vars
  PROVE  IndInv'
  <1>1. NothingLeaked'
    BY SameHeld DEF IndInv, NothingLeaked, vars, Inside
  <1> QED
    BY <1>1 DEF IndInv, TypeOK, LocksFollowRuns, SuccessIsEarned, vars, Inside, Cfg

LEMMA NextInv == IndInv /\ [Next]_vars => IndInv'
  BY MoveInv, StartInv, TryLockInv, SkipInv, AcquireInv, ReleaseInv, CancelInv, FnInv,
     UnlockInv, EndInv, CrashInv, CleanupInv, StutterInv DEF Next

-----------------------------------------------------------------------------
(* The theorems.                                                           *)

\* Run keeps its records at every step, for any jobs: job/job.go takes and gives back
\* every permit and lock, and evaluateStatus earns every SUCCESS.
THEOREM Invariance == Spec => []IndInv
  <1> QED
    BY InitInv, NextInv, PTL DEF Spec

\* singletonLocks.TryLock and the deferred unlock: no two runs of singletons with one
\* Job.ID() are inside Fn together.
THEOREM Exclusive == Spec => []SingletonsExclusive
  <1>1. IndInv => SingletonsExclusive
    BY DEF IndInv, LocksFollowRuns, SingletonsExclusive, Inside
  <1> QED
    BY <1>1, Invariance, PTL

\* Run, end() and evaluateStatus: permits and locks are accounted for, and no row and no
\* history of a run that is over says SUCCESS after an error.
THEOREM AccountedFor == Spec => []RunsAccountedFor
  <1>1. IndInv => RunsAccountedFor
    BY DEF IndInv, TypeOK, SuccessIsEarned, RunsAccountedFor, ErrorsNotHidden
  <1> QED
    BY <1>1, Invariance, PTL
=============================================================================
