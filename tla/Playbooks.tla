------------------------------ MODULE Playbooks ------------------------------
(***************************************************************************)
(* Playbook runs, their actions and the notifications that started them    *)
(* (models/playbooks.go, models/notifications.go).  Ending a run is a      *)
(* series of statements, each committed by itself: the run, the history of *)
(* its notification, the fallback attempt, and the parent's action that    *)
(* waits for its children.  The runner that calls these operations is not  *)
(* in this repository: it may call them in any order that their names      *)
(* allow, a user may cancel a run at any time, and either may crash.       *)
(***************************************************************************)
EXTENDS Integers, Sequences, SequencesExt

CONSTANTS
  Runs,         \* playbook runs
  Parent,       \* the run that waits for it, or None
  Notified,     \* those that a notification started
  Fallback,     \* HasFallbackSet of their notification
  MaxActions,   \* bound: actions of each run, retries included
  MaxFaults     \* bound: crashes, cancellations, timeouts

\* No run, no action, no status.
None == "none"

PlaybooksAssumption == Parent \in [Runs -> Runs \union {None}] /\ None \notin Runs /\ Notified \subseteq Runs

PlaybookRunStatusFinalStates == {"cancelled", "completed", "failed", "timed_out"}
UnsuccessfulPlaybookRunFinalStates == {"cancelled", "failed", "timed_out"}
PlaybookActionFinalStates == {"failed", "completed", "skipped"}

Callers == {"runner", "user"}

VARIABLES
  runs,      \* the status of each run
  actions,   \* and the statuses of its actions, in the order they were created
  calls,     \* what the runner and the user are doing to end each run
  sends,     \* notification_send_history of each run, and its fallback attempts
  missed,    \* ghost: runs whose waiting action nobody will resume, and why is known
  faults

vars == <<runs, actions, calls, sends, missed, faults>>

NoCall == [pc |-> "idle", status |-> None]

Init ==
  /\ runs = [r \in Runs |-> "scheduled"]
  /\ actions = [r \in Runs |-> << >>]
  /\ calls = [r \in Runs |-> [c \in Callers |-> NoCall]]
  /\ sends = [r \in Runs |-> [status |-> "pending_playbook_completion", fallbacks |-> 0, lost |-> FALSE]]
  /\ missed = {}
  /\ faults = 0

Fault == faults < MaxFaults /\ faults' = faults + 1
Children(r) == {c \in Runs : Parent[c] = r}
Ended(r) == runs[r] \in PlaybookRunStatusFinalStates
Current(r) == IF actions[r] = << >> THEN None ELSE Last(actions[r])
Between(r) == Current(r) \in PlaybookActionFinalStates \union {None}
Free(r) == calls[r]["runner"] = NoCall
SetAction(r, status) == actions' = [actions EXCEPT ![r][Len(actions[r])] = status]
SetRun(r, status) == runs' = [runs EXCEPT ![r] = status]

-----------------------------------------------------------------------------
(* The runner's operations on a run and on its last action                 *)

\* StartAction, RetryAction: a row for the action, then Running; Assign: for an agent, then Waiting.
StartAction(r) ==
  /\ runs[r] \in {"scheduled", "sleeping", "retrying"} /\ Free(r) /\ Between(r) /\ Len(actions[r]) < MaxActions[r]
  /\ \E to \in {<<"scheduled", "running">>, <<"waiting", "waiting">>} :
       /\ actions' = [actions EXCEPT ![r] = Append(@, to[1])]
       /\ SetRun(r, to[2])
  /\ UNCHANGED <<calls, sends, missed, faults>>

\* Start, here or on the agent
Start(r) ==
  /\ Current(r) \in {"scheduled", "waiting"} /\ Free(r)
  /\ SetAction(r, "running")
  /\ UNCHANGED <<runs, calls, sends, missed, faults>>

\* Ghost: with all children at their end already, none is left to resume the action.
WaitForChildren(r) ==
  /\ Current(r) = "running" /\ Free(r) /\ Children(r) # {}
  /\ SetAction(r, "waiting_children")
  /\ missed' = IF \A c \in Children(r) : Ended(c) THEN missed \union {r} ELSE missed
  /\ UNCHANGED <<runs, calls, sends, faults>>

\* Complete, Skip and Fail end the action and schedule the run, whatever became of it.
Finish(r) ==
  /\ Current(r) = "running" /\ Free(r)
  /\ \E status \in PlaybookActionFinalStates : SetAction(r, status)
  /\ SetRun(r, "scheduled")
  /\ UNCHANGED <<calls, sends, missed, faults>>

\* Delay and Retry
Delay(r) ==
  /\ runs[r] = "scheduled" /\ Free(r) /\ Between(r)
  /\ \E status \in {"sleeping", "retrying"} : SetRun(r, status)
  /\ UNCHANGED <<actions, calls, sends, missed, faults>>

\* PlaybookRun.Fail writes the run, and neither the notification nor the parent.
FailRun(r) ==
  /\ runs[r] = "scheduled" /\ Free(r) /\ Fault
  /\ SetRun(r, "failed")
  /\ missed' = missed \union {Parent[r]}
  /\ sends' = [sends EXCEPT ![r].lost = TRUE]
  /\ UNCHANGED <<actions, calls>>

-----------------------------------------------------------------------------
(* Ending a run                                                            *)

\* endWithDeterminedStatus reads the actions' statuses.
End(r) ==
  /\ runs[r] = "scheduled" /\ Free(r) /\ Between(r)
  /\ calls' = [calls EXCEPT ![r]["runner"] =
                 [pc |-> "update", status |-> IF Contains(actions[r], "failed") THEN "failed" ELSE "completed"]]
  /\ UNCHANGED <<runs, actions, sends, missed, faults>>

\* EndAsTimedOut and Cancel, of the same run and of one that is running
EndAs(r, c) ==
  /\ ~ Ended(r) /\ calls[r][c] = NoCall /\ Fault
  /\ calls' = [calls EXCEPT ![r][c] =
                 [pc |-> "update", status |-> IF c = "runner" THEN "timed_out" ELSE "cancelled"]]
  /\ UNCHANGED <<runs, actions, sends, missed>>

Step(r, c, pc) == calls' = [calls EXCEPT ![r][c].pc = pc]
At(r, c, pc) == calls[r][c].pc = pc

\* endWithStatus
EndWithStatus(r, c) ==
  /\ At(r, c, "update")
  /\ SetRun(r, calls[r][c].status)
  /\ Step(r, c, IF r \in Notified THEN "notify" ELSE "resume")
  /\ UNCHANGED <<actions, sends, missed, faults>>

UpdateHistory(r, c) ==
  /\ At(r, c, "notify")
  /\ sends' = [sends EXCEPT ![r].status =
                 IF calls[r][c].status \in UnsuccessfulPlaybookRunFinalStates THEN "error" ELSE "sent"]
  /\ Step(r, c, "fallback")
  /\ UNCHANGED <<runs, actions, missed, faults>>

\* Variant: only runs that failed by themselves fall back.
GenerateFallbackIfFailed(r, c) ==
  /\ At(r, c, "fallback")
  /\ sends' = IF calls[r][c].status = "failed" /\ Fallback
              THEN [sends EXCEPT ![r].fallbacks = @ + 1] ELSE sends
  /\ Step(r, c, "resume")
  /\ UNCHANGED <<runs, actions, missed, faults>>

\* GenerateFallbackAttempt: a history of its own, with the fallback recipients.
GenerateFallbackAttempt(r, c) ==
  /\ At(r, c, "fallback")
  /\ sends' = IF calls[r][c].status \in UnsuccessfulPlaybookRunFinalStates /\ Fallback
              THEN [sends EXCEPT ![r].fallbacks = @ + 1] ELSE sends
  /\ Step(r, c, "resume")
  /\ UNCHANGED <<runs, actions, missed, faults>>

Resume(r, c, all) ==
  /\ At(r, c, "resume")
  /\ calls' = [calls EXCEPT ![r][c] = NoCall]
  /\ actions' = IF Parent[r] = None THEN actions
                ELSE [actions EXCEPT ![Parent[r]] =
                        IF runs[Parent[r]] = "running" /\ all
                        THEN [i \in DOMAIN @ |-> IF @[i] = "waiting_children" THEN "scheduled" ELSE @[i]] ELSE @]
  /\ UNCHANGED <<runs, sends, missed, faults>>

\* Variant: the parent is resumed when all of its children succeeded.
ResumeAfterSuccess(r, c) == Resume(r, c, \A k \in Children(Parent[r]) : runs[k] = "completed")

\* ResumeChildrenWaitingAction: one transaction, which sees what is committed.
ResumeChildrenWaitingAction(r, c) == Resume(r, c, \A k \in Children(Parent[r]) : Ended(k))

\* A statement fails or the process ends; the caller does not start over.
Crash(r, c) ==
  /\ calls[r][c] # NoCall /\ Fault
  /\ calls' = [calls EXCEPT ![r][c] = NoCall]
  /\ missed' = missed \union {Parent[r]}
  /\ sends' = [sends EXCEPT ![r].lost = TRUE]
  /\ UNCHANGED <<runs, actions>>

Next ==
  \E r \in Runs :
    \/ StartAction(r) \/ Start(r) \/ WaitForChildren(r) \/ Finish(r) \/ Delay(r) \/ FailRun(r) \/ End(r)
    \/ \E c \in Callers :
         \/ EndAs(r, c) \/ EndWithStatus(r, c) \/ UpdateHistory(r, c) \/ GenerateFallbackAttempt(r, c)
         \/ ResumeChildrenWaitingAction(r, c) \/ Crash(r, c)

Spec == Init /\ [][Next]_vars

-----------------------------------------------------------------------------
(* Properties.                                                             *)

\* endWithStatus and ResumeChildrenWaitingAction: an action that waits for children is
\* resumed by the last of them to end, though two may end at once, each looking for the
\* other - unless they had ended before it waited, one failed by Fail, or its end was cut short.
LastChildResumes ==
  \A r \in Runs :
    /\ runs[r] = "running" /\ Current(r) = "waiting_children"
    /\ \A k \in Children(r) : Ended(k) /\ \A c \in Callers : calls[k][c] = NoCall
    => r \in missed

\* endWithStatus: a notification whose run did not succeed falls back, though a cancellation
\* may overtake the end of the run.
FailedFallBack ==
  \A r \in Notified :
    /\ Fallback /\ sends[r].status = "error" /\ ~ sends[r].lost
    /\ \A c \in Callers : calls[r][c] = NoCall
    => sends[r].fallbacks > 0
=============================================================================
