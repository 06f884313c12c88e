------------------------------ MODULE Leadership ------------------------------
(***************************************************************************)
(* Leader election (leader/election.go), the cron runners that only the    *)
(* leader starts (echo/debug.go, job.DisableCronStartOnSchedule) and the   *)
(* shutdown of a replica (shutdown/shutdown.go), whose hooks give up the   *)
(* lease and stop the crons.                                               *)
(*                                                                         *)
(* External, from how the code uses client-go: elector.Run waits for the   *)
(* lease, starts OnStartedLeading in a goroutine, renews the lease until a *)
(* renewal fails or its context is cancelled, releases the lease           *)
(* (ReleaseOnCancel) and calls OnStoppedLeading, also when it never led.   *)
(* A lease outlives the leadership of a holder that could not release it:  *)
(* RenewDeadline is half of LeaseDuration.                                 *)
(***************************************************************************)
EXTENDS Integers, Sequences, FiniteSets, SequencesExt

CONSTANTS
  Replicas, NoOne,
  MaxTerms,    \* bound: terms of a replica
  MaxFaults    \* bound: failed renewals, failed label updates and crashes

LeadershipAssumption ==
  IsFiniteSet(Replicas) /\ NoOne \notin Replicas /\ MaxTerms \in Nat \ {0} /\ MaxFaults \in Nat

Terms == 1 .. MaxTerms

VARIABLES
  lease,     \* its holder
  elector,   \* of each replica: waiting, leading, stopping or ended
  term,      \* terms that each replica has begun
  starting,  \* where OnStartedLeading of each term is
  todo,      \* the pods it has still to patch, in order
  labels,    \* pods labelled leader=true
  crons,     \* replicas whose crons run
  down,      \* of each replica: up, cancelled, down
  late,      \* replicas whose crons were started for a term that was over
  faults

electionVars == <<lease, elector, term, starting, todo, labels, crons, down, late, faults>>

ElectionInit ==
  /\ lease = NoOne /\ faults = 0
  /\ elector = [r \in Replicas |-> "waiting"]
  /\ term = [r \in Replicas |-> 0]
  /\ starting = [r \in Replicas |-> [t \in Terms |-> "none"]]
  /\ todo = [r \in Replicas |-> [t \in Terms |-> << >>]]
  /\ labels = {} /\ crons = {} /\ late = {}
  /\ down = [r \in Replicas |-> "up"]

Fault == faults < MaxFaults /\ faults' = faults + 1
Elector(r, l) == elector' = [elector EXCEPT ![r] = l]
Starting(r, t, l) == starting' = [starting EXCEPT ![r][t] = l]

-----------------------------------------------------------------------------
(* elector.Run, in the loop of Register.                                   *)

\* The lease is taken, or was still the replica's own, and OnStartedLeading is started.
Acquire(r) ==
  /\ elector[r] = "waiting" /\ down[r] = "up" /\ lease \in {NoOne, r} /\ term[r] < MaxTerms
  /\ lease' = r
  /\ Elector(r, "leading")
  /\ term' = [term EXCEPT ![r] = @ + 1]
  /\ Starting(r, term[r] + 1, "list")
  /\ late' = late \ {r}
  /\ UNCHANGED <<todo, labels, crons, down, faults>>

\* The context is cancelled before the lease was taken.
GiveUp(r) ==
  /\ elector[r] = "waiting" /\ down[r] # "up"
  /\ Elector(r, "stopping")
  /\ UNCHANGED <<lease, term, starting, todo, labels, crons, down, late, faults>>

\* Renewals fail until RenewDeadline, and so may the release.
RenewFails(r) ==
  /\ elector[r] = "leading" /\ Fault
  /\ Elector(r, "stopping")
  /\ lease' \in {r, NoOne}
  /\ UNCHANGED <<term, starting, todo, labels, crons, down, late>>

\* The context is cancelled, and the lease is released if the server can be reached.
Release(r) ==
  /\ elector[r] = "leading" /\ down[r] # "up"
  /\ Elector(r, "stopping")
  /\ lease' \in {r, NoOne}
  /\ UNCHANGED <<term, starting, todo, labels, crons, down, late, faults>>

\* LeaseDuration after the last renewal.
Expire ==
  /\ lease # NoOne
  /\ elector[lease] \notin {"leading", "stopping"}
  /\ lease' = NoOne
  /\ UNCHANGED <<elector, term, starting, todo, labels, crons, down, late, faults>>

\* Variant: the crons are left running.
OnStoppedLeadingIdle(r) ==
  /\ elector[r] = "stopping"
  /\ Elector(r, IF down[r] = "up" THEN "waiting" ELSE "ended")
  /\ UNCHANGED <<lease, term, starting, todo, labels, crons, down, late, faults>>

\* OnStoppedLeading, the return of elector.Run and the test of its loop.
OnStoppedLeading(r) ==
  /\ elector[r] = "stopping"
  /\ crons' = crons \ {r} /\ late' = late \ {r}
  /\ Elector(r, IF down[r] = "up" THEN "waiting" ELSE "ended")
  /\ UNCHANGED <<lease, term, starting, todo, labels, down, faults>>

-----------------------------------------------------------------------------
(* OnStartedLeading, for term t.                                           *)

\* updateLeaderLabel: the labelled pods are to be patched, and the replica itself, last
\* unless it is among them.
ListLabelled(r, t) ==
  /\ starting[r][t] = "list"
  /\ \E pods \in SetToSeqs(labels) :
       todo' = [todo EXCEPT ![r][t] = IF r \in labels THEN pods ELSE Append(pods, r)]
  /\ Starting(r, t, "patch")
  /\ UNCHANGED <<lease, elector, term, labels, crons, down, late, faults>>

Patch(r, t) ==
  LET pod == Head(todo[r][t]) IN
  /\ starting[r][t] = "patch"
  /\ labels' = IF pod = r THEN labels \union {r} ELSE labels \ {pod}
  /\ todo' = [todo EXCEPT ![r][t] = Tail(@)]
  /\ Starting(r, t, IF Len(todo[r][t]) = 1 THEN "crons" ELSE "patch")
  /\ UNCHANGED <<lease, elector, term, crons, down, late, faults>>

\* Variant: crons are started only if the label could be set.
LabelFailsReturns(r, t) ==
  /\ starting[r][t] \in {"list", "patch"} /\ Fault
  /\ todo' = [todo EXCEPT ![r][t] = << >>]
  /\ \E l \in {"list", "done"} : Starting(r, t, l)
  /\ UNCHANGED <<lease, elector, term, labels, crons, down, late>>

\* A request fails: from the list again, or no retry is left and the error is logged.
LabelFails(r, t) ==
  /\ starting[r][t] \in {"list", "patch"} /\ Fault
  /\ todo' = [todo EXCEPT ![r][t] = << >>]
  /\ \E l \in {"list", "crons"} : Starting(r, t, l)
  /\ UNCHANGED <<lease, elector, term, labels, crons, down, late>>

\* The crons are started, whether or not the replica still leads.
StartCrons(r, t) ==
  /\ starting[r][t] = "crons"
  /\ crons' = crons \union {r}
  /\ late' = IF elector[r] \in {"leading", "stopping"} THEN late ELSE late \union {r}
  /\ Starting(r, t, "done")
  /\ UNCHANGED <<lease, elector, term, todo, labels, down, faults>>

-----------------------------------------------------------------------------
(* Shutdown of a replica: the hook of Register, of priority 0, comes       *)
(* before the hook "cron scheduler", of priority PriorityJobs - 1.         *)

Cancel(r) ==
  /\ down[r] = "up"
  /\ down' = [down EXCEPT ![r] = "cancelled"]
  /\ UNCHANGED <<lease, elector, term, starting, todo, labels, crons, late, faults>>

StopCrons(r) ==
  /\ down[r] = "cancelled"
  /\ down' = [down EXCEPT ![r] = "down"]
  /\ crons' = crons \ {r} /\ late' = late \ {r}
  /\ UNCHANGED <<lease, elector, term, starting, todo, labels, faults>>

Gone(r) ==
  /\ crons' = crons \ {r} /\ late' = late \ {r}
  /\ starting' = [starting EXCEPT ![r] = [t \in Terms |-> IF t <= term[r] THEN "done" ELSE "none"]]
  /\ todo' = [todo EXCEPT ![r] = [t \in Terms |-> << >>]]
  /\ UNCHANGED <<lease, term, labels>>

\* ShutdownAndExit: the process ends, its pod stays labelled.
Exit(r) ==
  /\ down[r] = "down"
  /\ down' = [down EXCEPT ![r] = "exited"]
  /\ Gone(r) /\ Elector(r, "ended") /\ UNCHANGED faults

\* The process dies and its container is started again.
Crash(r) ==
  /\ down[r] # "exited" /\ Fault
  /\ down' = [down EXCEPT ![r] = "up"]
  /\ Gone(r) /\ Elector(r, "waiting")

ElectionNext ==
  \/ Expire
  \/ \E r \in Replicas :
       \/ Acquire(r) \/ GiveUp(r) \/ RenewFails(r) \/ Release(r) \/ OnStoppedLeading(r)
       \/ Cancel(r) \/ StopCrons(r) \/ Exit(r) \/ Crash(r)
       \/ \E t \in Terms :
            ListLabelled(r, t) \/ Patch(r, t) \/ LabelFails(r, t) \/ StartCrons(r, t)

ElectionSpec == ElectionInit /\ [][ElectionNext]_electionVars

\* Requests are answered and goroutines run; the server frees a lease that expired.
ElectionFairness ==
  /\ WF_electionVars(Expire)
  /\ \A r \in Replicas :
       /\ WF_electionVars(Acquire(r)) /\ WF_electionVars(GiveUp(r)) /\ WF_electionVars(Release(r))
       /\ WF_electionVars(OnStoppedLeading(r)) /\ WF_electionVars(StopCrons(r)) /\ WF_electionVars(Exit(r))
       /\ \A t \in Terms :
            WF_electionVars(ListLabelled(r, t)) /\ WF_electionVars(Patch(r, t)) /\ WF_electionVars(StartCrons(r, t))

ElectionFairSpec == ElectionSpec /\ ElectionFairness

-----------------------------------------------------------------------------
(* Properties.                                                             *)

\* The types of the variables: an OnStartedLeading for each term that has begun, with
\* pods left only while it patches them.
ElectionTypeOK ==
  /\ lease \in Replicas \union {NoOne}
  /\ elector \in [Replicas -> {"waiting", "leading", "stopping", "ended"}]
  /\ term \in [Replicas -> 0 .. MaxTerms]
  /\ starting \in [Replicas -> [Terms -> {"none", "list", "patch", "crons", "done"}]]
  /\ todo \in [Replicas -> [Terms -> Seq(Replicas)]]
  /\ \A r \in Replicas, t \in Terms : /\ starting[r][t] = "none" <=> t > term[r]
                                      /\ starting[r][t] = "patch" <=> todo[r][t] # << >>
  /\ labels \subseteq Replicas /\ late \subseteq crons /\ crons \subseteq Replicas
  /\ down \in [Replicas -> {"up", "cancelled", "down", "exited"}]
  /\ faults \in 0 .. MaxFaults

\* Register, its two callbacks: who leads holds the lease, and crons that were started
\* for a term run while it lasts or until OnStoppedLeading, but for the late.
CronsFollowLease ==
  /\ \A r \in Replicas : elector[r] = "leading" => lease = r
  /\ \A r \in crons \ late : elector[r] \in {"leading", "stopping"}

\* OnStartedLeading, OnStoppedLeading: at most one replica runs crons, but for one that
\* is about to stop them and one whose OnStartedLeading was slower than its term.
OneRunsCrons == Cardinality({r \in crons \ late : elector[r] # "stopping"}) <= 1

\* OneRunsCrons with what it rests on, the types and the lease.
OneScheduler == ElectionTypeOK /\ CronsFollowLease /\ OneRunsCrons

\* Register: "that's why it's run in a never ending loop".  While a replica stays up, one
\* leads and runs its crons again and again, whatever failed, and whichever callbacks of
\* earlier terms were still running.
LedAgain ==
  <>[](\E r \in Replicas : down[r] = "up")
    => []<>(\E r \in crons : elector[r] = "leading")
=============================================================================
