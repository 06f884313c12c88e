------------------------------ MODULE Reconcile ------------------------------
(***************************************************************************)
(* The reconciler of an agent (upstream/jobs.go) pushes the rows that have *)
(* changed to the upstream server (upstream/commands.go), table by table,  *)
(* while scrapers go on changing them.  A row is its version; is_pushed is *)
(* reset by the update trigger (views/026_is_pushed_trigger.sql).          *)
(***************************************************************************)
EXTENDS Integers, Sequences, FiniteSets, FiniteSetsExt, SequencesExt

CONSTANTS
  Items,       \* rows
  TableOf,     \* [Items -> Tables]
  Parents,     \* [Items -> SUBSET Items], their foreign keys
  Tables,
  Groups,      \* reconcileTableGroups: records [tables, dependsOn]
  Explained,   \* tables whose foreign key errors the server answers with ids
  Repaired,    \* tables that are a parentIsPushedUpdater
  Carried,     \* tables that PushData has a field for
  RunOnlys,    \* tables that runs are restricted to, {} for ReconcileAll
  BatchSize,
  MaxWrites,   \* bound: inserts and updates of rows
  MaxPurges,   \* bound: rows deleted on the upstream
  MaxFaults    \* bound: failed queries and requests, crashes, resets

ASSUME ReconcileAssumption ==
  /\ TableOf \in [Items -> Tables] /\ Parents \in [Items -> SUBSET Items]
  /\ Len(Groups) > 0
  /\ Groups \in Seq([tables : Seq(Tables) \ {<<>>}, dependsOn : SUBSET Tables])
  /\ Explained \union Repaired \union Carried \subseteq Tables
  /\ BatchSize \in Nat \ {0} /\ MaxWrites \in Nat /\ MaxPurges \in Nat /\ MaxFaults \in Nat

VARIABLES
  version,   \* of each row on the agent, 0 when there is none
  pushed,    \* is_pushed
  remote,    \* the version the upstream has, 0 for none
  pc,        \* of the reconciler
  at,        \* the group and the table it is at
  only,      \* runOnly
  summary,   \* ReconcileSummary: "none", "ok" or "bad" for each table
  batch,     \* rows in hand
  read,      \* the versions they were read in
  failed,    \* rows of the batch with a foreign key error
  count,     \* something of this table was pushed
  raced,     \* rows that changed after they were read for the last push
  purged,    \* rows deleted on the upstream since they were pushed
  purges, faults

vars == <<version, pushed, remote, pc, at, only, summary, batch, read, failed, count,
          raced, purged, purges, faults>>
agent == <<version, pushed>>
server == <<remote, purged, purges>>
hand == <<batch, read, failed>>

Init ==
  /\ version = [i \in Items |-> 0]
  /\ pushed = [i \in Items |-> FALSE]
  /\ remote = [i \in Items |-> 0]
  /\ pc = "idle"
  /\ at = <<1, 1>>
  /\ only = {}
  /\ summary = [t \in Tables |-> "none"]
  /\ batch = {} /\ failed = {}
  /\ read = [i \in Items |-> 0]
  /\ count = FALSE
  /\ raced = {} /\ purged = {}
  /\ purges = 0 /\ faults = 0

Fault == faults < MaxFaults /\ faults' = faults + 1
Group == Groups[at[1]]
Table == Group.tables[at[2]]
Children(i) == {j \in Items : i \in Parents[j]}

-----------------------------------------------------------------------------
(* The agent's tables and the upstream's.                                  *)

\* Inserts and updates so far, for the bound.
Writes == MapThenSumSet(LAMBDA i : version[i], Items)

\* Variant: an update leaves is_pushed alone.
WriteUntriggered(i) ==
  /\ Writes < MaxWrites
  /\ \A p \in Parents[i] : version[p] > 0
  /\ version' = [version EXCEPT ![i] = @ + 1]
  /\ raced' = IF i \in batch THEN raced \union {i} ELSE raced
  /\ UNCHANGED <<pushed, server, pc, at, only, summary, hand, count, faults>>

\* A row is inserted or updated; reset_is_pushed_before_update.
Write(i) ==
  /\ Writes < MaxWrites
  /\ \A p \in Parents[i] : version[p] > 0
  /\ version' = [version EXCEPT ![i] = @ + 1]
  /\ pushed' = [pushed EXCEPT ![i] = FALSE]
  /\ raced' = IF i \in batch THEN raced \union {i} ELSE raced
  /\ UNCHANGED <<server, pc, at, only, summary, hand, count, faults>>

\* ResetIsPushed: one statement for each table.
ResetIsPushed(t) ==
  /\ Fault
  /\ \E i \in Items : TableOf[i] = t /\ pushed[i]
  /\ pushed' = [i \in Items |-> TableOf[i] # t /\ pushed[i]]
  /\ UNCHANGED <<version, server, pc, at, only, summary, hand, count, raced>>

\* The upstream deletes a row that nothing refers to.
Purge(i) ==
  /\ purges < MaxPurges /\ purges' = purges + 1
  /\ remote[i] > 0 /\ \A j \in Children(i) : remote[j] = 0
  /\ remote' = [remote EXCEPT ![i] = 0]
  /\ purged' = purged \union {i}
  /\ UNCHANGED <<agent, pc, at, only, summary, hand, count, raced, faults>>

\* handleUpsertError, saveIndividuallyWithRetries: rows go in when their parents are
\* there or go in with them.
Accepted ==
  UNION {s \in SUBSET batch : \A i \in s : \A p \in Parents[i] : remote[p] > 0 \/ p \in s}

\* InsertUpstreamMsg.  Tables that do not report the rows that fail take all or none.
Stored ==
  IF Table \notin Carried THEN {}
  ELSE IF Table \in Explained \/ Accepted = batch THEN Accepted ELSE {}

Insert ==
  /\ remote' = [i \in Items |-> IF i \in Stored THEN read[i] ELSE remote[i]]
  /\ purged' = purged \ Stored
  /\ UNCHANGED purges

-----------------------------------------------------------------------------
(* ReconcileSome                                                           *)

\* DidReconcile
DidReconcile(tables) == \A t \in tables : summary[t] = "ok"

\* Where the loops continue after table n of group g, and after group g.  With the
\* last group the run is over, and what it had in hand is gone.
AfterGroup(g) == <<g + 1, 1>>
AfterTable(g, n) == IF n < Len(Groups[g].tables) THEN <<g, n + 1>> ELSE AfterGroup(g)
Continue(next, stats) ==
  /\ summary' = IF next[1] > Len(Groups) THEN [t \in Tables |-> "none"] ELSE stats
  /\ only' = IF next[1] > Len(Groups) THEN {} ELSE only
  /\ at' = IF next[1] > Len(Groups) THEN <<1, 1>> ELSE next
  /\ pc' = IF next[1] > Len(Groups) THEN "idle" ELSE IF next[2] = 1 THEN "group" ELSE "fetch"
  /\ batch' = {} /\ failed' = {} /\ read' = [i \in Items |-> 0]
  /\ count' = FALSE

StartRun ==
  /\ pc = "idle"
  /\ \E o \in RunOnlys : only' = o
  /\ pc' = "group"
  /\ UNCHANGED <<agent, server, at, summary, hand, count, raced, faults>>

EnterGroup ==
  /\ pc = "group" /\ DidReconcile(Group.dependsOn)
  /\ pc' = "fetch"
  /\ UNCHANGED <<agent, server, at, only, summary, hand, count, raced, faults>>

SkipGroup ==
  /\ pc = "group" /\ ~DidReconcile(Group.dependsOn)
  /\ Continue(AfterGroup(at[1]),
              [t \in Tables |-> IF t \in ToSet(Group.tables) THEN "bad" ELSE summary[t]])
  /\ UNCHANGED <<agent, server, raced, faults>>

\* AddStat: a table with nothing pushed and nothing failed gets no entry.
AddStat(fk) == [summary EXCEPT ![Table] = IF fk THEN "bad" ELSE IF count THEN "ok" ELSE @]

\* reconcileTable returns an error: the rest of the group is skipped.
TableFails ==
  Continue(AfterGroup(at[1]),
           [t \in Tables |-> IF \E n \in at[2] .. Len(Group.tables) : Group.tables[n] = t
                             THEN "bad" ELSE summary[t]])

-----------------------------------------------------------------------------
(* reconcileTable                                                          *)

Wanted == only = {} \/ Table \in only
Unpushed == {i \in Items : TableOf[i] = Table /\ version[i] > 0 /\ ~pushed[i]}

\* runOnly leaves the table out.
PassTable ==
  /\ pc = "fetch" /\ ~Wanted
  /\ Continue(AfterTable(at[1], at[2]), summary)
  /\ UNCHANGED <<agent, server, raced, faults>>

\* GetUnpushed, at most BatchSize of them; rows with a parent in their own table
\* come after it.
Fetch ==
  /\ pc = "fetch" /\ Wanted /\ Unpushed # {}
  /\ \E s \in SUBSET Unpushed :
       /\ s # {} /\ Cardinality(s) <= BatchSize
       /\ s = Unpushed \/ Cardinality(s) = BatchSize
       /\ \A i \in s : Parents[i] \intersect Unpushed \subseteq s
       /\ batch' = s
       /\ raced' = raced \ s
  /\ read' = [i \in Items |-> IF i \in batch' THEN version[i] ELSE 0]
  /\ pc' = "push"
  /\ UNCHANGED <<agent, server, at, only, summary, failed, count, faults>>

FetchNone ==
  /\ pc = "fetch" /\ Wanted /\ Unpushed = {}
  /\ Continue(AfterTable(at[1], at[2]), AddStat(FALSE))
  /\ UNCHANGED <<agent, server, raced, faults>>

FetchFails ==
  /\ pc = "fetch" /\ Wanted /\ Fault
  /\ TableFails
  /\ UNCHANGED <<agent, server, raced>>

\* client.Push, answered with success or with the rows that failed.  A message
\* without rows is not sent.
Push ==
  /\ pc = "push"
  /\ Table \in Carried => Stored # {} \/ Table \in Explained
  /\ Insert
  /\ failed' = IF Table \in Carried THEN batch \ Stored ELSE {}
  /\ pc' = IF failed' = {} THEN "mark" ELSE "repair"
  /\ UNCHANGED <<agent, at, only, summary, batch, read, count, raced, faults>>

\* The server answers with an error that names no rows.
PushRejected ==
  /\ pc = "push"
  /\ Table \in Carried \ Explained /\ Stored = {}
  /\ TableFails
  /\ UNCHANGED <<agent, server, raced, faults>>

\* The request fails, or only its answer is lost.
PushFails ==
  /\ pc = "push" /\ Table \in Carried /\ Fault
  /\ Insert \/ UNCHANGED server
  /\ TableFails
  /\ UNCHANGED <<agent, raced>>

\* Variant: the rows that failed are marked as unpushed, not their parents.
RepairFailed ==
  /\ pc = "repair"
  /\ pushed' = [i \in Items |-> pushed[i] /\ i \notin failed]
  /\ pc' = "mark"
  /\ UNCHANGED <<version, server, at, only, summary, hand, count, raced, faults>>

\* UpdateParentsIsPushed
RepairParents ==
  /\ pc = "repair"
  /\ pushed' = [i \in Items |->
       pushed[i] /\ ~(Table \in Repaired /\ \E j \in failed : i \in Parents[j])]
  /\ pc' = "mark"
  /\ UNCHANGED <<version, server, at, only, summary, hand, count, raced, faults>>

\* Parents in two tables are updated by two statements: the first may have gone through.
RepairFails ==
  /\ pc = "repair" /\ Table \in Repaired /\ Fault
  /\ \E s \in SUBSET (UNION {Parents[j] : j \in failed}) :
       pushed' = [i \in Items |-> pushed[i] /\ i \notin s]
  /\ TableFails
  /\ UNCHANGED <<version, server, raced>>

\* Variant: the rows that failed are marked too.
MarkAll ==
  /\ pc = "mark"
  /\ pushed' = [i \in Items |-> i \in batch \/ pushed[i]]
  /\ \/ /\ failed = {}
        /\ pc' = "fetch" /\ count' = TRUE
        /\ batch' = {} /\ read' = [i \in Items |-> 0]
        /\ UNCHANGED <<at, only, summary, failed>>
     \/ failed # {} /\ Continue(AfterTable(at[1], at[2]), AddStat(TRUE))
  /\ UNCHANGED <<version, server, raced, faults>>

\* UpdateIsPushed; foreign key errors end the table, but are no error.
MarkPushed ==
  /\ pc = "mark"
  /\ pushed' = [i \in Items |-> i \in batch \ failed \/ pushed[i]]
  /\ \/ /\ failed = {}
        /\ pc' = "fetch" /\ count' = TRUE
        /\ batch' = {} /\ read' = [i \in Items |-> 0]
        /\ UNCHANGED <<at, only, summary, failed>>
     \/ failed # {} /\ Continue(AfterTable(at[1], at[2]), AddStat(TRUE))
  /\ UNCHANGED <<version, server, raced, faults>>

\* The chunks before the one that fails stay marked.
MarkFails ==
  /\ pc = "mark" /\ Fault
  /\ \E s \in SUBSET (batch \ failed) :
       pushed' = [i \in Items |-> i \in s \/ pushed[i]]
  /\ TableFails
  /\ UNCHANGED <<version, server, raced>>

\* The agent dies between two steps.
Crash ==
  /\ pc # "idle" /\ Fault
  /\ Continue(AfterGroup(Len(Groups)), summary)
  /\ UNCHANGED <<agent, server, raced>>

-----------------------------------------------------------------------------
Step ==
  \/ StartRun \/ EnterGroup \/ SkipGroup \/ PassTable \/ Fetch \/ FetchNone
  \/ Push \/ PushRejected \/ RepairParents \/ MarkPushed

Next ==
  \/ Step
  \/ FetchFails \/ PushFails \/ RepairFails \/ MarkFails \/ Crash
  \/ \E i \in Items : Write(i) \/ Purge(i)
  \/ \E t \in Tables : ResetIsPushed(t)

Spec == Init /\ [][Next]_vars

\* Its steps return, and a run of ReconcileAll comes round again and again.
FairSpec == Spec /\ WF_vars(Step) /\ SF_vars(StartRun /\ only' = {})

-----------------------------------------------------------------------------
(* Properties.                                                             *)

\* The types of the variables: the run is always at a group and a table that exist.
TypeOK ==
  /\ version \in [Items -> Nat] /\ read \in [Items -> Nat] /\ remote \in [Items -> Nat]
  /\ pushed \in [Items -> BOOLEAN] /\ count \in BOOLEAN
  /\ pc \in {"idle", "group", "fetch", "push", "repair", "mark"}
  /\ at \in Nat \X Nat /\ at[1] \in DOMAIN Groups /\ at[2] \in DOMAIN Group.tables
  /\ only \in RunOnlys \union {{}}
  /\ summary \in [Tables -> {"none", "ok", "bad"}]
  /\ failed \subseteq batch /\ batch \subseteq Items
  /\ raced \union purged \subseteq Items
  /\ purges \in 0 .. MaxPurges /\ faults \in 0 .. MaxFaults

\* Rows that PushData has a field for; the others are marked without being sent.
Sent == {i \in Items : TableOf[i] \in Carried}

\* What reconcileTable knows of the rows in hand: they exist and are of its table, in
\* the version it read unless they raced, and after the push, but for those that
\* failed, the upstream has got that version.
HandOK ==
  /\ pc \notin {"repair", "mark"} => failed = {}
  /\ pc \in {"push", "repair", "mark"} =>
       \A i \in batch : /\ TableOf[i] = Table /\ read[i] > 0
                        /\ read[i] = version[i] \/ i \in raced
  /\ pc \in {"repair", "mark"} =>
       \A i \in (batch \ failed) \intersect Sent : remote[i] = read[i] \/ i \in purged

\* reconcileTable: what is marked as pushed got to the upstream, through failed
\* requests, lost answers, foreign key errors, crashes and partial batches.
Present == \A i \in Sent : pushed[i] => remote[i] > 0 \/ i \in purged

\* Present with what it rests on, the types and the rows in hand.
MarkedArePresent == TypeOK /\ HandOK /\ Present

\* Only a row that changes between GetUnpushed and UpdateIsPushed can be marked in a
\* version the upstream does not have.
OnlyRacedAreStale ==
  \A i \in Sent : pushed[i] => remote[i] = version[i] \/ i \in purged \/ i \in raced

\* The groups and tables of reconcileTableGroups that nothing holds up for ever: the
\* groups depend on no other, and in tables with parents, up to this one, foreign key
\* errors are reported by the server and repaired by the agent.
NotHeldUp(t) ==
  \E g \in DOMAIN Groups : \E n \in DOMAIN Groups[g].tables :
    /\ Groups[g].dependsOn = {} /\ Groups[g].tables[n] = t
    /\ \A i \in Items, m \in 1 .. n :
         TableOf[i] = Groups[g].tables[m] => Parents[i] = {} \/ TableOf[i] \in Explained \intersect Repaired

\* UpdateParentsIsPushed, ReconcileSome: a row that is not marked gets to the upstream
\* in some later run, also when its parents, marked long ago, have disappeared there.
UnpushedArrive ==
  \A i \in Items : NotHeldUp(TableOf[i]) =>
    (version[i] > 0 /\ ~pushed[i] ~> remote[i] > 0 \/ (pushed[i] /\ i \in purged))
=============================================================================
