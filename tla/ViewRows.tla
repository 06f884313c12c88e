------------------------------ MODULE ViewRows ------------------------------
(***************************************************************************)
(* The rows of one generated view table.  A refresh replaces those of its  *)
(* request fingerprint (InsertViewRows, view/db.go); the agent's           *)
(* reconciler pushes them to the upstream, if that has the view with the   *)
(* same columns (upstream/views.go); and a replica that brings the table   *)
(* in line with the view may recreate it, empty (ViewSchema).              *)
(***************************************************************************)
EXTENDS Integers, Sequences, SequencesExt

CONSTANTS
  Refreshers,    \* requests for the view, which refresh it
  Keys,          \* values of the columns that the view declares as its primary key
  Prints,        \* request fingerprints, which PrimaryKey adds to them
  Values,        \* of the other columns
  Specs,         \* columns that the view may define, sequences of names with types
  MaxRefreshes,  \* bound: refreshes, changes of the view
  MaxFaults      \* bound: failing statements, lost answers, recreated tables

Places == Keys \X Prints
None == "none"

\* None stands for no row.
ViewRowsAssumption == None \notin Values

NoRow == [value |-> None, pushed |-> FALSE]
NoRows == [c \in Places |-> NoRow]

VARIABLES
  spec,      \* the columns of the view, here and on the upstream
  rows,      \* of the generated table, committed
  procs,     \* the refreshes under way
  latest,    \* ghost: what the last refresh of each fingerprint was to show, if it was alone
  remote,    \* the rows of the upstream's table
  listed,    \* the cached answer of ListViews
  push,      \* the reconciler
  changed,   \* ghost: rows that changed after they were read to be pushed
  refreshes, faults

vars == <<spec, rows, procs, latest, remote, listed, push, changed, refreshes, faults>>

Idle == [pc |-> "idle", print |-> None, staged |-> << >>, writes |-> {}, alone |-> TRUE]
NoPush == [pc |-> "idle", columns |-> << >>, batch |-> {}]
NothingShown == [f \in Prints |-> [alone |-> TRUE, rows |-> {}]]

Init ==
  /\ spec \in [here : Specs, upstream : Specs]
  /\ rows = NoRows
  /\ procs = [p \in Refreshers |-> Idle]
  /\ latest = NothingShown
  /\ remote = [c \in Places |-> None]
  /\ listed = << >>
  /\ push = NoPush
  /\ changed = {}
  /\ refreshes = 0 /\ faults = 0

Fault == faults < MaxFaults /\ faults' = faults + 1
Refresh == refreshes < MaxRefreshes /\ refreshes' = refreshes + 1
Goes(p, pc, writes) == procs' = [procs EXCEPT ![p].pc = pc, ![p].writes = writes]
At(p, pc) == procs[p].pc = pc
InBatch == {b[1] : b \in push.batch}

-----------------------------------------------------------------------------
(* InsertViewRows                                                          *)

InTransaction == {p \in Refreshers : ~ At(p, "idle")}
Overlapping(p) == {q \in InTransaction \ {p} : procs[q].print = procs[p].print}

\* The rows go to a temporary table first, in batches.
Stage(p) ==
  /\ At(p, "idle") /\ Refresh
  /\ \E f \in Prints, keys \in SUBSET Keys : \E values \in [keys -> Values] :
       procs' = [procs EXCEPT ![p] = [pc |-> "upsert", print |-> f, staged |-> values, writes |-> {},
                                      alone |-> \A q \in InTransaction : procs[q].print # f]]
  /\ UNCHANGED <<spec, rows, latest, remote, listed, push, changed, faults>>

\* Rows that other transactions have written, and hold until they end.
Locked(p) == UNION {procs[q].writes : q \in InTransaction \ {p}}
Written(p) == {<<k, procs[p].print>> : k \in DOMAIN procs[p].staged}

\* INSERT ... ON CONFLICT DO UPDATE; nothing when there are no rows, then all is stale.
Upsert(p) ==
  /\ At(p, "upsert") /\ Written(p) \intersect Locked(p) = {}
  /\ Goes(p, "delete", Written(p))
  /\ UNCHANGED <<spec, rows, latest, remote, listed, push, changed, refreshes, faults>>

\* Variant: the fingerprint is not in the WHERE of the DELETE.
StaleOfAll(p) == {c \in Places : rows[c] # NoRow} \ Written(p)

\* The committed rows of its fingerprint that are not staged.
Stale(p) == {c \in Places : rows[c] # NoRow /\ c[2] = procs[p].print} \ Written(p)

DeleteStale(p) ==
  /\ At(p, "delete") /\ Stale(p) \intersect Locked(p) = {}
  /\ Goes(p, "commit", Written(p) \union Stale(p))
  /\ UNCHANGED <<spec, rows, latest, remote, listed, push, changed, refreshes, faults>>

\* A row that is updated stays marked as pushed.
Commit(p) ==
  /\ At(p, "commit")
  /\ rows' = [c \in Places |->
                IF c \in Written(p) THEN [rows[c] EXCEPT !.value = procs[p].staged[c[1]]]
                ELSE IF c \in procs[p].writes THEN NoRow ELSE rows[c]]
  /\ changed' = changed \union
       {c \in Places : rows'[c].value # rows[c].value /\ (rows[c] # NoRow \/ c \in InBatch)}
  /\ procs' = [q \in Refreshers |->
                 IF q = p THEN Idle
                 ELSE [procs[q] EXCEPT !.alone = @ /\ q \notin Overlapping(p)]]
  /\ latest' = [latest EXCEPT ![procs[p].print] =
                  [alone |-> procs[p].alone /\ Overlapping(p) = {},
                   rows |-> {<<k, procs[p].staged[k]>> : k \in DOMAIN procs[p].staged}]]
  /\ UNCHANGED <<spec, remote, listed, push, refreshes, faults>>

\* A statement fails, or the database breaks a deadlock: the transaction is rolled back.
Abort(p) ==
  /\ ~ At(p, "idle") /\ Fault
  /\ procs' = [procs EXCEPT ![p] = Idle]
  /\ UNCHANGED <<spec, rows, latest, remote, listed, push, changed, refreshes>>

\* DropTable and CreateTable of ViewSchema, which wait for the transactions on the table.
Recreate ==
  /\ Fault /\ InTransaction = {} /\ rows # NoRows
  /\ rows' = NoRows
  /\ latest' = NothingShown
  /\ changed' = changed \union InBatch
  /\ UNCHANGED <<spec, procs, remote, listed, push, refreshes>>

\* ReadViewTable
Read(f) == {<<k, rows[<<k, f>>].value>> : k \in {j \in Keys : rows[<<j, f>>] # NoRow}}

-----------------------------------------------------------------------------
(* reconcileTableGroupsWithGeneratedViews and reconcileTable               *)

\* The view is changed, here or there.
ChangeView ==
  /\ Refresh
  /\ \E s \in [here : Specs, upstream : Specs] : s # spec /\ spec' = s
  /\ UNCHANGED <<rows, procs, latest, remote, listed, push, changed, faults>>

\* ListViews: asked again when the cached answer has expired.
ListViews ==
  /\ push.pc = "idle"
  /\ listed' = IF listed = << >> THEN spec.upstream ELSE listed
  /\ push' = [NoPush EXCEPT !.pc = "match"]
  /\ UNCHANGED <<spec, rows, procs, latest, remote, changed, refreshes, faults>>

ListExpires ==
  /\ listed # << >> /\ push.pc = "idle"
  /\ listed' = << >>
  /\ UNCHANGED <<spec, rows, procs, latest, remote, push, changed, refreshes, faults>>

\* columnsMatch indexes the upstream's columns by the local ones: with fewer of them it
\* panics, which ends the run; further ones are not looked at.
ColumnsMatch(local, upstream) == Len(local) <= Len(upstream) /\ IsPrefix(local, upstream)

MatchColumns ==
  /\ push.pc = "match"
  /\ push' = IF ColumnsMatch(spec.here, listed)
             THEN [NoPush EXCEPT !.pc = "fetch", !.columns = spec.here] ELSE NoPush
  /\ UNCHANGED <<spec, rows, procs, latest, remote, listed, changed, refreshes, faults>>

\* GetUnpushed
Unpushed == {c \in Places : rows[c] # NoRow /\ ~ rows[c].pushed}
Fetch ==
  /\ push.pc = "fetch"
  /\ push' = IF Unpushed = {} THEN NoPush
             ELSE [push EXCEPT !.pc = "push", !.batch = {<<c, rows[c].value>> : c \in Unpushed}]
  /\ changed' = changed \ Unpushed
  /\ UNCHANGED <<spec, rows, procs, latest, remote, listed, refreshes, faults>>

\* upsertViewData: one INSERT of all, for which the upstream's table must have the columns.
KnownColumns == ToSet(push.columns) \subseteq ToSet(spec.upstream)
Accepted == KnownColumns /\ \A c \in InBatch : remote[c] = None
Stored == [c \in Places |-> IF c \in InBatch THEN CHOOSE v \in Values : <<c, v>> \in push.batch ELSE remote[c]]

Push(answered) ==
  /\ push.pc = "push"
  /\ IF answered THEN UNCHANGED faults ELSE Fault
  /\ remote' = IF Accepted THEN Stored ELSE remote
  /\ push' = IF ~ Accepted THEN [push EXCEPT !.pc = "refused"]
             ELSE IF answered THEN [push EXCEPT !.pc = "mark"] ELSE NoPush
  /\ UNCHANGED <<spec, rows, procs, latest, listed, changed, refreshes>>

\* The error ends the run of this table; the next run tries again.
Refused ==
  /\ push.pc = "refused"
  /\ push' = NoPush
  /\ UNCHANGED <<spec, rows, procs, latest, remote, listed, changed, refreshes, faults>>

Marked(keys) ==
  /\ push.pc = "mark" /\ \A p \in InTransaction : keys \intersect procs[p].writes = {}
  /\ rows' = [c \in Places |-> IF c \in keys /\ rows[c] # NoRow THEN [rows[c] EXCEPT !.pushed = TRUE]
                                ELSE rows[c]]
  /\ push' = [push EXCEPT !.pc = "fetch", !.batch = {}]
  /\ UNCHANGED <<spec, procs, latest, remote, listed, changed, refreshes, faults>>

\* Variant: the WHERE of UpdateIsPushed leaves out the fingerprint.
MarkByKey == Marked({c \in Places : \E b \in InBatch : b[1] = c[1]})

\* UpdateIsPushed, by primary key
Mark == Marked(InBatch)

Next ==
  \/ \E p \in Refreshers : Stage(p) \/ Upsert(p) \/ DeleteStale(p) \/ Commit(p) \/ Abort(p)
  \/ Recreate \/ ChangeView
  \/ ListViews \/ ListExpires \/ MatchColumns \/ Fetch \/ (\E answered \in BOOLEAN : Push(answered)) \/ Refused \/ Mark

Spec == Init /\ [][Next]_vars

-----------------------------------------------------------------------------
(* Properties.                                                             *)

\* InsertViewRows and ReadViewTable: a request reads the rows of the last refresh with its
\* fingerprint, whatever refreshes of others do, unless two of its own overlapped.
RefreshedIsRead == \A f \in Prints : latest[f].alone => Read(f) = latest[f].rows

\* reconcileTable over a generated table: a row marked as pushed is on the upstream, as it
\* was when it was read unless it changed since, though refreshes run in between.
PushedAreThere ==
  \A c \in Places :
    rows[c].pushed => remote[c] # None /\ (remote[c] = rows[c].value \/ c \in changed)

\* "upsertViewData handles upserting records": what is pushed again is taken again, if the
\* upstream has its columns.
PushedAgainIsTaken == push.pc = "refused" => ~ KnownColumns
=============================================================================
