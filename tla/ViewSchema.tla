----------------------------- MODULE ViewSchema -----------------------------
(***************************************************************************)
(* The table of one view (view/db.go): every replica brings its columns    *)
(* and the policy that guards it in line with the view, again and again.   *)
(* The statements of two replicas interleave; its rows are in ViewRows.    *)
(***************************************************************************)
EXTENDS Integers, Sequences

CONSTANTS
  Replicas,    \* processes of one installation
  Specs,       \* columns that the view may define, sequences of names with types
  MaxFaults    \* bound: failing statements, crashes, changes of the view and the release

\* applyViewTableSchema refuses a view without columns of its primary key.
ViewSchemaAssumption == << >> \notin Specs

VARIABLES
  spec,      \* the columns of the view
  table,     \* the generated table: its columns, << >> without a table, RLS and its policy
  want,      \* ~ DisableRLS of the release that runs
  procs,     \* what each replica does
  broken,    \* ghost: one failed after the last that succeeded had begun
  faults

vars == <<spec, table, want, procs, broken, faults>>

NoTable == [columns |-> << >>, rls |-> FALSE, policy |-> FALSE]
Idle == [pc |-> "idle", seen |-> << >>, desired |-> << >>, rls |-> FALSE, sure |-> TRUE]

Init ==
  /\ spec \in Specs
  /\ table = NoTable
  /\ want \in BOOLEAN
  /\ procs = [p \in Replicas |-> Idle]
  /\ broken = TRUE
  /\ faults = 0

Exists == table # NoTable
Fault == faults < MaxFaults /\ faults' = faults + 1
To(p, pc) == procs' = [procs EXCEPT ![p].pc = pc]
At(p, pc) == procs[p].pc = pc

\* The replica is done; ghost: after a failure no other one at work can be sure any more.
Done(p) == procs' = [procs EXCEPT ![p] = Idle] /\ broken' = (broken /\ ~ procs[p].sure)
Fails(p) ==
  /\ procs' = [q \in Replicas |-> IF q = p THEN Idle ELSE [procs[q] EXCEPT !.sure = FALSE]]
  /\ broken' = TRUE

-----------------------------------------------------------------------------
(* applyViewTableSchema                                                    *)

\* GetViewColumnDefs, InspectSchema
Inspect(p) ==
  /\ At(p, "idle")
  /\ procs' = [procs EXCEPT ![p] = [pc |-> "apply", seen |-> table.columns, desired |-> spec,
                                     rls |-> FALSE, sure |-> TRUE]]
  /\ UNCHANGED <<spec, table, want, broken, faults>>

\* The table is new, or altered: which fails when it is not what was inspected any more.
ApplyChanges(p) ==
  /\ At(p, "apply")
  /\ IF procs[p].seen = procs[p].desired THEN To(p, "check") /\ UNCHANGED table
     ELSE IF table.columns = procs[p].seen
     THEN To(p, "check") /\ table' = [table EXCEPT !.columns = procs[p].desired]
     ELSE To(p, "drop") /\ UNCHANGED table
  /\ UNCHANGED <<spec, want, broken, faults>>

\* An incompatible change, such as another primary key.
ApplyFails(p) ==
  /\ At(p, "apply") /\ procs[p].seen # procs[p].desired /\ Fault
  /\ To(p, "drop")
  /\ UNCHANGED <<spec, table, want, broken>>

\* The table is inspected again: without one there is nothing to be recreated.
DropTable(p) ==
  /\ At(p, "drop")
  /\ table' = NoTable
  /\ IF Exists THEN To(p, "create") /\ UNCHANGED broken ELSE Fails(p)
  /\ UNCHANGED <<spec, want, faults>>

CreateTable(p) ==
  /\ At(p, "create")
  /\ IF Exists THEN Fails(p) /\ UNCHANGED table
     ELSE /\ table' = [NoTable EXCEPT !.columns = procs[p].desired]
          /\ To(p, "check") /\ UNCHANGED broken
  /\ UNCHANGED <<spec, want, faults>>

-----------------------------------------------------------------------------
(* ensureViewRLSPolicy                                                     *)

CheckRLS(p) ==
  /\ At(p, "check")
  /\ procs' = [procs EXCEPT ![p].pc = "policy", ![p].rls = table.rls]
  /\ UNCHANGED <<spec, table, want, broken, faults>>

Checked(p, inLine) ==
  /\ At(p, "policy")
  /\ IF inLine THEN Done(p)
     ELSE /\ To(p, IF want THEN IF procs[p].rls THEN "drop policy" ELSE "enable"
               ELSE IF table.policy THEN "drop policy" ELSE "disable")
          /\ UNCHANGED broken
  /\ UNCHANGED <<spec, table, want, faults>>

\* Variant: a table with RLS is taken to have its policy.
CheckRLSOnly(p) == Checked(p, procs[p].rls = want)

\* The two queries see two states of the table.
CheckPolicy(p) == Checked(p, procs[p].rls = want /\ table.policy = want)

\* A statement on the table, which fails without one.
Alter(p, changed, next) ==
  IF ~ Exists THEN Fails(p) /\ UNCHANGED table
  ELSE table' = changed /\ IF next = "done" THEN Done(p) ELSE To(p, next) /\ UNCHANGED broken

EnableRLS(p) ==
  /\ At(p, "enable") /\ Alter(p, [table EXCEPT !.rls = TRUE], "drop policy")
  /\ UNCHANGED <<spec, want, faults>>

DisableRLS(p) ==
  /\ At(p, "disable") /\ Alter(p, [table EXCEPT !.rls = FALSE], "done")
  /\ UNCHANGED <<spec, want, faults>>

DropPolicy(p) ==
  /\ At(p, "drop policy")
  /\ Alter(p, [table EXCEPT !.policy = FALSE],
           IF want THEN "create policy" ELSE IF procs[p].rls THEN "disable" ELSE "done")
  /\ UNCHANGED <<spec, want, faults>>

\* The policy may have been created by another replica since it was dropped.
CreatePolicy(p) ==
  /\ At(p, "create policy")
  /\ IF table.policy THEN Fails(p) /\ UNCHANGED table ELSE Alter(p, [table EXCEPT !.policy = TRUE], "done")
  /\ UNCHANGED <<spec, want, faults>>

-----------------------------------------------------------------------------

\* A statement fails or the process ends.
Abort(p) ==
  /\ ~ At(p, "idle") /\ Fault /\ Fails(p)
  /\ UNCHANGED <<spec, table, want>>

ChangeView ==
  /\ Fault
  /\ \E s \in Specs \ {spec} : spec' = s
  /\ UNCHANGED <<table, want, procs, broken>>

\* Another release, with RLS switched on or off.
Deploy ==
  /\ Fault
  /\ want' = ~ want
  /\ procs' = [p \in Replicas |-> Idle]
  /\ broken' = TRUE
  /\ UNCHANGED <<spec, table>>

Sync(p) ==
  \/ Inspect(p) \/ ApplyChanges(p) \/ ApplyFails(p) \/ DropTable(p) \/ CreateTable(p)
  \/ CheckRLS(p) \/ CheckPolicy(p) \/ EnableRLS(p) \/ DisableRLS(p) \/ DropPolicy(p) \/ CreatePolicy(p)

Next ==
  \/ \E p \in Replicas : Sync(p) \/ Abort(p)
  \/ ChangeView
  \/ Deploy

Spec == Init /\ [][Next]_vars

-----------------------------------------------------------------------------
(* Properties.                                                             *)

\* ensureViewRLSPolicy: when a replica has brought the table in line, none has failed since
\* it began and none is at work, its row level security is what the release asks for,
\* whatever the replicas did to each other's policies and tables on the way.
SyncedAsWanted ==
  ~ broken /\ (\A p \in Replicas : At(p, "idle")) => Exists /\ table.rls = want /\ table.policy = want
=============================================================================
