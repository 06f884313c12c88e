------------------------------ MODULE MCServer ------------------------------
(***************************************************************************)
(* Handlers that have nothing in common but the database: the upstream's   *)
(* push and delete handlers, the schema and the rows of a view's table,    *)
(* and playbook runs.  Each behaviour is one of one of them, chosen at the *)
(* start; the others stay as they are.                                     *)
(***************************************************************************)
EXTENDS Naturals, TLC

CONSTANTS
  Requests, Names, TableOf, ParentsOf, Pushes, SaveRetries, Retention,
  MaxAgents, MaxCalls,                                                 \* UpstreamServer
  Replicas, Columns, MaxMishaps,                                       \* ViewSchema
  Refreshers, Keys, Prints, Values, MaxRefreshes, MaxFailures,         \* ViewRows
  Runs, Parent, Notified, Fallback, MaxActions, MaxFaults              \* Playbooks

VARIABLES
  about,
  agents, cache, stored, reqs, rings, added, evicted, requested,       \* UpstreamServer
  spec, table, want, procs, broken, mishaps,                           \* ViewSchema
  columns, rows, refreshing, latest, remote, listed, push, changed, refreshes, failures,  \* ViewRows
  runs, actions, ends, sends, missed, faults                           \* Playbooks

server == <<agents, cache, stored, reqs, rings, added, evicted, requested>>
schema == <<spec, table, want, procs, broken, mishaps>>
tableRows == <<columns, rows, refreshing, latest, remote, listed, push, changed, refreshes, failures>>
playbooks == <<runs, actions, ends, sends, missed, faults>>

Server == INSTANCE UpstreamServer WITH calls <- requested
Schema == INSTANCE ViewSchema WITH Specs <- Columns, MaxFaults <- MaxMishaps, faults <- mishaps
Rows == INSTANCE ViewRows WITH
  Specs <- Columns, MaxFaults <- MaxFailures, spec <- columns, procs <- refreshing, faults <- failures
Book == INSTANCE Playbooks WITH calls <- ends

ASSUME ServerAssumption ==
  /\ Server!UpstreamServerAssumption /\ Schema!ViewSchemaAssumption
  /\ Rows!ViewRowsAssumption /\ Book!PlaybooksAssumption

(***************************************************************************)
(* The values that the runs give to the constants.                         *)
(***************************************************************************)
MCComponents == ("c1" :> "components" @@ "c2" :> "components")
MCTableOf ==
  MCComponents @@ ("local agent config" :> "config_items" @@ "i1" :> "config_items" @@ "x1" :> "config_changes"
    @@ "h1" :> "job_history" @@ "h2" :> "job_history" @@ "h3" :> "job_history"
    @@ "v1" :> "generated_views" @@ "u1" :> "playbook_run_actions" @@ "k1" :> "checks" @@ "s1" :> "checks_unlogged")
MCParentsOf ==
  [r \in DOMAIN MCTableOf |-> CASE r = "c1" -> {"c2"} [] r = "x1" -> {"i1"} [] r = "s1" -> {"k1"} [] OTHER -> {}]
Of(name, method, msg) == [name |-> name, method |-> method, msg |-> msg]
MCPushes ==
  {Of("a1", "push", {"c1", "c2", "local agent config", "i1"}), Of("a1", "push", {"x1", "h1", "h2"}),
   Of("a1", "push", {"h3"}), Of("a1", "delete", {"i1"}), Of("a2", "push", {"v1", "u1"}),
   Of("a2", "push", {"s1"}), Of("a2", "delete", {"v1"})}

MCColumns == {<<"a">>, <<"a", "b">>}
\* A parent with two children, one of which has no actions.
MCParent == "parent" :> "none" @@ "child" :> "parent" @@ "other" :> "parent"
MCMaxActions == "parent" :> 1 @@ "child" :> 1 @@ "other" :> 0

IdleColumns == CHOOSE s \in Columns : TRUE
Init ==
  /\ about \in {"server", "schema", "rows", "playbooks"}
  /\ Server!Init /\ Book!Init
  /\ Schema!Init /\ (about # "schema" => spec = IdleColumns /\ want)
  /\ Rows!Init /\ (about # "rows" => columns = [here |-> IdleColumns, upstream |-> IdleColumns])

Next ==
  \/ about = "server" /\ Server!Next /\ UNCHANGED <<about, schema, tableRows, playbooks>>
  \/ about = "schema" /\ Schema!Next /\ UNCHANGED <<about, server, tableRows, playbooks>>
  \/ about = "rows" /\ Rows!Next /\ UNCHANGED <<about, server, schema, playbooks>>
  \/ about = "playbooks" /\ Book!Next /\ UNCHANGED <<about, server, schema, tableRows>>

Spec == Init /\ [][Next]_<<about, server, schema, tableRows, playbooks>>

Symmetry == Permutations(Requests) \union Permutations(Replicas) \union Permutations(Refreshers)

\* NewPushHandler: what an answer promises is stored, for an agent of that name.
AnsweredAreStored == Server!AnsweredAreStored
\* StatusRing.Add, for agents: histories are evicted when as many newer ones are kept.
EvictedAreOld == Server!EvictedAreOld
\* ensureViewRLSPolicy: RLS and its policy are as the release asks once nobody failed since.
SyncedAsWanted == Schema!SyncedAsWanted
\* InsertViewRows: a fingerprint reads the rows of its last refresh.
RefreshedIsRead == Rows!RefreshedIsRead
\* UpdateIsPushed: a row marked as pushed is on the upstream, as it was read.
PushedAreThere == Rows!PushedAreThere
\* ResumeChildrenWaitingAction: the last child to end resumes the action that waits.
LastChildResumes == Book!LastChildResumes
\* endWithStatus: a notification whose run did not succeed falls back.
FailedFallBack == Book!FailedFallBack
\* upsertViewData: "handles upserting records", what is pushed again is taken again.
PushedAgainIsTaken == Rows!PushedAgainIsTaken
=============================================================================
