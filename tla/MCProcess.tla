------------------------------ MODULE MCProcess ------------------------------
(***************************************************************************)
(* What goes on inside the processes of a release, next to their work: the *)
(* migration of the database, the hooks of a shutdown, and the values that *)
(* are kept in memory, properties, policies, clients and credential files. *)
(* Each behaviour is one of one of them, chosen at the start; the others   *)
(* stay as they are.                                                       *)
(***************************************************************************)
EXTENDS PropertyCache, Enforcer, TLC

CONSTANTS
  Order, DependsOn, Drops, Always, Skip, MaxAborts,   \* Migrate
  Hooks, Priority, Nil, Exits, Exiting,               \* Shutdown
  Namespaces, Conns, Requests, ClientExpiry, Buffer, ReadTTL, MaxTokens,   \* KubeClients
  Runs, URL, Branch, Uses                             \* ShellRuns

VARIABLES
  about,
  content, applied, log, behind, lost, migrating, todo, aborts,                  \* Migrate
  shutdownTasks, added, once, calling, tasks, ran, exited,                       \* Shutdown
  source, read, clients, auth, requests, used, rotated,                          \* KubeClients
  step, at, lock, tree, transport, commit, files, login                          \* ShellRuns

migration == <<content, applied, log, behind, lost, migrating, todo, aborts>>
exit == <<shutdownTasks, added, once, calling, tasks, ran, exited>>
tokens == <<source, read, clients, auth, requests, used, rotated>>
shell == <<step, at, lock, tree, transport, commit, files, login>>

Migration == INSTANCE Migrate WITH MaxFaults <- MaxAborts, pc <- migrating, faults <- aborts
Exit == INSTANCE Shutdown WITH Callers <- Exits, pc <- calling
Kube == INSTANCE KubeClients WITH Expiry <- ClientExpiry, got <- used
Shell == INSTANCE ShellRuns WITH pc <- step

ASSUME ProcessAssumption ==
  /\ Migration!MigrateAssumption /\ Exit!ShutdownAssumption
  /\ Kube!KubeClientsAssumption /\ Shell!ShellRunsAssumption
ASSUME PropertyCacheAssumption /\ EnforcerAssumption

(***************************************************************************)
(* The values that the run gives to the constants.                         *)
(***************************************************************************)
\* A part of the scripts of functions/ and views/, with the dependencies they declare.
MCOrder == <<"drop", "006_config_views", "014_config_item_by_type", "037_notification_group_resources">>
MCDependsOn ==
  "drop" :> {} @@ "006_config_views" :> {"drop"} @@ "014_config_item_by_type" :> {"006_config_views"}
    @@ "037_notification_group_resources" :> {}
\* DROP VIEW configs CASCADE, in both, and that the views of 014 are made of configs.
MCDrops ==
  "drop" :> {"006_config_views", "014_config_item_by_type"} @@ "006_config_views" :> {"014_config_item_by_type"}
    @@ "014_config_item_by_type" :> {} @@ "037_notification_group_resources" :> {}

\* The hook of the leader election, the two of the debug handlers, one without a
\* function and the database.
MCPriority == "lease" :> 0 @@ "gops" :> 499 @@ "crons" :> 499 @@ "nil" :> 500 @@ "postgres" :> 1000

\* Two objects with properties of their own.
MCName == "scraper" :> "default/a" @@ "topology" :> "default/b"

\* Two runs that share a repository, and one without a checkout.
MCURL == "main" :> "u" @@ "feature" :> "u" @@ "local" :> ""
MCBranch == "main" :> "main" @@ "feature" :> "x" @@ "local" :> ""
MCUses == "main" :> {"kubernetes", "gcp"} @@ "feature" :> {"aws", "azure"} @@ "local" :> {"aws"}

ProcessInit ==
  /\ about \in {"migration", "exit", "properties", "policies", "tokens", "shell"}
  /\ Migration!Init /\ Exit!Init /\ Init /\ Kube!Init
  /\ PolicyInit /\ (about # "policies" => groups = {})
  /\ Shell!Init /\ (about # "shell" => \A u \in DOMAIN tree : tree[u] = "")

ProcessNext ==
  \/ about = "migration" /\ Migration!Next /\ UNCHANGED <<about, exit, vars, policyVars, tokens, shell>>
  \/ about = "exit" /\ Exit!Next /\ UNCHANGED <<about, migration, vars, policyVars, tokens, shell>>
  \/ about = "properties" /\ Next /\ UNCHANGED <<about, migration, exit, policyVars, tokens, shell>>
  \/ about = "policies" /\ PolicyNext /\ UNCHANGED <<about, migration, exit, vars, tokens, shell>>
  \/ about = "tokens" /\ Kube!Next /\ UNCHANGED <<about, migration, exit, vars, policyVars, shell>>
  \/ about = "shell" /\ Shell!Next /\ UNCHANGED <<about, migration, exit, vars, policyVars, tokens>>

ProcessSpec == ProcessInit /\ [][ProcessNext]_<<about, migration, exit, vars, policyVars, tokens, shell>>

Symmetry == Permutations(Replicas) \union Permutations(Callers) \union Permutations(Namespaces)

\* RunMigrations: what is logged has been run; whoever has migrated finds its release's
\* scripts run; and after migrations that nothing broke off no script is older than what it
\* depends on, and what a script drops of its dependents is there again, but for scripts
\* that lose it to one that they do not depend on or that runs because of another.
MigratedAreCurrent ==
  /\ Migration!TypeOK
  /\ Migration!LoggedAreApplied /\ Migration!MigratedAreCurrent
  /\ Migration!DependentsRebuilt /\ Migration!DroppedAreRecreated
\* ShutdownAndExit: nobody exits before the hooks have run, in their order.
HooksRunFirst == Exit!TypeOK /\ Exit!HooksRunFirst /\ Exit!RunInOrder
\* context.Kubernetes: whose token a request is sent with, and how old it may be.
TokensAreOwnAndRecent == Kube!TokensAreOwnAndRecent
\* shell.Run: runs do not get into each other's checkouts and credentials.
ShellRunsApart == Shell!ReportsOwnCommit /\ Shell!CredentialsFollowRuns
=============================================================================
