# A TLA+ model of duty

duty is the library the Mission Control services are built on: a PostgreSQL
schema with its triggers and views, and the Go code that keeps work moving
through it (an event queue, jobs with their history, agents that replicate rows
to an upstream server, migrations, properties, leader election and shutdown), and
that answers questions about it (selectors and searches, trees, permissions,
connections, logs).  This directory models the parts that keep state and are shared
by several goroutines, processes or hosts, as state machines, and the algorithms
with rules of their own, as operators.  TLC checks the models on small
instances; TLAPS proves for every instance what matters most about the event queue, the
notifications, job runs, reconciliation, leader election, caches, migrations, clients and
shell runs, and about views and playbooks.  `PROJECT.json` lists the runs, what each definition stands for in the
source, the hazards the properties are aimed at, and the findings.

To check a run: `tlc -config X.cfg MCModule`; to check the proofs: `tlapm M.tla` for
each module `M` whose name ends in `Proofs`.

## 1. Inventory

| Component | State it keeps | Operations | Hard behaviour | What makes it correct |
|---|---|---|---|---|
| Event queue (`postq/`, `models/event_queue.go`, triggers of `views/007_events.sql` and `views/006_config_views.sql`) | table `event_queue`: attempts, last attempt, delay, priority; open transactions | upsert by triggers; `fetchEvents`; `SyncEventConsumer.Handle`; `AsyncEventConsumer.Handle`; `Events.Recreate` | several consumers in several processes; handlers that fail; a failure recorded after the rollback; crashes; rows with NULL `event_id` | no event is handled twice at a time; none is lost; every one is handled or given up; retries are counted and spaced |
| Notifications of the queue (`postq/pg/`, `postq/pg_consumer.go`) | LISTEN connection, route registry, Go channels | `Listen`, `getOrCreateChannel`, `consume`, `PGConsumer.Listen` | squashed signals, slow consumers, a lost connection | no wake-up is lost while the connection holds; polling covers the rest |
| Job runs (`job/job.go`, `job/singleton.go`, `models/job_history.go`) | singleton locks, semaphores, `JobHistory`, rows of `job_history` | `Run` and its deferred steps, `CleanupStaleRunningHistory` | two Job objects with one ID; contexts that end; crashes | singletons exclude each other; nothing leaks; runs end; a status tells the truth |
| Job history retention (`job/job.go`, `job/cleanup.go`) | status rings, channel of evicted ids, rows | `init`, `populateFromDB`, `Add`, `deleteEvictedJobs`, clean-up jobs | bounded channel; failing deletes; restarts; unsynchronised init | the newest rows stay, the others go |
| Upstream reconciliation (`upstream/`, `views/026_is_pushed_trigger.sql`, `GetUnpushed` and friends in `models/`) | rows with `is_pushed` on the agent, rows on the server, the run's summary | `ReconcileSome`, `reconcileTable`, `InsertUpstreamMsg`, the trigger, `ResetIsPushed` | rows that change during a push; partial foreign key failures; lost answers; groups that depend on each other | what is marked is there; what is not marked gets there |
| Migrations (`migrate/`) | `migration_logs`, the scripts' effects | `GetExecutableScripts`, `runScripts` | replicas that migrate at once; death between a script and its log; scripts that drop what others created | a migrated replica has its release's scripts; dependents are rebuilt, and so is what was dropped |
| Properties (`context/properties.go`) | table `properties`, global cache, chain cache | `Properties`, `globalProperties`, `UpdateProperties`, `ClearCache`, lookups | stale caches, failed queries, colliding keys | bounded staleness; a process sees its updates; precedence |
| Leader election (`leader/election.go`, `echo/debug.go`) | lease, pod labels, crons | client-go's callbacks, `updateLeaderLabel`, the retry loop | callbacks of an old term that still run; API failures | one scheduler; a leader schedules; leadership comes back |
| Shutdown (`shutdown/`) | registered hooks | `AddHook`, `Shutdown`, `ShutdownAndExit` | concurrent callers | hooks run once, in order, before anyone exits |
| Upstream server (`upstream/controllers.go`, `commands.go`, `agent_status_ring.go`) | agents and their cache, tables, status rings of agents | `AgentAuthMiddleware`, push and delete handlers, `StatusRing.Add` | no transaction over a push; cached agents that are deleted; foreign keys; requests at once | what an answer promises is stored, for that agent; only old histories go |
| Views (`view/db.go`, `upstream/views.go`, `models/view.go`) | a table per view, its row level security, fingerprints, `is_pushed` | create, alter and drop; `InsertViewRows`; the push of its rows | replicas at once, each from its own reading of the catalog; refreshes that overlap with a push | security as the release asks; a request reads its own rows; what is marked is there |
| Playbooks and notifications (`models/playbooks.go`, `models/notifications.go`) | runs, actions, send history | state transitions, `endWithStatus`, `ResumeChildrenWaitingAction`, `GenerateFallbackAttempt` | children that end at once; cancellation; a crash between statements | a waiting parent is resumed; a failed notification falls back |
| Selectors and search (`query/grammar/`, `query/models.go`, `query/resource_selector.go`, `types/resource_selector*.go`, `pkg/kube/labels/`, `relationship_selector.go`) | none | parse, print, match in memory, make SQL | three readings of one selector | they agree, and nothing is widened |
| Config and component trees (`query/config_tree.go`, `query/topology.go`) | none (caches left out) | `ConfigTree`, `MergeConfigTrees`, `Topology` | many edges to an item, orphans, cycles | everything once, below its parent, with the worst health below it |
| Catalog search and aggregation (`query/catalog_search.go`, `config_changes.go`, `aggregation.go`) | none | `Validate`, `FindCatalogChanges`, `Aggregate` | lenient requests, NULLs, casts | invalid filters change nothing else; groups add up |
| RBAC and row level security (`rbac/`, `rls/`, `models/permission.go`) | policy, cached answers | `Check`, `Enforce`, reload, reviews, fingerprints | several replicas with several caches; conditions built as text | grants follow resources; answers are recent; reviews agree |
| Connections, secrets and environment variables (`connection/`, `context/connection.go`, `context/envvar.go`, `types/envvar.go`) | none (caches left out) | hydration of each type | inline against stored, namespaces | what is inline wins, and resolves in its own namespace |
| Kubernetes clients (`context/kuberetes_client.go`, `pkg/kube/auth/`) | clients, credentials and reads, each with an expiry | `Kubernetes`, `Refresh`, `getCreds`, `maybeRefreshCreds` | tokens replaced elsewhere, requests under way | a token is its namespace's and recent |
| Shell (`shell/`, `connection/environment.go`) | checkouts, credential files, logins | `Run` and its steps; interpreters, runtimes, PATH | runs that share a checkout; failures after files were written | runs stay apart; a script gets the runtime that was set up |
| Logs (`logs/`) | maps of labels that lines share | mapping, parsing, grouping | aliased labels | groups add up, no field is lost |
| Everything else | see `components` in `PROJECT.json` | | I/O, formatting, generated code | not modelled, with the reason |

How they interact.  Triggers insert into `event_queue` and notify; the router
wakes consumers, whose handlers (outside this repository) do the work.  Jobs are
started by crons, which the leader starts and the shutdown hooks stop; jobs write
history rows, which the reconciler, itself a job, replicates with everything else
to the upstream.  All of them read properties through the caches.  Migrations run
at start-up, before anything else.  Selectors are the language in which views, playbooks,
permissions and searches say what they are about.

## 2. Modules

Each stateful component has one module with its state, one action per operation or step,
its properties and, next to a definition, the variant of it that a mutant
uses (its comment begins with "Variant").  The modules without variables define
the functions of the code and, in their last section, what is to hold of them.
`MC*` modules give the constants values for TLC; `MCServer`, `MCProcess` and `MCService`
check components that share nothing but a database or a process side by side: a
behaviour is one of one of them.  The components of `MCService`, and two of `MCProcess`, are
extended rather than instantiated, so that their properties are the ones the theorems
state; `Leadership` and `Enforcer` have names of their own for that (`ElectionInit`,
`PolicyTick`).  The constants of `MCProcess` and `MCServer` are their
components' own; `Process.cfg` and `Server.cfg` give them their values, and `ProcessProofs` and
`ServerProofs` prove their theorems for any others that satisfy `ProcessAssumption` and
`ServerAssumption`.

| Module | Models | State | Actions |
|---|---|---|---|
| `EventQueue` | the queue and its consumers | `queue` (rows), `older` (order of `created_at`), `held` (rows deleted by an open transaction), `pc`, `ran`, `retry`, `failed` | `Enqueue` (trigger upsert, which waits for a row lock), `Wake` (`PGConsumer.Listen`), `SyncFetch`/`AsyncFetch` (`fetchEvents`), `HandlerSucceeds`, `HandlerFails`, `SyncCommit`, `SyncCommitFails`, `SaveAttempt`, `SaveAttemptFails` (`SyncEventConsumer.Handle`), `HandlerReturns`, `AsyncCommit`, `AsyncConflict`, `AsyncCommitFails` (`AsyncEventConsumer.Handle` with `Recreate`), `HandleError` (`ConsumeUntilEmpty`), `FetchFails`, `Crash`, `Tick` |
| `WorkQueue` | what a queue promises, abstractly | `asked`, `due`, `claimed`, `handled` | `Ask`, `Claim`, `Handle`, `Finish` |
| `EventQueueProofs` | theorems about `EventQueue` | | |
| `NotifyRouter` | notifications on their way to consumers | `wire`, `conn`, `registry`, `buffer`, `senders`, `chan`, `pending` | `Subscribe`, `Connect`, `LoseConnection`, `Reconnect`, `Dispatch`, `Send`, `Insert`, `Receive`, `Timeout`, `Consume`, `Return`, `Tick` |
| `JobRun` | `Job.Run` | `job` (of each run), `pc`, `running` (singleton locks), `used`/`got` (semaphores), `hist`, `row`, `cancelled` | `Begin`, `NotRun`, `Start`, `TryLock`, `SkipRunning`, `Acquire`, `SkipCrowded`, `CallFn`, `TimeoutFires`, `Stop`, `FnAddsError`, `FnAddsSuccess`, `FnReturns`, `FnAborts`, `Release`, `Unlock`, `End`, `CleanupStaleRunning`, `Crash` |
| `JobRunProofs` | theorems about `JobRun` | | |
| `JobHistory` | the status ring | `rings`, `evicted` (channel), `batch`, `db`, `initialized`, `todo` | `Begin`, `NewRing`, `ReadRows`, `ReadFails`, `Populate`, `Initialized`, `Start`, `End`, `AddEnded`, `TakeBatch`, `DeleteBatch`, `DeleteFails`, `CleanupStaleRunning`, `CleanupStale`, `Crash` |
| `JobHistoryProofs` | the theorem about `JobHistory` | | |
| `Reconcile` | agent and upstream | `version`, `pushed`, `remote`, `at`, `summary`, `batch`, `read`, `failed` | `Write` (any update, with the trigger), `StartRun`, `EnterGroup`, `SkipGroup`, `PassTable`, `Fetch`, `FetchNone`, `Push`, `PushRejected`, `RepairParents`, `MarkPushed`, their failures, `ResetIsPushed`, `Purge`, `Crash` |
| `ReconcileProofs` | theorems about `Reconcile` | | |
| `Migrate` | migrations of several replicas | `content` (of the release), `applied`, `log`, `behind`, `lost` (scripts whose objects were dropped), `todo` | `Release`, `ReadLogs`, `Exec`, `SaveLog`, `Finish`, `Abort` |
| `PropertyCache` | the two caches | `db`, `global`, `chains`, `outdated`, callers | `HitGlobal`, `QueryRows`, `QueryFails`, `SetGlobal`, `Resolve`, `Return`, `Update`, `UpdateFails`, `ClearCache`, `UpdateElsewhere`, `Tick` |
| `PropertyLookup` | precedence | none: operators on a hierarchy `[cli, rows, chain]` | `GetProperty` and `WithPrefix`, compared with `Precedence` |
| `Leadership` | election callbacks and crons | `lease`, `elector`, `starting` (one callback per term), `labels`, `crons`, `down` | `Acquire`, `GiveUp`, `RenewFails`, `Release`, `Expire`, `OnStoppedLeading`, `ListLabelled`, `Patch`, `LabelFails`, `StartCrons`, `Cancel`, `StopCrons`, `Exit`, `Crash` |
| `Shutdown` | hooks | `added`, `tasks`, callers | `AddHook`, `Call`, `TakeTasks`, `RunHook`, `Done`, `Waited`, `Return` |
| `ServiceProofs` | theorems about `NotifyRouter` and `Leadership` | | |
| `UpstreamServer` | requests of agents at an upstream | `agents`, `cache`, `stored`, `reqs`, `rings`, `added`, `evicted` | `Call`, `Handle` (one statement of a request), `DeleteAgent`, `Expire`, `Evict`, `Restart` |
| `ViewSchema` | a view's table in several replicas | `spec`, `table`, `want`, `procs` | `Sync` (one statement), `Abort`, `ChangeView`, `Deploy` |
| `ViewRows` | its rows | `rows`, `procs`, `latest`, `remote`, `push` | `Stage`, `Upsert`, `DeleteStale`, `Commit`, `Abort`, `Recreate`, `ChangeView`, `ListViews`, `ListExpires`, `MatchColumns`, `Fetch`, `Push`, `Refused`, `Mark` |
| `Playbooks` | runs with their parents and notifications | `runs`, `actions`, `calls` (what each caller has still to write), `sends` | `StartAction`, `Start`, `WaitForChildren`, `Finish`, `Delay`, `FailRun`, `End` and the statements of their callers |
| `ServerProofs` | theorems about `ViewSchema`, `ViewRows`, `Playbooks` and `UpstreamServer` | | |
| `Enforcer` | policy and answers of several replicas | `groups`, `policy`, `loaded`, `cached`, `now` | `Check`, `ChangeRole`, `ReloadPolicy`, `AutoLoadPolicy`, `Tick` |
| `CacheProofs` | theorems about `PropertyCache` and `Enforcer` | | |
| `KubeClients` | credentials in three caches | `source`, `read`, `clients`, `auth`, `requests` | `NewKubernetesClient`, `Kubernetes`, `Send`, `Answered`, `Unauthorized`, `Replace`, `Evict`, `Tick` |
| `ShellRuns` | scripts that run at once | `pc`, `lock`, `tree`, `transport`, `files`, `login` | `TryLock`, `ConfigureTransport`, `Clone`, `Fetch`, `Checkout`, `ReadHead`, `Install`, `SetupConnection`, `Start`, `RunCmd`, their failures |
| `ProcessProofs` | theorems about `Migrate`, `Shutdown`, `KubeClients` and `ShellRuns` | | |
| `QueryGrammar` | the search grammar and the PEG engine | none | `ParsePEG` |
| `LabelSelectors` | `pkg/kube/labels` | none | `Parse`, `String`, `SelectorMatches`, `Merge` |
| `ResourceSelectors` | selectors in memory and as text | none | `ToPeg`, `Canonical`, `Matched` |
| `QueryModels` | selectors as SQL | none | `Apply`, `SelectorClause`, `Found` |
| `Lookups` | selectors from templates | none | `Eval`, `Hydrate`, `RelatedQuery` |
| `ConfigTrees`, `ComponentTrees` | trees | none | `ConfigTree`, `MergeConfigTrees`, `Topology` |
| `AccessControl` | permissions, reviews, fingerprints | none | `Enforce`, `RunSubjectAccessReview`, `RunSubjectAccessSearch`, `EvalFingerprint` |
| `Connections` | references and connection types | none | `HydrateConnection`, one `Hydrate...` or `Populate...` per type, `RoundTrip` |
| `LogLines` | log lines | none | `MapFields`, `ParseMessage`, `GroupLogs`, `ToLogResult` |
| `ShellCommands` | the command of a script | none | `Run` |
| `CatalogSearch`, `Aggregation` | searches of changes, aggregates | none | `Validate`, `Find`, `Aggregate` |
| `MCAlgorithms` | the pure functions side by side | `about`, `input` | `Pick`, `Take`, `Grow`: a behaviour is one input of one function |

Abstractions worth knowing:

* `EventQueue` models the rows of one watch list; other names are other rows.
  Time is relative: a row keeps how long ago it was created and last attempted,
  capped where no comparison can tell values apart.  A claimed row stays in
  `queue` and is locked until its transaction ends, as in PostgreSQL.
  Handlers are external: they succeed or fail.
* `JobRun.End` ends with the ring's `Add`, which is `JobHistory.AddEnded`;
  `JobRun` leaves it out, as it only delays the run.
* `Reconcile` knows a row by its version and its foreign keys.  `Explained`,
  `Repaired` and `Carried` are the tables for which the server reports row ids,
  the agent implements `UpdateParentsIsPushed`, and `PushData` has a field; the
  instance follows the code's tables: a component under another one, a check with its
  unlogged runtime, and the group of `check_component_relationships`, which depends on
  both and which `PushData` has no field for: its rows are marked without being sent, so
  the properties are about the rows that are (`Sent`).
  `UnpushedArrive` is stated for rows that nothing of this holds up (`NotHeldUp`).
* `JobHistory` begins its runs one at a time until the first has initialised the
  rings (`Concurrent = FALSE`); see the observations below for what happens otherwise.  The rows of
  some runs only, `Old`, grow old enough for the clean-up queries.
* `Migrate` leaves out `schema.Apply` (Atlas), which runs between the functions and the
  views and has no state the selection of scripts depends on.  The scripts
  of the instance and their dependencies are real ones.  `MigrateAssumption` says that a
  script comes after those it depends on.  Nothing in the code checks that: scripts run in the
  order of their names, and the repository's are numbered so.
  What a script drops is a constant, `Drops`: the objects of other scripts, with those that CASCADE
  takes along.  In the repository `functions/drop.sql` drops what 006, 021 and 038 create, 006 drops the
  view `configs`, and the view of 014 goes with it in both cases; the instance has the scripts
  `drop`, 006 and 014, and one that always runs.
* `JobRun` has functions that return, add errors or hang; a panic in `Fn` (`job/job.go:412`) is not modelled.
* `ShellRuns` has one order in which a run sets up its connections, and `Empty` for no URL and
  no branch.
* `Leadership` assumes crons registered before `Register`.  client-go is
  external: a lease is held by one replica until it is released or expires.
* `PropertyLookup` assumes that CLI values are not empty strings.
* Texts of the search grammar and of selectors are sequences of symbols, where a word of
  letters is one symbol; the PEG engine is the generated parser's, with its rules as data.
* `QueryModels` evaluates the SQL it makes over a row in three-valued logic; `Comparable`
  and the conditions of `FoundAreMatched` name where memory and SQL read a selector differently.
  An agent has a name and an id: SQL maps the one to the other (`AgentMapper`), memory compares a
  selector's text with the id, which is empty for the local agent (`InMemory`).
* In `AccessControl` a scope is the set of its parts and whether it denies.
* The modules of handlers (`UpstreamServer`, `ViewSchema`, `ViewRows`, `Playbooks`) take one
  SQL statement, or one transaction, as a step.
* In `UpstreamServer` a message is a set of rows, which a table's loop and the status ring take
  in any order.  Rows have UUIDs their agents made: agents of two names push no row in common
  (`UpstreamServerAssumption`).
* `KubeClients` counts ages in ticks; `got` is only what the last step used, for the property.
* `MCServer`, `MCProcess` and `MCService` set the idle components to one initial state.  In
  `MCService` the fairness of a component is that of its actions while the behaviour is about
  it, so an idle component neither moves nor violates it.

## 3. Runs

| Run | Module, configuration | Question |
|---|---|---|
| `queue` | `MCEventQueue`, `EventQueue.cfg` | Does a mix of consumers implement `WorkQueue`, exclude each other and never forget a failure?  Every event may be enqueued twice; one fault. |
| `queue_settles` | `MCEventQueue`, `EventQueueLive.cfg` | Is the proofs' invariant true in a table with a NULL `event_id`, delays and two handlers, and is every event handled or given up? |
| `job_runs` | `MCJobRun`, `JobRun.cfg` | Locks, permits and status of two runs of any of three jobs; do runs end and rows settle? |
| `job_timeout` | `MCJobRun`, `JobRunTimeout.cfg` | Does `Job.Timeout` stop a function that honours its context?  It does not: a finding. |
| `job_history` | `JobHistory`, `JobHistory.cfg` | Does retention keep the newest rows, is every other row on its way out, does a full channel only delay? |
| `reconcile` | `MCReconcile`, `Reconcile.cfg` | Is what is marked there, can only raced rows be stale, does what is unpushed arrive? |
| `server` | `MCServer`, `Server.cfg` | Two requests of agents, two replicas at a view's table, two refreshes and a push, three playbook runs: do answers hold, are security and rows as asked for, do parents resume and notifications fall back? |
| `view_repush` | `MCServer`, `ViewRepush.cfg` | Are rows of a view that are pushed again taken again?  They are not: a finding. |
| `process` | `MCProcess`, `Process.cfg` | Is a migrated database current; do hooks run before anyone exits; how old may a property, an answer about a role or a token be; do shell runs stay apart? |
| `service` | `MCService`, `Service.cfg` | Are wake-ups kept while the connection holds, and does polling get every event consumed; is there one scheduler, and again and again one? |
| `kube_rotation` | `KubeClients`, `KubeRotation.cfg` | Does a refused token get replaced?  It does not while the client has not expired: a finding. |
| `algorithms` | `MCAlgorithms`, `Algorithms.cfg` | Every pure function on every input of its family, against a reference definition or another way to the same answer. |

Each property of a passing run is broken by a mutant of the code (`mutants`).

### Observations

Where the code and a comment or a document differ, the properties state what the
code does; the difference is often the very reason for a condition in a property.

* `job/job.go:447`: `Fn` gets the runtime made before the timeout's context (`job_timeout`).
* `upstream/views.go:82`: rows of views are inserted, not upserted (`view_repush`).
* `context/kuberetes_client.go:92`: a refresh forced by a 401 returns what has not expired (`kube_rotation`).
* `migrate/migrate.go:138` and `:164`: only the direct dependents of a changed script are selected,
  while `views/006_config_views.sql:3` says that its drops "make sure all functions and views are always
  recreated".  When `functions/drop.sql` alone has changed, it and 006 run, each drops `configs`
  with CASCADE, and the view of 014 is gone while 014 stays logged as applied.  `DroppedAreRecreated`
  (a part of `MigratedAreCurrent`) is about all others: what a script drops of its direct dependents,
  unless it runs as a dependent itself; `Exposed` names the scripts it leaves out, in the instance of
  `process` that of 014, which TLC finds lost without a fault (`lost = {}` fails there).
* `types/resource_selector.go:686`: the memory compares the text of `Agent` with an agent's id, while the
  database turns a name into the id first (`query/models.go:35`), so `agent=<name>`, which
  `types/resource_selector.go:45` allows, finds rows that `Matches` refuses; in memory an item of the local
  agent has no id at all.  `Comparable` therefore leaves agents to their ids, other than the local one's, and to `all`.
* `rls/payload.go:98`: a fingerprint does not say of which resource a scope is, and a scope that only
  denies counts as empty, so payloads that differ in these share one, under which
  `query/resource_selector.go:531` caches answers per user.  `FingerprintFollowsScopes` (a part of
  `GrantsFollowResources`) says what is left: any order of scopes has one fingerprint, and payloads that
  differ in the scopes of exactly one resource have two.
* `postq/event.go:38`: `attempts <= MaxAttempts` allows one attempt more than line 14 says.
* `postq/sync_consumer.go:103`: handlers do not get the transaction that line 73
  speaks of; what an earlier handler wrote stays when a later one fails.
* `models/event_queue.go:57`: the asynchronous path never sets `last_attempt`, so a
  failed event is due again without a back-off.
* `postq/async_consumer.go:74`: two failed rows with NULL `event_id` in one batch
  violate the unique constraint as `uuid.Nil`; the batch is rolled back and retried
  for ever.  `EventsSettle` is about events with an id.
* `postq/pg/notify.go:32`: the maximum duration of the back-off counts from the call
  of `Listen`, so a connection lost later than that is not re-established.
  `NoLostWakeup` is about live connections, and `EventsConsumed` rests on polling.
* `models/job_history.go:175`: `AddError` formats the history, which ends it and
  fixes its status; successes counted afterwards do not change it to WARNING.
* `job/job.go:520`: `initialized` is not synchronised; two first runs at once fill the
  ring twice and evict rows within the retention.
* `job/job.go:196`: `Retention.Failed` is kept for each unsuccessful status, not for
  all of them together (line 223).
* `upstream/jobs.go:354`: a row that changes between the fetch and the mark stays
  marked with an old version upstream; `OnlyRacedAreStale` states this exception exactly.
* `upstream/jobs.go:146`: a group is skipped while a table it depends on has nothing to
  push, since no entry counts as not reconciled.
* `upstream/commands.go:250`: foreign key errors of `checks_unlogged` carry no ids, so
  their parents are not pushed again.
* `upstream/upstream.go:110`: `CheckComponentRelationship` has no case in `NewPushData`;
  its rows are marked and not sent.
* `migrate/migrate.go:324`: after a crash between a script and its dependents the
  dependents are not selected; `DependentsRebuilt` (a part of `MigratedAreCurrent` in `MCProcess`) is about undisturbed migrations.
* `context/properties.go:304`: a cached chain contains a global map that may be a TTL
  old already, hence two TTLs in `OutdatedForTwoTTLs`.
* `context/properties.go:245`: the empty map of a failed query is not cached as global
  but is cached in the chain built from it.
* `context/properties.go:292`: objects of two kinds with one namespace and name share a
  cache key; `OwnAnnotations` (a part of `OwnUpdatesSeen`) assumes distinct names.
* `context/properties.go:205`: `WithPrefix` on a context with annotated objects does not
  see what only the table sets, because only the root has the global map.
* `leader/election.go:106`: the callback of a term that is over may still start crons, beside those of the
  next leader; `OneScheduler` leaves out the replicas this happened to (`late`).
* `leader/election.go:184`: the label patches of an old term can land after those of
  the new one and leave two pods labelled.

Upstream server and views:

* `upstream/commands.go:186`: a push is not one transaction.  What was upserted before an
  error stays, and `AnsweredAreStored` is about requests that were answered with success.
* `upstream/commands.go:129` and `:135`: errors of deleting components and config items are only logged.
* `upstream/controllers.go:97`: the push handler adds the agent's fields, the delete handler does not.
* `upstream/controllers.go:52`: an agent that was deleted stays in the cache until it expires.
* `upstream/agent_status_ring.go:27`: a history that is pushed twice is in its ring twice and
  evicts a row within the retention; rings start empty after a restart.
* `upstream/views.go:104`: `columnsMatch` indexes the upstream's columns, of which there may be fewer.
* `view/db.go:527`: the upsert of a row does not reset `is_pushed`; `PushedAreThere` is about
  the presence of rows, not about their content.

Playbooks and notifications:

* `models/playbooks.go:576`: `Fail` updates neither the parent nor the notification, unlike the other ends.
* `models/playbooks.go:912`: ending an action schedules its run again, a cancelled one too.
* `models/playbooks.go:483` and `:502`: a run that starts to wait for its children after
  they have all ended is not resumed; `LastChildResumes` is about runs that waited before.
* `models/playbooks.go:425`: an action that failed and was then tried again with success
  leaves a failed row, and the run ends as failed.
* `models/playbooks.go:855`: `Skip` returns no error when its update fails.
* `models/notifications.go:287`: custom services of a fallback are taken over only if the
  notification has custom services of its own.

Selectors and search:

* `types/resource_selector.go:217`: the hash of a selector leaves out its limit.
* Text after a complete query is ignored by the grammar, and `%q` writes escapes that its strings do not know.
* `x=1,2` and `x=1.5` are read as measures; a `|` combines with "and".
* A selector that is only a wildcard matches everything in SQL and nothing in memory.
* A selector `k!=v` or `k notin (v)` holds of a map without `k` in memory; in SQL the comparison is NULL.
* Plain and prefix values of one field are combined with "and" in SQL, with "or" in memory.
* `agent=<name>` finds the agent's rows in SQL and matches none in memory; the id of the local agent
  finds its rows in SQL, while in memory its id is the empty text.
* `types/resource_selector.go:46`: the special agent "self" is not implemented; it is taken for a name.
* `FoundRowsMatch` and `SelectorsSurviveText` name these as conditions, each at its definition.

Trees, searches and aggregates:

* `query/config_tree.go`: the result of `MergeConfigTrees` depends on the order of the trees.
* `query/topology.go:445`: checks are taken from a component before its health is computed from them.
* `views/006_config_views.sql:736`: the outgoing branch tests `incoming_relation = 'soft'`.
* `query/config_changes.go:334`: pages overlap when the order has ties; `query/aggregation.go:75`:
  a limit without an order takes any groups.
* `query/aggregation.go`: an empty selector counts deleted rows too.

Permissions, connections and clients:

* `rls/payload.go:29`: a scope that has nothing but `Deny` counts as empty, so a fingerprint leaves it
  out, while the claims have it.
* `rbac/enforcer.go:175`: a check writes the role `everyone` for its subject.
* `rbac/enforcer.go:113`: a reload of the policy by time does not clear cached answers; `AnswersAreRecent`
  has the sum of both periods as its bound.
* `context/connection.go:113`: a connection that was not found is cached for five minutes.
* `connection/http.go:445`: an inline bearer token loses against stored basic authentication.
* `connection/http.go:448`: the round tripper sends the printed form of OAuth's client id and
  secret, the client at 490 their values.
* `relationship_selector.go:115`: that an empty scope is the requester's is not implemented.
* `context/kuberetes_client.go:92`: see `kube_rotation`; the hash of a connection by name
  leaves out the namespace it is looked up in.

Shell and logs:

* `shell/shell.go:334`: the comment says that the first of two equal variables counts; `os/exec` takes the last.
* Checkouts are keyed by URL and not by branch, and unlocked before the command starts:
  `ShellRunsApart` is about the commit a run reports, not about the files its command reads.
* `logs/loki/types.go:44`: lines of a stream share one map of labels, from which
  `logs/logs.go:174` deletes the common labels of a group; lines in other groups lose them too.

### Bounds

Every bound is a constant in the guards of the action it bounds: `MaxEnqueues` (per
event), `MaxInserts`, `MaxLosses`, `MaxCounts`, `MaxWrites`, `MaxVersion`,
`MaxPurges`, `MaxTerms`, `MaxDepth`, `MaxCalls`, `MaxAgents`, `MaxRefreshes`, `MaxTokens`,
`MaxTime`, `MaxChanges`, `MaxActions`, `MaxDuration`, `MaxSelector`, `MaxSearch` and `MaxFaults` (in total).  They are chosen so that the cases happen: two enqueues of an event let a
request arrive while an older one is being handled; `MaxAttempts = 1` lets an
event be tried, retried and given up; two or three consumers, runs or replicas
are what the races need, as each relates two parties (and a third job competes
for semaphores); one or two faults break any single step, and a second one the recovery; a channel
of two is full after two evictions; two requests, replicas, refreshers or callers are
the parties of each race in `MCServer` and `MCProcess`, and a parent with two children and a
notification is the least that shows the races of playbooks; two versions of a row, a script or a property
make one of them stale; two terms let a callback of the first run in the second.
Faults include the ambiguous ones: a commit that reports an error may have
happened, a push may have taken effect when its answer is lost.
Events, requests, replicas, refreshers, callers and namespaces are model values that
no action tells apart, and the safety runs over them use that symmetry.

The families of inputs of `algorithms`: every text of up to four symbols as a label selector, or
after the start of a set or of another requirement, and of up to three as a search, which reaches every rule of the grammars together with the
longer ones that are listed; selectors of one or two parts, since parts are combined by "and";
catalogs of four items with two relationships, and a cycle; forests of four
components with their relationships; one permission and two rules, against every object and
action; one connection, inline or stored, of each type; entries of one field and another;
two log lines or streams; two rows of a table; a request with up to two filters.

Deadlock is checked in the runs of `EventQueue` and `Reconcile`, which never stop.  In
the others a bounded set of runs, releases, terms, inputs or callers comes to its end.

### Fairness

* `EventQueue`: time passes, consumers wake up (`Listen` has a timeout), statements
  complete and handlers return; nothing obliges producers, faults or crashes.
  `SaveAttempt` is strongly fair: the UPDATE queues for the row's lock, and
  `SKIP LOCKED` passes over a row someone waits for.
* `NotifyRouter`: goroutines are scheduled, the database accepts connections again,
  consumers start and their timeouts fire.
* `JobRun`: every step of `Run` is weakly fair; `Acquire` strongly, because
  `semaphore.Weighted` serves waiters in order.  `FnReturns` is fair only in
  `FairSpec`; `HangingSpec` is for functions that stop only when their context
  is done.  The clean-up job runs again and again.
* `JobHistory`: a blocked channel send is served in order (`AddEnded`, `Populate` strongly fair).
* `Reconcile`: the steps of a run return, and `ReconcileAll` comes round again and
  again (strongly fair, as a run of chosen tables may take its turn).
* `MCServer`, `MCProcess` and `MCAlgorithms` check safety only and assume no fairness.
* `Leadership`: requests are answered, goroutines run, leases that are not renewed expire.

## 4. Proofs

Every theorem below is proved for all values of the constants that satisfy the named
assumption of its module: any number of rows, consumers, runs, replicas, subscribers or
callers, and any attempts, delays, expiries and bounds.  TLC evaluates the assumptions
in the runs, and checks most inductive invariants on the runs' instances as part of the
property they serve: `NoLostWakeup`, for example, is `WakeupsKept` with what it rests on.  The
strengthenings in `ProcessProofs` and `ServerProofs` are in those modules only.  Each proof has one lemma per action or family of actions and, under it,
one step per conjunct that the action can disturb.

| Module | Theorem | States |
|---|---|---|
| `EventQueueProofs` | `Invariance`, `TypeCorrect` | `[]IndInv`, `[]TypeOK` |
| | `Exclusive` | `[]NoConcurrentHandling` |
| | `NotForgotten` | `AttemptsNotForgotten`, an action property, if `LegacyIds = {}` |
| | `Implements` | `ImplementsWorkQueue`, the refinement of `WorkQueue`, if `LegacyIds = {}` |
| `JobRunProofs` | `Exclusive` | `[]SingletonsExclusive` |
| | `AccountedFor` | `[]RunsAccountedFor` |
| `ReconcileProofs` | `MarkedReached` | `[]MarkedArePresent` |
| | `StaleRaced` | `[]OnlyRacedAreStale` |
| `JobHistoryProofs` | `ExactRetention` | `[]RetentionIsExact`, if `~Concurrent` |
| `ServiceProofs` | `Awakened` | `[]NoLostWakeup` of `NotifyRouter` |
| | `OneRuns` | `[]OneScheduler` of `Leadership` |
| `CacheProofs` | `NeverOlder` | `[]OutdatedForTwoTTLs` of `PropertyCache` |
| | `UpdatesSeen` | `[]OwnUpdatesSeen` |
| | `RevokedInTime` | `[]AnswersAreRecent` of `Enforcer` |
| `ProcessProofs` | `Migrated` | `[]MigratedAreCurrent` of `Migrate` |
| | `HooksRun` | `[]HooksRunFirst` of `Shutdown` |
| | `TokensRecent` | `[]TokensAreOwnAndRecent` of `KubeClients` |
| | `ShellApartness` | `[]ShellRunsApart` of `ShellRuns` |
| `ServerProofs` | `TableSynced` | `[]SyncedAsWanted` of `ViewSchema` |
| | `Refreshed` | `[]RefreshedIsRead` of `ViewRows` |
| | `PushedReached` | `[]PushedAreThere` of `ViewRows` |
| | `LastResumes` | `[]LastChildResumes` of `Playbooks` |
| | `FallenBack` | `[]FailedFallBack` of `Playbooks` |
| | `Stored` | `[]AnsweredAreStored` of `UpstreamServer` |
| | `EvictedOld` | `[]EvictedAreOld` of `UpstreamServer` |

**The event queue.**  `NoConcurrentHandling` is about events, while locks are about rows,
and `Recreate` makes new rows for old events.  It is therefore not inductive.  `IndInv`
adds `HoldInv`, that open transactions hold disjoint sets of committed rows and do so
only where `Handle` is between its fetch and its commit, and `UniqueEvents`, that
a non-null `event_id` has one row.  `Recreate` keeps the latter because the
constraint is checked against rivals outside the batch and within it, the upsert because it
inserts only when there is no row.  Disjointness follows from
`SKIP LOCKED`: `Eligible` leaves out what is locked.

The refinement maps a row to its event: `due` are the events of the table, `claimed` those of
the rows a consumer holds, `handled` those of its rows that were handled, and `asked` counts
enqueues.  Each
concrete step is shown to be one abstract step (`AskStep`, `ClaimStep`, `HandleStep`,
`FinishStep`) or to leave the mapped state alone (`Invisible`): a fetch claims, a rollback,
a crash or a failing commit finishes without being done, `Recreate` finishes with the event still due.
That an event can be claimed only when nobody else has it is `UniqueEvents` with `HoldInv`.
`NotForgotten` needs to know which row carries an event's count across a step: the
same row, a fresh one that `Recreate` made with a count at least as high, or the
`retry` of a consumer that has rolled back and is about to save it (`Counts`, `CountsFrom`).

Both are stated for tables without NULL `event_id`s.  A row without an event has no identity that
survives `Recreate`, so nothing in the mapped state can follow it, and two of them are
the same abstract event.  The triggers write no such rows; those that older releases left are
in the run `queue_settles`, and `Invariance` and `Exclusive` hold with them.

**Job runs.**  `RunsAccountedFor` contains its own induction: `NothingLeaked` (permits in use
are those of the runs that hold them), `LocksFollowRuns` (a locked id has one run that will
unlock it) and `SuccessIsEarned` (a row or a history says SUCCESS only when the run is over and
had no error).  `SingletonsExclusive` follows from `LocksFollowRuns`.
A semaphore counts what the runs hold together; the proof takes that count as the
cardinality of a finite set of holders (`Held`, `FiniteSetTheorems`).

**Retention.**  `RetainedAreKept` compares cardinalities, and a ring may hold ids of histories
that were never written, which count as long as their runs do.  `Slots` says what a ring
stands for: there is an injection from its slots to the runs that ended in its status
and of which nothing was given up (`Kept`), which maps a slot to the run whose id is in it, and a slot
without an id to a run without a row.  When a full ring moves on, what it has given up and the
history that was added make a one-to-one map from the `Count` slots that are left (`AddedSlots`), and
`Enough` keeps that map for good: either nothing was given up of a status, or as many runs as are to be kept are
there, in whatever places (`AddedEnough`).  With it goes `PlacedOnce`: an id is in one ring, on its way into one
(`todo`) or on its way to its deletion, once, so that no row that a ring stands for is deleted for
another slot's sake.  That holds only if nobody fills the rings a second time: `InitAlone`, that
who initialises the job is alone until it is done, which is the hypothesis `~Concurrent`.  The code does not
enforce it (`job/job.go:520`); with two first runs at once both fill the ring.
`RowsTracked` follows the rows through the same places.

**Reconciliation.**  `Present` is not inductive: the mark is made several steps after the
push.  `HandOK` says what a run knows in between: rows in hand are those read, in that
version unless they raced, and after the push those that did not fail are on the upstream.  This is what a
retry, a repair of parents or a crash must not lose between requests.

**Leader election.**  `CronsFollowLease` says that who leads holds the lease, and crons that
are not late belong to someone who leads or is stopping.  One lease then gives one
scheduler.

**Notifications.**  `WakeupsKept` is inductive together with `Registered`: a signal that is
dropped because a buffer is full leaves one in the same channel, and that channel is the
one which all consumers of the route read.  The assumption that groups of routes are equal
or disjoint is the one the comment in `postq/pg/router.go` makes of callers.

**Caches.**  `EntriesAge` bounds the age of what is in each cache by the entry it is
in, which is what makes the two TTLs of `RowsExpire` add up; `CacheFollowsUpdates`
and `ChainsByName` are the reasons for `LatestIsSeen` and `OwnAnnotations`.  `AnswersAreRecent` needs
`MemoryAges`: when each replica's policy was last what the database said, and that a
cached answer came from it.

**Migrations.**  `MigratedAreCurrent` speaks of replicas that are done.  `NoneLeftOut` says what
one that is not done still has to run, or finds as it is in its release; the hash that
another replica logs lets it pass a script only after that script ran (`LogsFollow`).  That no
script stays behind a change of one it depends on (`DependentsRebuilt`) needs two facts
more: a replica that will run a changed script will run its dependents too
(`DependentsQueued`), and whatever is behind is queued somewhere and not already past
its `Exec` (`BehindQueued`).  Both rest on dependents running later, the assumption on the
order.  A skipped script is the exception: `GetExecutableScripts` does not look at its hash, and its dependents
run only for reasons of their own.  For what is dropped (`DroppedAreRecreated`), `LostQueued` says the same of `lost`
as `BehindQueued` of `behind`.  It rests on `RootsQueued`: a script that depends on none can be selected only
because it changed or always runs, and then its dependents are selected with it.  A script that itself
depends on another may be selected without its dependents, hence the exception of `Exposed`.

**Shutdown.**  `HooksRunFirst` is a statement about three lists: what was added, what was taken
and what has run.  `ListsInOrder` says that the ones taken are sorted by priority and stably;
`Sorted` and `PlacesInOrder` prove that of the sort itself, that each hook has one place and each place one
hook, by counting those before it.  `OneRunner` is the `sync.OnceFunc`, `NoneForgotten` that a
hook is in the registry, in the list or has run.

**Clients of clusters.**  The bound of `TokensAreOwnAndRecent` is a sum over three caches.  `ReadsRecent`,
`ClientsRecent` and `AuthRecent` bound, for each of them, the age of what it has by the time
it may still keep it; a step hands a token from one to the next only while the former has
not expired (`Filled`, `Refreshed`, `CredsRefreshed`), and the clock takes from the time what it adds to
the age (`KubeTick`).  `RequestsHaveClients` is needed for a refused request: whoever rotates its
credentials does so for the connection and namespace the client was made for.

**Shell runs.**  `CheckoutsLocked` says that from its `TryLock` to its `ReadHead` a run holds the lock
of its URL and that the tree there is what it has checked out itself;
`FilesFollowSetup` that the credential files there are of a run are those of the connections it has
passed, until `Cleanup` deletes them.

**A view's table.**  `SyncedAsWanted` speaks of the moment when nobody is at work.  In between,
one replica may drop the table or the policy that another has just checked, so `Guarded` says
of everybody's next statements that what is missing is about to be made: after a replica has
seen row level security or switched it on, either the table has it or somebody is where it
will still be switched on (`EnablesRLS`), and so with the policy (`CreatesPolicy`).
`TableStays` is the same for the table itself.  When neither is wanted, nobody makes them
again, and what one has seen missing stays missing (`Unguarded`).  That only holds as long as
nobody fails in between, as a failed replica may be the one that was about to make it: `sure`,
of a replica that began after the last failure.

**A view's rows.**  A refresh writes in two statements and commits in a third.  `RefreshesApart`
says that at its commit it has written whatever is there of its fingerprint, if no
other refresh of that fingerprint overlapped, and never rows of another.  For the pushes, `BatchAsRead`:
what is in a batch is as it was read or has changed since, and is on the upstream when it is
about to be marked.  That a marked row is never overwritten there is due to the plain INSERT
(the finding of `view_repush`): a batch with a row that the upstream has is refused.

**Playbook runs.**  Two children that end at once each look for the other.  `SomeoneResumes` says
that when all have ended while their parent waits, one of their ends is still under way;
since each writes its run before it looks, the last to look sees them all.  `SomeoneFallsBack` is the
like for a notification between the write of its error and the attempt.

**Answers of an upstream.**  The answer speaks of the whole message, a statement of the rows of one
table, and rows of earlier tables may be deleted while later ones go in.  `Settled` says of a
request at any moment that each of its rows is still open (`Open`: of a table to come, or of
this one and not yet tried, or failed), was deleted since it was called, or is stored: the tables
shrink the open rows only by what they store, and a conflict keeps those that failed.
For the owner, `OwnersPushed`: a row that belongs to an agent was pushed by one of its
name; `AgentsCached` and `SentByAgent` tie the id in the cache and in a handler to that name even if
the agent is deleted and created again.  No two names push the same row, so whoever stored it
last, its owner has the name that the answer was for.

**Status rings of an upstream.**  `RingsAreEnds` says that the ring of an agent is the end of
what was added to it, never longer than `Retention`, and that each evicted history has
`Retention` later ones; the one that falls out of a full ring has exactly as many.  The
conclusion is about every occurrence, hence the condition `AddedOnce` of `EvictedAreOld`.

**Left to TLC.**  Liveness (fairness and ENABLED are beyond the prover): `EventsSettle`,
`EventsConsumed`, `RunsSettle`, `UnpushedArrive`, `LeadershipReturns` and the rest of the temporal
properties.  What recursive operators and functions compute: `MCAlgorithms`, since induction over data
is beyond the prover and a module with a RECURSIVE operator cannot be proved about.
The other direction of retention, that in the end no row too many is left, is
a matter of liveness (`EvictionGoesOn`).

## 5. Plan

Done, in this order: `EventQueue` with `WorkQueue` and its proofs, `NotifyRouter`,
`JobRun`, `JobHistory`, `Reconcile`, `Migrate`, `PropertyCache`, `PropertyLookup`,
`Leadership`, `Shutdown`; then the search grammar and selectors, the upstream server, views and
playbooks, trees and access control, connections and clients, shell, logs and searches.

To be modelled next: merging of external users, groups and roles
(`views/045_merge_external_entities.sql`); grouping and silencing of notifications; the caches
of connections and of ids; match expressions of label filters.

To be proved next: every safety invariant of a stateful component is; what is left are lemmas about
the functions that `MCAlgorithms` checks and that recur over nothing.

## 6. Not modelled

* Job scheduling: `AddToScheduler`, `Reschedule` and `RemoveFromScheduler` delegate to
  robfig/cron; a job's run begins at any time in `JobRun`.
* Models and schema: GORM structs, HCL applied by Atlas, row level security policies as SQL.
  What changes state concurrently is modelled with the component that uses it.
* External users, groups and roles: set-based SQL within one transaction; planned.
* Artifacts, data queries merged in SQLite, pub/sub, the clients of log sources and cloud
  providers: input, output and formatting.
* Tracing, telemetry, connection pools, embedded databases: observed or set up once, in sequence.
* Caches of connections and of ids, and match expressions of label filters.
* Tests, fixtures, benchmarks and generators.

Hazards of the modelled parts that no property covers:

* `models/event_queue.go:57`: the back-off reads `last_attempt`, which only the synchronous
  path sets; the delay between asynchronous attempts is not bounded from below by anything.
* `postq/pg/router.go:70`: subscribers write the registry and the mode while `consume`
  reads them, without a lock; the outcome is the Go runtime's fatal error.
* `job/job.go:520`: `initialized` is checked and set without a lock; `JobHistory` begins runs
  one at a time until it is set.
* `upstream/jobs.go:254`: a group depends on what earlier groups reported in the same run;
  `UnpushedArrive` is stated for rows that nothing of this holds up (`NotHeldUp`).
* `connection/environment.go`: `SetupConnection` leaves files behind when it returns early
  with an error, and the logins of `az` and `gcloud` are the process's, not the run's.
