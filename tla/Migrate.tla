------------------------------- MODULE Migrate -------------------------------
(***************************************************************************)
(* RunMigrations (migrate/migrate.go): the scripts that have changed since *)
(* they were logged, and those that depend on them (migrate/dependency.go) *)
(* are run in order.  A script may drop what others have created, views    *)
(* that depend on its own with CASCADE; it is there again when they run    *)
(* again.  Replicas migrate as they start, at the same time and without a  *)
(* lock, and may die between any two statements.                           *)
(***************************************************************************)
EXTENDS Integers, Sequences, FiniteSets, SequencesExt

CONSTANTS
  Replicas,
  Order,       \* the scripts: functions, then views, each sorted by file name
  DependsOn,   \* "-- dependsOn:" of each script
  Drops,       \* scripts whose objects each script drops: DROP ... CASCADE
  Always,      \* scripts that run every time: "-- runs: always" and MustRun
  Skip,        \* SkipMigrationFiles
  MaxVersion,  \* bound: versions of a script's content
  MaxFaults    \* bound: failed statements and crashes

Scripts == ToSet(Order)
Before(s, t) == \E i, j \in DOMAIN Order : i < j /\ Order[i] = s /\ Order[j] = t

MigrateAssumption ==
  /\ Order \in Seq(Scripts) /\ IsInjective(Order)
  /\ DependsOn \in [Scripts -> SUBSET Scripts]
  /\ \A s \in Scripts : \A d \in DependsOn[s] : Before(d, s)  \* nothing checks it, the scripts are named so
  /\ Drops \in [Scripts -> SUBSET Scripts] /\ \A s \in Scripts : s \notin Drops[s]  \* it creates its own again
  /\ Always \subseteq Scripts /\ Skip \subseteq Scripts
  /\ MaxVersion \in Nat \ {0} /\ MaxFaults \in Nat

VARIABLES
  content,  \* version of each script in the release
  applied,  \* version that each script last ran with, 0 for none
  log,      \* migration_logs: the version whose hash it has, 0 for none
  behind,   \* scripts with a dependency whose content changed after they last ran
  lost,     \* scripts whose objects a script has dropped that ran after them
  pc,       \* of each replica
  todo,     \* scripts it has still to run, in their order
  faults

vars == <<content, applied, log, behind, lost, pc, todo, faults>>

Init ==
  /\ content = [s \in Scripts |-> 1]
  /\ applied = [s \in Scripts |-> 0]
  /\ log = [s \in Scripts |-> 0]
  /\ behind = {} /\ lost = {}
  /\ pc = [r \in Replicas |-> "off"]
  /\ todo = [r \in Replicas |-> {}]
  /\ faults = 0

Goto(r, l) == pc' = [pc EXCEPT ![r] = l]
Fault == faults < MaxFaults /\ faults' = faults + 1

\* getDependencyTree
Dependents(s) == {d \in Scripts : s \in DependsOn[d]}

\* A release with another version of a script; replicas start afresh with it.
Release(s) ==
  /\ content[s] < MaxVersion
  /\ \A r \in Replicas : pc[r] \in {"off", "migrated"}
  /\ content' = [content EXCEPT ![s] = @ + 1]
  /\ pc' = [r \in Replicas |-> "off"]
  /\ UNCHANGED <<applied, log, behind, lost, todo, faults>>

\* Variant: a script that has a log row is not run again, whatever its hash.
ExecutableUnlogged ==
  LET changed == {s \in Scripts : s \in Always \/ (s \notin Skip /\ log[s] = 0)}
  IN  changed \union UNION {Dependents(s) : s \in changed}

\* GetExecutableScripts: what changed, and its direct dependents, skipped ones too.
Executable ==
  LET changed == {s \in Scripts : s \in Always \/ (s \notin Skip /\ log[s] # content[s])}
  IN  changed \union UNION {Dependents(s) : s \in changed}

\* RunMigrations up to the first script.
ReadLogs(r) ==
  /\ pc[r] = "off"
  /\ todo' = [todo EXCEPT ![r] = Executable]
  /\ Goto(r, "running")
  /\ UNCHANGED <<content, applied, log, behind, lost, faults>>

\* runScripts: sort.Strings
First(S) == CHOOSE s \in S : \A t \in S : ~Before(t, s)

\* runScripts: pool.Exec of the script, which drops what it drops whoever created it.
Exec(r) ==
  LET s == First(todo[r]) IN
  /\ pc[r] = "running" /\ todo[r] # {}
  /\ applied' = [applied EXCEPT ![s] = content[s]]
  /\ behind' = (behind \ {s}) \union (IF applied[s] # content[s] THEN Dependents(s) ELSE {})
  /\ lost' = (lost \ {s}) \union Drops[s]
  /\ Goto(r, "logging")
  /\ UNCHANGED <<content, log, todo, faults>>

\* runScripts: INSERT INTO migration_logs.
SaveLog(r) ==
  LET s == First(todo[r]) IN
  /\ pc[r] = "logging"
  /\ log' = [log EXCEPT ![s] = content[s]]
  /\ todo' = [todo EXCEPT ![r] = @ \ {s}]
  /\ Goto(r, "running")
  /\ UNCHANGED <<content, applied, behind, lost, faults>>

Finish(r) ==
  /\ pc[r] = "running" /\ todo[r] = {}
  /\ Goto(r, "migrated")
  /\ UNCHANGED <<content, applied, log, behind, lost, todo, faults>>

\* A statement fails and RunMigrations returns its error, or the replica dies; it
\* will start again.
Abort(r) ==
  /\ pc[r] \in {"running", "logging"} /\ Fault
  /\ todo' = [todo EXCEPT ![r] = {}]
  /\ Goto(r, "off")
  /\ UNCHANGED <<content, applied, log, behind, lost>>

Next ==
  \/ \E s \in Scripts : Release(s)
  \/ \E r \in Replicas : ReadLogs(r) \/ Exec(r) \/ SaveLog(r) \/ Finish(r) \/ Abort(r)

Spec == Init /\ [][Next]_vars

-----------------------------------------------------------------------------
(* Properties.                                                             *)

\* The state of RunMigrations: it returns nil only with no script left, and logs a
\* script that it is running.
TypeOK ==
  /\ content \in [Scripts -> 1 .. MaxVersion]
  /\ applied \in [Scripts -> 0 .. MaxVersion] /\ log \in [Scripts -> 0 .. MaxVersion]
  /\ behind \subseteq Scripts /\ lost \subseteq Scripts
  /\ pc \in [Replicas -> {"off", "running", "logging", "migrated"}]
  /\ todo \in [Replicas -> SUBSET Scripts]
  /\ \A r \in Replicas :
       /\ pc[r] \in {"off", "migrated"} => todo[r] = {}
       /\ pc[r] = "logging" => todo[r] # {}
  /\ faults \in 0 .. MaxFaults

\* runScripts: a script that the log lets the next start pass over has been run.
LoggedAreApplied == \A s \in Scripts : log[s] = content[s] => applied[s] = content[s]

\* RunMigrations: in a database that a replica has migrated every script that is not
\* skipped last ran in the replica's own version, whatever others did or left undone.
MigratedAreCurrent ==
  \A r \in Replicas : pc[r] = "migrated" =>
    \A s \in Scripts \ Skip : applied[s] = content[s]

\* Nobody migrates, and no migration was broken off before.
Undisturbed == faults = 0 /\ \A r \in Replicas : pc[r] \in {"off", "migrated"}

\* GetExecutableScripts "takes dependencies into account": after replicas have migrated
\* side by side, no script last ran before a change of one it depends on, unless that one
\* is skipped.
DependentsRebuilt == Undisturbed => behind \subseteq UNION {Dependents(s) : s \in Skip \ Always}

\* Scripts that lose their objects to one that they do not depend on, or to one that runs
\* because of its own dependencies, which does not make its dependents run.
Exposed == {t \in Scripts : \E s \in Scripts : t \in Drops[s] /\ (t \notin Dependents(s) \/ DependsOn[s] # {})}

\* "dependsOn" is for what is dropped: what a script drops of its dependents is there
\* again after replicas have migrated side by side, in releases that change any scripts;
\* only those that are exposed may have lost theirs.
DroppedAreRecreated == Undisturbed => lost \subseteq Exposed
=============================================================================
