----------------------------- MODULE ShellRuns -----------------------------
(***************************************************************************)
(* shell/shell.go: scripts run at the same time in one process.  A run     *)
(* checks out its repository into a directory that every run of the same   *)
(* URL shares, installs a runtime, writes the credentials of its           *)
(* connections into files (connection/environment.go), runs the command    *)
(* and removes the files.                                                  *)
(*                                                                         *)
(* The directories of credential files have random names, which are taken  *)
(* not to collide.  A repository that can be fetched has every branch that *)
(* is asked for.                                                           *)
(***************************************************************************)
EXTENDS Naturals, FiniteSets, Sequences

CONSTANTS
  Runs,
  URL, Branch,    \* of the checkout of each run, "" if it has none
  Uses            \* the connections of each run
\* The order in which SetupConnection goes through them.
ConnOrder == <<"kubernetes", "aws", "azure", "gcp">>
NoRun == "none"
\* No URL, no branch.
Empty == ""
ConnKinds == {ConnOrder[i] : i \in DOMAIN ConnOrder}
URLs == {URL[r] : r \in Runs} \ {Empty}

ShellRunsAssumption ==
  /\ NoRun \notin Runs
  /\ Uses \in [Runs -> SUBSET ConnKinds]

VARIABLES
  pc,         \* where each run is
  at,         \* how many of ConnOrder it has set up
  lock,       \* checkoutLocks, by URL
  tree,       \* the branch checked out in each URL's directory, "" if it does not exist
  transport,  \* who holds gitHTTPTransportMu
  commit,     \* the branch whose commit each run reports
  files,      \* the credential files: [run, conn]
  login       \* whose identity the az and gcloud tools have

vars == <<pc, at, lock, tree, transport, commit, files, login>>

Init ==
  /\ pc = [r \in Runs |-> "prepare"]
  /\ at = [r \in Runs |-> 0]
  /\ lock = [u \in URLs |-> NoRun]
  /\ tree \in [URLs -> {Empty} \union {Branch[r] : r \in Runs}]
  /\ transport = NoRun
  /\ commit = [r \in Runs |-> Empty]
  /\ files = {}
  /\ login = [tool \in {"azure", "gcp"} |-> NoRun]

To(r, step) == pc' = [pc EXCEPT ![r] = step]
Git == {"clone", "fetch", "checkout", "head"}

\* prepareEnvironment: a variable or a connection that cannot be had ends the run.
PrepareFails(r) ==
  /\ pc[r] = "prepare" /\ To(r, "refused")
  /\ UNCHANGED <<at, lock, tree, transport, commit, files, login>>
NoCheckout(r) ==
  /\ pc[r] = "prepare" /\ URL[r] = Empty /\ To(r, "install")
  /\ UNCHANGED <<at, lock, tree, transport, commit, files, login>>
\* The lock of the directory, or none within five minutes.
TryLock(r) ==
  /\ pc[r] = "prepare" /\ URL[r] # Empty
  /\ \/ lock[URL[r]] = NoRun /\ lock' = [lock EXCEPT ![URL[r]] = r] /\ To(r, "transport")
     \/ lock[URL[r]] # NoRun /\ To(r, "refused") /\ UNCHANGED lock
  /\ UNCHANGED <<at, tree, transport, commit, files, login>>

\* configureGitHTTPTransport: the mutex if calls are logged; CreateGitConfig may fail before.
ConfigureTransport(r) ==
  /\ pc[r] = "transport"
  /\ \/ transport = NoRun /\ transport' = r /\ To(r, "clone") /\ UNCHANGED lock
     \/ To(r, "clone") /\ UNCHANGED <<transport, lock>>
     \/ To(r, "refused") /\ lock' = [lock EXCEPT ![URL[r]] = NoRun] /\ UNCHANGED transport
  /\ UNCHANGED <<at, tree, commit, files, login>>

\* The deferred calls of Clone and prepareEnvironment.
Released(r) == [lock EXCEPT ![URL[r]] = IF @ = r THEN NoRun ELSE @]
Restored(r) == IF transport = r THEN NoRun ELSE transport

\* Variant: the lock is released when the repository is there already.
CloneUnlocked(r) ==
  /\ pc[r] = "clone"
  /\ IF tree[URL[r]] = Empty
     THEN tree' = [tree EXCEPT ![URL[r]] = Branch[r]] /\ To(r, "head") /\ UNCHANGED lock
     ELSE To(r, "fetch") /\ lock' = Released(r) /\ UNCHANGED tree
  /\ UNCHANGED <<at, transport, commit, files, login>>
\* PlainClone of a directory that is new, or the repository is there already.
Clone(r) ==
  /\ pc[r] = "clone"
  /\ IF tree[URL[r]] = Empty
     THEN tree' = [tree EXCEPT ![URL[r]] = Branch[r]] /\ To(r, "head")
     ELSE To(r, "fetch") /\ UNCHANGED tree
  /\ UNCHANGED <<at, lock, transport, commit, files, login>>
Fetch(r) ==
  /\ pc[r] = "fetch" /\ To(r, "checkout")
  /\ UNCHANGED <<at, lock, tree, transport, commit, files, login>>
Checkout(r) ==
  /\ pc[r] = "checkout" /\ To(r, "head")
  /\ tree' = [tree EXCEPT ![URL[r]] = Branch[r]]
  /\ UNCHANGED <<at, lock, transport, commit, files, login>>
\* Every one of these calls may fail.
GitFails(r) ==
  /\ pc[r] \in Git /\ To(r, "refused")
  /\ lock' = Released(r) /\ transport' = Restored(r)
  /\ UNCHANGED <<at, tree, commit, files, login>>
\* repo.Head: the commit that is reported.
ReadHead(r) ==
  /\ pc[r] = "head" /\ To(r, "install")
  /\ commit' = [commit EXCEPT ![r] = tree[URL[r]]]
  /\ lock' = Released(r) /\ transport' = Restored(r)
  /\ UNCHANGED <<at, tree, files, login>>

\* Run: the runtimes and the command of the script, or an error.
Install(r) ==
  /\ pc[r] = "install" /\ (To(r, "setup") \/ To(r, "refused"))
  /\ UNCHANGED <<at, lock, tree, transport, commit, files, login>>

\* SetupConnection, one connection: Populate fails; or its file is written, the tool is
\* logged in, and what follows fails or does not.
File(r, conn) == [run |-> r, conn |-> conn]
SetupConnection(r) ==
  LET conn == ConnOrder[at[r] + 1] IN
  /\ pc[r] = "setup" /\ at[r] < Len(ConnOrder)
  /\ IF conn \notin Uses[r]
     THEN at' = [at EXCEPT ![r] = @ + 1] /\ UNCHANGED <<pc, files, login>>
     ELSE \/ To(r, "refused") /\ UNCHANGED <<at, files, login>>
          \/ /\ files' = IF conn = "azure" THEN files ELSE files \union {File(r, conn)}
             /\ \/ To(r, "refused") /\ UNCHANGED <<at, login>>
                \/ /\ at' = [at EXCEPT ![r] = @ + 1] /\ UNCHANGED pc
                   /\ login' = IF conn \in DOMAIN login THEN [login EXCEPT ![conn] = r] ELSE login
  /\ UNCHANGED <<lock, tree, transport, commit>>
Start(r) ==
  /\ pc[r] = "setup" /\ at[r] = Len(ConnOrder) /\ To(r, "command")
  /\ UNCHANGED <<at, lock, tree, transport, commit, files, login>>

\* Cleanup
Cleanup(r) == files \ {File(r, c) : c \in Uses[r]}
\* runCmd ends, with or without an error, and the files are removed.
RunCmd(r) ==
  /\ pc[r] = "command" /\ To(r, "done")
  /\ files' = Cleanup(r)
  /\ UNCHANGED <<at, lock, tree, transport, commit, login>>

Next ==
  \E r \in Runs :
    \/ PrepareFails(r) \/ NoCheckout(r) \/ TryLock(r) \/ ConfigureTransport(r)
    \/ Clone(r) \/ Fetch(r) \/ Checkout(r) \/ GitFails(r) \/ ReadHead(r)
    \/ Install(r) \/ SetupConnection(r) \/ Start(r) \/ RunCmd(r)

Spec == Init /\ [][Next]_vars

-----------------------------------------------------------------------------

\* prepareEnvironment: "git does not allow multiple operations to be performed, so we
\* need to lock it".  Two runs never work on one directory, and so the commit that a run
\* reports is one of its own branch, whatever the others check out.
ReportsOwnCommit ==
  /\ \A r, s \in Runs : r # s /\ pc[r] \in Git /\ pc[s] \in Git => URL[r] # URL[s]
  /\ \A r \in Runs : commit[r] # Empty => commit[r] = Branch[r]

\* SetupConnection and its Cleanup: a command has the files of all its connections while
\* it runs, and none is left after it, however the runs overlap.
CredentialsFollowRuns ==
  \A r \in Runs :
    /\ pc[r] = "command" => {f.conn : f \in {g \in files : g.run = r}} = Uses[r] \ {"azure"}
    /\ pc[r] = "done" => \A f \in files : f.run # r
=============================================================================
