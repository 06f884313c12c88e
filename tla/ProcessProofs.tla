---------------------------- MODULE ProcessProofs ----------------------------
(***************************************************************************)
(* What a process of this program does beside its jobs, proved for any     *)
(* replicas, scripts, hooks, connections, requests and runs: shell runs    *)
(* (ShellRuns), shutdown (Shutdown), migrations (Migrate) and the clients  *)
(* of clusters (KubeClients).  Each theorem is about the specification of  *)
(* its component and states the property the run of MCProcess checks.      *)
(***************************************************************************)
EXTENDS MCProcess, FiniteSetTheorems, SequenceTheorems, WellFoundedInduction, TLAPS

-----------------------------------------------------------------------------
(* Shell runs.                                                             *)

LEMMA ShellTypes ==
  /\ Shell!NoRun \notin Runs
  /\ Uses \in [Runs -> SUBSET Shell!ConnKinds]
  BY ProcessAssumption DEF ProcessAssumption, Shell!ShellRunsAssumption

LEMMA ShellOrder ==
  /\ Len(Shell!ConnOrder) = 4 /\ "azure" \in Shell!ConnKinds
  /\ \A i \in 1 .. 4 : Shell!ConnOrder[i] \in Shell!ConnKinds
  /\ Shell!ConnKinds = {Shell!ConnOrder[i] : i \in 1 .. 4}
  BY DEF Shell!ConnOrder, Shell!ConnKinds

ShellPlaces == {"prepare", "transport", "install", "setup", "command", "done", "refused"} \union Shell!Git
Branches == {Shell!Empty} \union {Branch[r] : r \in Runs}
Has(r, conn) == Shell!File(r, conn) \in files
Written(r, n) == {Shell!ConnOrder[i] : i \in 1 .. n} \intersect (Uses[r] \ {"azure"})

\* The state of the runs.
ShellTypeOK ==
  /\ step \in [Runs -> ShellPlaces]
  /\ at \in [Runs -> 0 .. Len(Shell!ConnOrder)]
  /\ lock \in [Shell!URLs -> Runs \union {Shell!NoRun}]
  /\ tree \in [Shell!URLs -> Branches]
  /\ transport \in Runs \union {Shell!NoRun}
  /\ commit \in [Runs -> Branches]
  /\ files \subseteq [run : Runs, conn : Shell!ConnKinds]

\* Between its TryLock and its Head a run holds the lock of its URL, and what it has
\* checked out when it reads the head is its own branch.
CheckoutsLocked ==
  \A r \in Runs :
    /\ step[r] \in Shell!Git \union {"transport"} => URL[r] \in Shell!URLs /\ lock[URL[r]] = r
    /\ step[r] = "head" => tree[URL[r]] = Branch[r]
    /\ commit[r] # Shell!Empty => commit[r] = Branch[r]

\* While its connections are set up, a run has the files of those it has gone through,
\* and those that it will not use are not there.
FilesOf(r) ==
  /\ step[r] \in {"prepare", "transport", "install"} \union Shell!Git => at[r] = 0
  /\ step[r] \in {"prepare", "transport", "install", "setup", "command"} \union Shell!Git
       => \A conn \in Shell!ConnKinds : Has(r, conn) <=> conn \in Written(r, at[r])
  /\ step[r] = "command" => at[r] = Len(Shell!ConnOrder)
  /\ step[r] = "done" => \A conn \in Shell!ConnKinds : ~Has(r, conn)
FilesFollowSetup == \A r \in Runs : FilesOf(r)

ShellInv == ShellTypeOK /\ CheckoutsLocked /\ FilesFollowSetup

LEMMA ShellInit == Shell!Init => ShellInv
  <1> SUFFICES ASSUME Shell!Init PROVE ShellInv
    OBVIOUS
  <1> USE ShellTypes DEF Shell!Init
  <1>1. ShellTypeOK
    <2>1. tree \in [Shell!URLs -> Branches]
      BY DEF Branches
    <2>2. step \in [Runs -> ShellPlaces] /\ at \in [Runs -> 0 .. Len(Shell!ConnOrder)]
      BY ShellOrder DEF ShellPlaces
    <2> QED
      BY <2>1, <2>2 DEF ShellTypeOK, Branches, Branches
  <1>2. CheckoutsLocked
    BY DEF CheckoutsLocked, Shell!Git
  <1>3. FilesFollowSetup
    BY DEF FilesFollowSetup, FilesOf, Has, Written
  <1> QED
    BY <1>1, <1>2, <1>3 DEF ShellInv

\* The lock and the transport when a run gives them up.
LEMMA ShellReleases ==
  ASSUME ShellTypeOK, NEW r \in Runs
  PROVE  /\ Shell!Released(r) \in [Shell!URLs -> Runs \union {Shell!NoRun}]
         /\ Shell!Restored(r) \in Runs \union {Shell!NoRun}
         /\ \A u \in Shell!URLs, s \in Runs : s # r /\ lock[u] = s => Shell!Released(r)[u] = s
  BY ShellTypes DEF ShellTypeOK, Branches, Shell!Released, Shell!Restored

\* The step of one run keeps what the locks are for, if it keeps that run's part of it and
\* neither takes a lock from another nor changes the checkout that another will report.
LEMMA CheckoutsKept ==
  ASSUME ShellInv, NEW r \in Runs, NEW l, Shell!To(r, l),
         \A s \in Runs : s # r =>
           /\ commit'[s] = commit[s]
           /\ \A u \in Shell!URLs : lock[u] = s => lock'[u] = s /\ tree'[u] = tree[u],
         l \in Shell!Git \union {"transport"} => URL[r] \in Shell!URLs /\ lock'[URL[r]] = r,
         l = "head" => tree'[URL[r]] = Branch[r],
         commit'[r] # Shell!Empty => commit'[r] = Branch[r]
  PROVE  CheckoutsLocked'
  <1>1. step'[r] = l /\ \A s \in Runs : s # r => step'[s] = step[s]
    BY DEF ShellInv, ShellTypeOK, Shell!To
  <1>2. "head" \in Shell!Git
    BY DEF Shell!Git
  <1> QED
    BY <1>1, <1>2 DEF ShellInv, CheckoutsLocked

\* It keeps the files of the others, if it keeps those that are theirs.
LEMMA OthersFiles ==
  ASSUME ShellInv, NEW s \in Runs, step'[s] = step[s], at'[s] = at[s],
         \A conn \in Shell!ConnKinds : Has(s, conn)' <=> Has(s, conn)
  PROVE  FilesOf(s)'
  <1>1. Written(s, at[s])' = Written(s, at[s])
    BY DEF Written
  <1> QED
    BY <1>1 DEF ShellInv, FilesFollowSetup, FilesOf

\* It keeps what the files are, if it neither writes nor removes one.
LEMMA FilesKept ==
  ASSUME ShellInv, NEW r \in Runs, UNCHANGED <<at, files>>, NEW l, Shell!To(r, l),
         \/ l = "refused"
         \/ l \in {"transport", "install"} \union Shell!Git /\ step[r] \in {"prepare", "transport", "install"} \union Shell!Git
         \/ l = "setup" /\ step[r] = "install"
         \/ l = "command" /\ step[r] = "setup" /\ at[r] = Len(Shell!ConnOrder)
  PROVE  FilesFollowSetup'
  <1>1. step'[r] = l /\ \A s \in Runs : s # r => step'[s] = step[s]
    BY DEF ShellInv, ShellTypeOK, Shell!To
  <1>2. \A s \in Runs : at'[s] = at[s] /\ \A c : Has(s, c)' <=> Has(s, c)
    BY DEF Has, Shell!File
  <1>3. \A s \in Runs, n \in 0 .. Len(Shell!ConnOrder) : Written(s, n)' = Written(s, n)
    BY DEF Written
  <1>4. \A s \in Runs : at[s] \in 0 .. Len(Shell!ConnOrder)
    BY DEF ShellInv, ShellTypeOK
  <1> QED
    BY <1>1, <1>2, <1>3, <1>4 DEF ShellInv, FilesFollowSetup, FilesOf, Shell!Git

LEMMA ShellStep == ShellInv /\ [Shell!Next]_shell => ShellInv'
  <1> SUFFICES ASSUME ShellInv, [Shell!Next]_shell PROVE ShellInv'
    OBVIOUS
  <1> USE ShellTypes DEF ShellInv, Shell!To
  <1>1. CASE UNCHANGED shell
    BY <1>1 DEF shell, ShellTypeOK, CheckoutsLocked, FilesFollowSetup, FilesOf, Has, Written, Shell!File
  <1> SUFFICES ASSUME NEW r \in Runs,
                      \/ Shell!PrepareFails(r) \/ Shell!NoCheckout(r) \/ Shell!TryLock(r) \/ Shell!ConfigureTransport(r)
                      \/ Shell!Clone(r) \/ Shell!Fetch(r) \/ Shell!Checkout(r) \/ Shell!GitFails(r) \/ Shell!ReadHead(r)
                      \/ Shell!Install(r) \/ Shell!SetupConnection(r) \/ Shell!Start(r) \/ Shell!RunCmd(r)
               PROVE  ShellInv'
    BY <1>1 DEF Shell!Next
  <1>2. CASE Shell!PrepareFails(r) \/ Shell!NoCheckout(r)
    <2> USE <1>2 DEF Shell!PrepareFails, Shell!NoCheckout
    <2>1. ShellTypeOK'
      BY DEF ShellTypeOK, Branches, ShellPlaces
    <2>2. CheckoutsLocked'
      BY DEF ShellTypeOK, Branches, CheckoutsLocked, Shell!Git
    <2>3. FilesFollowSetup'
      BY FilesKept
    <2> QED
      BY <2>1, <2>2, <2>3
  <1>3. CASE Shell!TryLock(r)
    <2> USE <1>3 DEF Shell!TryLock
    <2>0. URL[r] \in Shell!URLs
      BY DEF Shell!URLs
    <2>1. ShellTypeOK'
      BY <2>0 DEF ShellTypeOK, Branches, ShellPlaces
    <2>2. CheckoutsLocked'
      BY <2>0 DEF ShellTypeOK, Branches, CheckoutsLocked, Shell!Git
    <2>3. FilesFollowSetup'
      BY FilesKept
    <2> QED
      BY <2>1, <2>2, <2>3
  <1>4. CASE Shell!ConfigureTransport(r)
    <2> USE <1>4 DEF Shell!ConfigureTransport
    <2>0. URL[r] \in Shell!URLs /\ lock[URL[r]] = r
      BY DEF CheckoutsLocked
    <2>1. ShellTypeOK'
      BY <2>0 DEF ShellTypeOK, Branches, ShellPlaces, Shell!Git
    <2>2. CheckoutsLocked'
      BY <2>0 DEF ShellTypeOK, Branches, CheckoutsLocked, Shell!Git
    <2>3. FilesFollowSetup'
      BY FilesKept DEF Shell!Git
    <2> QED
      BY <2>1, <2>2, <2>3
  <1>5. CASE Shell!Clone(r) \/ Shell!Fetch(r) \/ Shell!Checkout(r)
    <2> USE <1>5 DEF Shell!Clone, Shell!Fetch, Shell!Checkout
    <2>0. URL[r] \in Shell!URLs /\ lock[URL[r]] = r
      BY DEF CheckoutsLocked, Shell!Git
    <2>1. ShellTypeOK'
      <3>1. step' \in [Runs -> ShellPlaces]
        BY DEF ShellTypeOK, ShellPlaces, Shell!Git
      <3>2. tree' \in [Shell!URLs -> Branches]
        <4>1. Branch[r] \in Branches
          BY DEF Branches
        <4> QED
          BY <2>0, <4>1 DEF ShellTypeOK
      <3> QED
        BY <3>1, <3>2 DEF ShellTypeOK
    <2>2. CheckoutsLocked'
      <3>1. \A s \in Runs : s # r => commit'[s] = commit[s]
              /\ \A u \in Shell!URLs : lock[u] = s => lock'[u] = s /\ tree'[u] = tree[u]
        BY <2>0 DEF ShellTypeOK
      <3>2. PICK l \in {"fetch", "checkout", "head"} :
              Shell!To(r, l) /\ (l = "head" => tree'[URL[r]] = Branch[r]) /\ UNCHANGED <<lock, commit>>
        BY <2>0 DEF ShellTypeOK
      <3>3. commit[r] # Shell!Empty => commit[r] = Branch[r]
        BY DEF CheckoutsLocked
      <3> QED
        BY <2>0, <3>1, <3>2, <3>3, CheckoutsKept
    <2>3. FilesFollowSetup'
      BY FilesKept DEF Shell!Git
    <2> QED
      BY <2>1, <2>2, <2>3
  <1>6. CASE Shell!GitFails(r) \/ Shell!ReadHead(r)
    <2> USE <1>6, ShellReleases DEF Shell!GitFails, Shell!ReadHead
    <2>0. URL[r] \in Shell!URLs /\ (step[r] = "head" => tree[URL[r]] = Branch[r])
      BY DEF CheckoutsLocked, Shell!Git
    <2>1. ShellTypeOK'
      <3>1. step' \in [Runs -> ShellPlaces]
        BY DEF ShellTypeOK, ShellPlaces
      <3>2. commit' \in [Runs -> Branches]
        BY <2>0 DEF ShellTypeOK, Branches
      <3> QED
        BY <3>1, <3>2 DEF ShellTypeOK
    <2>2. CheckoutsLocked'
      <3>1. \A s \in Runs : s # r => commit'[s] = commit[s]
              /\ \A u \in Shell!URLs : lock[u] = s => lock'[u] = s /\ tree'[u] = tree[u]
        BY <2>0 DEF ShellTypeOK
      <3>2. commit'[r] # Shell!Empty => commit'[r] = Branch[r]
        BY <2>0 DEF CheckoutsLocked, ShellTypeOK
      <3>3. PICK l \in {"refused", "install"} : Shell!To(r, l)
        BY DEF Shell!To
      <3>4. l \notin Shell!Git \union {"transport"} /\ l # "head"
        BY DEF Shell!Git
      <3> QED
        BY <2>0, <3>1, <3>2, <3>3, <3>4, CheckoutsKept DEF ShellInv
    <2>3. FilesFollowSetup'
      BY FilesKept DEF Shell!Git
    <2> QED
      BY <2>1, <2>2, <2>3
  <1>7. CASE Shell!Install(r)
    <2> USE <1>7 DEF Shell!Install
    <2>1. ShellTypeOK'
      BY DEF ShellTypeOK, Branches, ShellPlaces
    <2>2. CheckoutsLocked'
      BY DEF ShellTypeOK, Branches, CheckoutsLocked, Shell!Git
    <2>3. FilesFollowSetup'
      BY FilesKept
    <2> QED
      BY <2>1, <2>2, <2>3
  <1>8. CASE Shell!SetupConnection(r)
    <2> DEFINE conn == Shell!ConnOrder[at[r] + 1]
    <2>0. /\ step[r] = "setup" /\ at[r] \in 0 .. 3 /\ Len(Shell!ConnOrder) = 4
          /\ conn \in Shell!ConnKinds /\ at[r] + 1 \in 1 .. 4
          /\ at \in [Runs -> Int]
      BY <1>8 DEF Shell!SetupConnection, ShellTypeOK, Shell!ConnOrder, Shell!ConnKinds
    <2>1. ShellTypeOK'
      <3>1. step' \in [Runs -> ShellPlaces]
        BY <1>8 DEF Shell!SetupConnection, ShellTypeOK, ShellPlaces
      <3>2. at' \in [Runs -> 0 .. Len(Shell!ConnOrder)]
        BY <1>8, <2>0 DEF Shell!SetupConnection, ShellTypeOK
      <3>3. files' \subseteq [run : Runs, conn : Shell!ConnKinds]
        BY <1>8, <2>0 DEF Shell!SetupConnection, ShellTypeOK, Shell!File
      <3> QED
        BY <1>8, <3>1, <3>2, <3>3 DEF Shell!SetupConnection, ShellTypeOK
    <2>2. CheckoutsLocked'
      BY <1>8 DEF Shell!SetupConnection, ShellTypeOK, CheckoutsLocked, Shell!Git
    <2>3. ASSUME NEW s \in Runs, NEW c \in Shell!ConnKinds
          PROVE  Has(s, c)' <=> Has(s, c) \/ (s = r /\ c = conn /\ Has(s, c)')
      BY <1>8 DEF Shell!SetupConnection, Has, Shell!File
    <2>4. CASE step' = [step EXCEPT ![r] = "refused"] /\ UNCHANGED at
      <3>1. step'[r] = "refused" /\ \A s \in Runs : s # r => step'[s] = step[s]
        BY <2>4 DEF ShellTypeOK
      <3>2. \A s \in Runs : s # r => at'[s] = at[s] /\ \A c \in Shell!ConnKinds : Has(s, c)' <=> Has(s, c)
        BY <2>3, <2>4
      <3>3. FilesOf(r)'
        BY <3>1 DEF FilesOf, Shell!Git
      <3>4. ASSUME NEW s \in Runs, s # r PROVE FilesOf(s)'
        BY <3>1, <3>2, <3>4, OthersFiles
      <3> QED
        BY <2>1, <2>2, <3>3, <3>4 DEF FilesFollowSetup
    <2>5. CASE at' = [at EXCEPT ![r] = @ + 1] /\ UNCHANGED step
      <3>1. Written(r, at'[r]) = IF conn \in Uses[r] \ {"azure"} THEN Written(r, at[r]) \union {conn} ELSE Written(r, at[r])
        <4>1. at'[r] = at[r] + 1 /\ \A i : i \in 1 .. at'[r] <=> i \in 1 .. at[r] \/ i = at[r] + 1
          BY <2>0, <2>5
        <4> HIDE DEF conn
        <4>2. {Shell!ConnOrder[i] : i \in 1 .. at'[r]} = {Shell!ConnOrder[i] : i \in 1 .. at[r]} \union {conn}
          BY <4>1 DEF conn
        <4> QED
          BY <4>2 DEF Written
      <3>2. \A c \in Shell!ConnKinds : Has(r, c)' <=> Has(r, c) \/ (c = conn /\ conn \in Uses[r] \ {"azure"})
        BY <1>8, <2>0, <2>5 DEF Shell!SetupConnection, Has, Shell!File
      <3>3. \A c \in Shell!ConnKinds : Has(r, c)' <=> c \in Written(r, at'[r])
        BY <2>0, <3>1, <3>2 DEF FilesFollowSetup, FilesOf
      <3>4. \A s \in Runs : s # r => at'[s] = at[s] /\ \A c \in Shell!ConnKinds : Has(s, c)' <=> Has(s, c)
        BY <2>0, <2>3, <2>5
      <3>5. Written(r, at[r])' = Written(r, at'[r])
        BY DEF Written
      <3>6. FilesOf(r)'
        BY <2>0, <2>5, <3>3, <3>5 DEF FilesOf, Shell!Git
      <3>7. ASSUME NEW s \in Runs, s # r PROVE FilesOf(s)'
        BY <2>5, <3>4, <3>7, OthersFiles
      <3> QED
        BY <2>1, <2>2, <3>6, <3>7 DEF FilesFollowSetup
    <2>6. \/ step' = [step EXCEPT ![r] = "refused"] /\ UNCHANGED at
          \/ at' = [at EXCEPT ![r] = @ + 1] /\ UNCHANGED step
      BY <1>8 DEF Shell!SetupConnection
    <2> QED
      BY <2>1, <2>2, <2>4, <2>5, <2>6
  <1>9. CASE Shell!Start(r)
    <2> USE <1>9 DEF Shell!Start
    <2>1. ShellTypeOK'
      BY DEF ShellTypeOK, Branches, ShellPlaces
    <2>2. CheckoutsLocked'
      BY DEF ShellTypeOK, Branches, CheckoutsLocked, Shell!Git
    <2>3. FilesFollowSetup'
      BY DEF ShellTypeOK, Branches, FilesFollowSetup, FilesOf, Has, Written, Shell!File, Shell!Git
    <2> QED
      BY <2>1, <2>2, <2>3
  <1>10. CASE Shell!RunCmd(r)
    <2> USE <1>10 DEF Shell!RunCmd
    <2>1. ShellTypeOK'
      BY DEF ShellTypeOK, Branches, ShellPlaces, Shell!Cleanup
    <2>2. CheckoutsLocked'
      BY DEF ShellTypeOK, Branches, CheckoutsLocked, Shell!Git
    <2>3. \A c \in Shell!ConnKinds : ~Has(r, c)'
      BY DEF FilesFollowSetup, FilesOf, Shell!Git, Has, Written, Shell!Cleanup
    <2>4. \A s \in Runs : s # r => \A c \in Shell!ConnKinds : Has(s, c)' <=> Has(s, c)
      BY DEF Has, Shell!File, Shell!Cleanup
    <2>5. FilesFollowSetup'
      BY <2>3, <2>4 DEF ShellTypeOK, Branches, FilesFollowSetup, FilesOf, Written, Shell!Git
    <2> QED
      BY <2>1, <2>2, <2>5
  <1> QED
    BY <1>2, <1>3, <1>4, <1>5, <1>6, <1>7, <1>8, <1>9, <1>10

LEMMA ShellApart == ShellInv => ShellRunsApart
  <1> SUFFICES ASSUME ShellInv PROVE ShellRunsApart
    OBVIOUS
  <1> USE ShellTypes DEF ShellInv
  <1>1. Shell!ReportsOwnCommit
    BY DEF Shell!ReportsOwnCommit, CheckoutsLocked
  <1>2. ASSUME NEW r \in Runs, step[r] = "command"
        PROVE  {f.conn : f \in {g \in files : g.run = r}} = Uses[r] \ {"azure"}
    <2>1. Written(r, at[r]) = Uses[r] \ {"azure"}
      BY <1>2 DEF FilesFollowSetup, FilesOf, Written, Shell!ConnKinds, Shell!ConnOrder
    <2>2. \A conn \in Shell!ConnKinds : Has(r, conn) <=> conn \in Uses[r] \ {"azure"}
      BY <1>2, <2>1 DEF FilesFollowSetup, FilesOf
    <2>3. Uses[r] \subseteq Shell!ConnKinds
      OBVIOUS
    <2>4. \A f \in files : f.run = r => f = Shell!File(r, f.conn) /\ f.conn \in Shell!ConnKinds
      BY DEF ShellTypeOK, Shell!File
    <2>5. \A c : Shell!File(r, c).run = r /\ Shell!File(r, c).conn = c
      BY DEF Shell!File
    <2> QED
      BY <2>2, <2>3, <2>4, <2>5 DEF Has
  <1>3. ASSUME NEW r \in Runs, step[r] = "done"
        PROVE  \A f \in files : f.run # r
    BY <1>3 DEF FilesFollowSetup, FilesOf, ShellTypeOK, Has, Shell!File
  <1> QED
    BY <1>1, <1>2, <1>3 DEF ShellRunsApart, Shell!CredentialsFollowRuns

\* shell.Run and its prepareEnvironment and SetupConnection: with any number of runs at a
\* time, no two work on one directory, each reports a commit of its own branch, has the
\* files of its connections while it runs and leaves none.
THEOREM ShellApartness == Shell!Spec => []ShellRunsApart
  <1>1. ShellInv /\ [Shell!Next]_(Shell!vars) => ShellInv'
    BY ShellStep DEF Shell!vars, shell
  <1> QED
    BY ShellInit, <1>1, ShellApart, PTL DEF Shell!Spec

-----------------------------------------------------------------------------
(* Shutdown.                                                               *)

LEMMA ExitTypes == Priority \in [Hooks -> Nat] /\ Nil \subseteq Hooks /\ IsFiniteSet(Hooks)
  BY ProcessAssumption DEF ProcessAssumption, Exit!ShutdownAssumption, Exit!IsFiniteSet, IsFiniteSet

LEMMA ExitCardinality == \A S : Exit!Cardinality(S) = Cardinality(S)
  BY DEF Exit!Cardinality, Cardinality

\* The places of a sequence's elements are those of its indices, each in its order.
LEMMA PlacesInOrder ==
  ASSUME NEW s \in Seq(Hooks)
  PROVE  LET place == [j \in DOMAIN s |-> Exit!Place(s, j)] IN
         /\ place \in Bijection(DOMAIN s, DOMAIN s)
         /\ \A i, j \in DOMAIN s : place[i] < place[j] => Exit!Before(s, i, j)
  <1> DEFINE D == DOMAIN s
             B(j) == {i \in D : Exit!Before(s, i, j)}
             place == [j \in D |-> Exit!Place(s, j)]
  <1>1. D = 1 .. Len(s) /\ Len(s) \in Nat /\ IsFiniteSet(D) /\ Cardinality(D) = Len(s)
    <2>1. D = 1 .. Len(s) /\ Len(s) \in Nat
      BY LenProperties
    <2>2. 1 \in Int /\ Len(s) \in Int
      BY <2>1
    <2>3. IsFiniteSet(1 .. Len(s)) /\ Cardinality(1 .. Len(s)) = IF 1 > Len(s) THEN 0 ELSE Len(s) - 1 + 1
      BY ONLY <2>2, FS_Interval
    <2> QED
      BY <2>1, <2>3
  <1>2. \A i \in D : s[i] \in Hooks /\ Priority[s[i]] \in Nat /\ i \in Nat
    BY <1>1, ElementOfSeq, ExitTypes
  <1>3. \A i, j \in D : i # j => Exit!Before(s, i, j) \/ Exit!Before(s, j, i)
    BY <1>2 DEF Exit!Before
  <1>4. \A i, j, k \in D : Exit!Before(s, i, j) /\ Exit!Before(s, j, k) => Exit!Before(s, i, k)
    BY <1>2 DEF Exit!Before
  <1>5. \A i \in D : ~Exit!Before(s, i, i)
    BY <1>2 DEF Exit!Before
  <1>6. \A j \in D : IsFiniteSet(B(j)) /\ Cardinality(B(j)) \in Nat
    BY <1>1, FS_Subset, FS_CardinalityType
  <1>7. \A j \in D : place[j] = Cardinality(B(j)) + 1
    BY ExitCardinality DEF Exit!Place
  <1>8. ASSUME NEW j \in D
        PROVE  place[j] \in D
    <2>1. IsFiniteSet(D \ {j}) /\ Cardinality(D \ {j}) = Len(s) - 1
      BY <1>1, FS_RemoveElement
    <2>2. B(j) \in SUBSET (D \ {j})
      BY <1>5
    <2>3. Cardinality(B(j)) <= Len(s) - 1
      BY <2>1, <2>2, FS_Subset
    <2> QED
      <3> HIDE DEF B, place
      <3> QED
        BY <1>1, <1>6, <1>7, <2>3
  <1>9. ASSUME NEW i \in D, NEW j \in D, Exit!Before(s, i, j)
        PROVE  place[i] < place[j]
    <2>1. B(i) \in SUBSET (B(j) \ {i})
      BY <1>4, <1>5, <1>9
    <2>2. i \in B(j)
      BY <1>9
    <2>3. IsFiniteSet(B(j) \ {i}) /\ Cardinality(B(j) \ {i}) = Cardinality(B(j)) - 1
      BY <1>6, <2>2, FS_RemoveElement
    <2>4. Cardinality(B(i)) <= Cardinality(B(j)) - 1
      BY <2>1, <2>3, FS_Subset
    <2> QED
      <3> HIDE DEF B, place
      <3> QED
        BY <1>6, <1>7, <2>4
  <1> HIDE DEF place
  <1>10. \A j \in D : place[j] \in Nat
    BY <1>1, <1>8
  <1>11. place \in Injection(D, D)
    <2>1. place \in [D -> D]
      BY <1>8 DEF place
    <2>2. \A i, j \in D : place[i] = place[j] => i = j
      BY <1>3, <1>9, <1>10
    <2> QED
      BY <2>1, <2>2 DEF Injection, IsInjective
  <1>12. place \in Surjection(D, D)
    BY <1>1, <1>11, FS_Injection
  <1>13. \A i, j \in D : place[i] < place[j] => Exit!Before(s, i, j)
    BY <1>3, <1>9, <1>10
  <1> QED
    BY <1>11, <1>12, <1>13 DEF Bijection, place

\* sort.SliceStable as ByPriority: the same elements, in order.
LEMMA Sorted ==
  ASSUME NEW s \in Seq(Hooks)
  PROVE  LET t == Exit!ByPriority(s) IN
         /\ t \in Seq(Hooks) /\ Exit!ToSet(t) = Exit!ToSet(s)
         /\ \A m, n \in DOMAIN t : m < n =>
              \E i, j \in DOMAIN s : t[m] = s[i] /\ t[n] = s[j] /\ Exit!Before(s, i, j)
  <1> DEFINE D == DOMAIN s
             place == [j \in D |-> Exit!Place(s, j)]
             index == [n \in D |-> CHOOSE j \in D : Exit!Place(s, j) = n]
             t == Exit!ByPriority(s)
  <1>1. D = 1 .. Len(s) /\ Len(s) \in Nat /\ \A i \in D : s[i] \in Hooks
    BY LenProperties, ElementOfSeq
  <1>2. place \in Bijection(D, D) /\ \A i, j \in D : place[i] < place[j] => Exit!Before(s, i, j)
    BY PlacesInOrder
  <1>3. /\ \A n \in D : \E j \in D : place[j] = n
        /\ \A i, j \in D : place[i] = place[j] => i = j
        /\ place \in [D -> D]
    BY <1>2 DEF Bijection, Injection, Surjection, IsInjective
  <1>4. \A n \in D : index[n] \in D /\ place[index[n]] = n
    BY <1>3
  <1>5. \A j \in D : place[j] \in D /\ index[place[j]] = j
    BY <1>3, <1>4
  <1>6. t = [n \in D |-> s[index[n]]]
    BY DEF Exit!ByPriority
  <1> HIDE DEF place, index, t
  <1>7. t \in [1 .. Len(s) -> Hooks] /\ DOMAIN t = D
    BY <1>1, <1>4, <1>6
  <1>8. t \in Seq(Hooks)
    BY <1>1, <1>7, SeqDef
  <1>9. Exit!ToSet(t) = Exit!ToSet(s)
    <2>1. \A n \in D : \E j \in D : t[n] = s[j]
      BY <1>4, <1>6
    <2>2. \A j \in D : \E n \in D : t[n] = s[j]
      BY <1>5, <1>6
    <2>3. Exit!ToSet(t) = {t[n] : n \in D} /\ Exit!ToSet(s) = {s[j] : j \in D}
      BY <1>7 DEF Exit!ToSet
    <2> QED
      BY <2>1, <2>2, <2>3
  <1>10. ASSUME NEW m \in D, NEW n \in D, m < n
         PROVE  \E i, j \in D : t[m] = s[i] /\ t[n] = s[j] /\ Exit!Before(s, i, j)
    <2>1. Exit!Before(s, index[m], index[n])
      BY <1>2, <1>4, <1>10
    <2> QED
      BY <1>4, <1>6, <2>1
  <1> QED
    BY <1>7, <1>8, <1>9, <1>10 DEF t

ExitTypeOK ==
  /\ shutdownTasks \in Seq(Hooks) /\ tasks \in Seq(Hooks) /\ ran \in Seq(Hooks) /\ added \in Seq(Hooks)
  /\ Exit!ToSet(ran) \subseteq Hooks \ Nil
  /\ calling \in [Exits -> {"idle", "take", "run", "wait", "return", "over"}]
  /\ once \in {"new", "running", "done"} /\ exited \in BOOLEAN

\* One caller at most is in the function, and others return only once it has.
OneRunner ==
  /\ once = "running" <=> \E c \in Exits : calling[c] \in {"take", "run"}
  /\ \A c, d \in Exits : calling[c] \in {"take", "run"} /\ calling[d] \in {"take", "run"} => c = d
  /\ \A c \in Exits : calling[c] \in {"return", "over"} => once = "done"

\* Until the runner takes the hooks all are in the registry; after it each is there, in the
\* runner's list, or has run.
NoneForgotten ==
  /\ once = "new" \/ (\E c \in Exits : calling[c] = "take") => shutdownTasks = added /\ tasks = << >> /\ ran = << >>
  /\ \A h \in Hooks \ Nil : h \in Exit!ToSet(added) =>
       h \in Exit!ToSet(ran) \/ h \in Exit!ToSet(tasks) \/ h \in Exit!ToSet(shutdownTasks)
  /\ once = "done" => tasks = << >>

\* What has run, and then what is left to run, is in order.
ListsInOrder ==
  /\ \A m, n \in DOMAIN ran : m < n => Exit!Precedes(ran[m], ran[n])
  /\ \A m, n \in DOMAIN tasks : m < n => Exit!Precedes(tasks[m], tasks[n])
  /\ \A m \in DOMAIN ran, n \in DOMAIN tasks : Exit!Precedes(ran[m], tasks[n])

ExitInv == ExitTypeOK /\ OneRunner /\ NoneForgotten /\ ListsInOrder

LEMMA ExitSets ==
  /\ Exit!ToSet(<< >>) = {}
  /\ \A s \in Seq(Hooks), h \in Hooks : Exit!ToSet(Append(s, h)) = Exit!ToSet(s) \union {h}
  /\ \A s \in Seq(Hooks) : s # << >> => Exit!ToSet(s) = Exit!ToSet(Tail(s)) \union {Head(s)}
  <1>1. Exit!ToSet(<< >>) = {}
    BY DEF Exit!ToSet
  <1>2. ASSUME NEW s \in Seq(Hooks), NEW h \in Hooks
        PROVE  Exit!ToSet(Append(s, h)) = Exit!ToSet(s) \union {h}
    <2> DEFINE t == Append(s, h)
    <2>1. /\ Len(s) \in Nat /\ DOMAIN s = 1 .. Len(s) /\ DOMAIN t = 1 .. Len(s) + 1
          /\ \A i \in 1 .. Len(s) : t[i] = s[i]
          /\ t[Len(s) + 1] = h
      BY AppendProperties, LenProperties
    <2> HIDE DEF t
    <2>2. \A i : i \in 1 .. Len(s) + 1 <=> i \in 1 .. Len(s) \/ i = Len(s) + 1
      BY <2>1
    <2>3. {t[i] : i \in DOMAIN t} = {s[i] : i \in DOMAIN s} \union {h}
      BY <2>1, <2>2
    <2> QED
      BY <2>3 DEF Exit!ToSet, t
  <1>3. ASSUME NEW s \in Seq(Hooks), s # << >>
        PROVE  Exit!ToSet(s) = Exit!ToSet(Tail(s)) \union {Head(s)}
    <2> DEFINE t == Tail(s)
    <2>1. /\ Len(s) \in Nat /\ Len(s) > 0 /\ DOMAIN s = 1 .. Len(s) /\ DOMAIN t = 1 .. Len(s) - 1
          /\ \A i \in 1 .. Len(s) - 1 : t[i] = s[i + 1]
          /\ Head(s) = s[1]
      BY <1>3, HeadTailProperties, LenProperties, EmptySeq
    <2> HIDE DEF t
    <2>2. ASSUME NEW i \in 1 .. Len(s), i # 1
          PROVE  \E k \in 1 .. Len(s) - 1 : s[i] = t[k]
      <3>1. i - 1 \in 1 .. Len(s) - 1 /\ (i - 1) + 1 = i
        BY <2>1, <2>2
      <3>2. s[i] = t[i - 1]
        BY <2>1, <3>1
      <3> QED
        BY <3>1, <3>2
    <2>3. \A k \in 1 .. Len(s) - 1 : k + 1 \in 1 .. Len(s) /\ t[k] = s[k + 1]
      BY <2>1
    <2>4. 1 \in 1 .. Len(s)
      BY <2>1
    <2>5. {s[i] : i \in 1 .. Len(s)} = {t[i] : i \in 1 .. Len(s) - 1} \union {s[1]}
      <3>1. \A i \in 1 .. Len(s) : s[i] \in {t[k] : k \in 1 .. Len(s) - 1} \union {s[1]}
        BY <2>2
      <3>2. \A k \in 1 .. Len(s) - 1 : t[k] \in {s[i] : i \in 1 .. Len(s)}
        BY <2>3
      <3> QED
        BY <2>4, <3>1, <3>2
    <2> QED
      BY <2>1, <2>5 DEF Exit!ToSet, t
  <1> QED
    BY <1>1, <1>2, <1>3

LEMMA ExitInit == Exit!Init => ExitInv
  <1> SUFFICES ASSUME Exit!Init PROVE ExitInv
    OBVIOUS
  <1> USE ExitSets, EmptySeq DEF Exit!Init
  <1>1. ExitTypeOK
    BY DEF ExitTypeOK
  <1>2. OneRunner
    BY DEF OneRunner
  <1>3. NoneForgotten
    BY DEF NoneForgotten
  <1>4. ListsInOrder
    BY DEF ListsInOrder
  <1> QED
    BY <1>1, <1>2, <1>3, <1>4 DEF ExitInv

\* What is in order stays so when another hook is added.
LEMMA PrecedesKept ==
  ASSUME added \in Seq(Hooks), NEW h \in Hooks, added' = Append(added, h)
  PROVE  \A f, g : Exit!Precedes(f, g) => Exit!Precedes(f, g)'
  <1>1. /\ Len(added) \in Nat /\ DOMAIN added = 1 .. Len(added) /\ DOMAIN added' = 1 .. Len(added) + 1
        /\ \A i \in DOMAIN added : i \in DOMAIN added' /\ added'[i] = added[i]
    BY AppendProperties, LenProperties
  <1> QED
    BY <1>1 DEF Exit!Precedes

LEMMA ExitStep == ExitInv /\ [Exit!Next]_exit => ExitInv'
  <1> SUFFICES ASSUME ExitInv, [Exit!Next]_exit PROVE ExitInv'
    OBVIOUS
  <1> USE DEF ExitInv, Exit!Goto
  <1>1. CASE UNCHANGED exit
    BY <1>1 DEF exit, ExitTypeOK, OneRunner, NoneForgotten, ListsInOrder, Exit!Precedes, Exit!ToSet
  <1>2. ASSUME NEW h \in Hooks, Exit!AddHook(h)
        PROVE  ExitInv'
    <2> USE <1>2 DEF Exit!AddHook
    <2>1. ExitTypeOK'
      BY AppendProperties DEF ExitTypeOK, Exit!ToSet
    <2>2. OneRunner'
      BY DEF OneRunner
    <2>3. NoneForgotten'
      <3>1. Exit!ToSet(added') = Exit!ToSet(added) \union {h}
        BY ExitSets DEF ExitTypeOK
      <3>2. Exit!ToSet(shutdownTasks') = Exit!ToSet(shutdownTasks) \union {h}
        BY ExitSets DEF ExitTypeOK
      <3> QED
        BY <3>1, <3>2 DEF NoneForgotten
    <2>4. ListsInOrder'
      <3>1. \A f, g : Exit!Precedes(f, g) => Exit!Precedes(f, g)'
        BY PrecedesKept DEF ExitTypeOK
      <3> QED
        BY <3>1 DEF ListsInOrder
    <2> QED
      BY <2>1, <2>2, <2>3, <2>4
  <1> SUFFICES ASSUME NEW c \in Exits,
                      \/ Exit!Call(c) \/ Exit!TakeTasks(c) \/ Exit!RunHook(c) \/ Exit!Done(c) \/ Exit!Waited(c) \/ Exit!Return(c)
               PROVE  ExitInv'
    BY <1>1, <1>2 DEF Exit!Next
  <1>3. CASE Exit!Call(c) \/ Exit!Waited(c) \/ Exit!Return(c)
    <2> USE <1>3 DEF Exit!Call, Exit!Waited, Exit!Return
    <2>1. ExitTypeOK'
      <3>1. exited' \in BOOLEAN
        <4>1. CASE Exit!Return(c)
          <5>1. exited' = (c \in Exiting)
            BY <4>1
          <5> QED
            BY ONLY <5>1, SMT
        <4>2. CASE Exit!Call(c) \/ Exit!Waited(c)
          BY <4>2 DEF ExitTypeOK
        <4> QED
          BY <4>1, <4>2
      <3>2. /\ calling' \in [Exits -> {"idle", "take", "run", "wait", "return", "over"}]
            /\ once' \in {"new", "running", "done"}
        BY DEF ExitTypeOK
      <3> QED
        BY <3>1, <3>2 DEF ExitTypeOK
    <2>2. OneRunner'
      BY DEF ExitTypeOK, OneRunner
    <2>3. NoneForgotten'
      BY DEF ExitTypeOK, OneRunner, NoneForgotten
    <2>4. ListsInOrder'
      BY DEF ListsInOrder, Exit!Precedes
    <2> QED
      BY <2>1, <2>2, <2>3, <2>4
  <1>4. CASE Exit!TakeTasks(c)
    <2> USE <1>4 DEF Exit!TakeTasks
    <2> DEFINE t == Exit!ByPriority(added)
    <2>1. shutdownTasks = added /\ tasks = << >> /\ ran = << >> /\ tasks' = t /\ shutdownTasks' = << >>
      BY DEF NoneForgotten
    <2>2. /\ t \in Seq(Hooks) /\ Exit!ToSet(t) = Exit!ToSet(added)
          /\ \A m, n \in DOMAIN t : m < n =>
               \E i, j \in DOMAIN added : t[m] = added[i] /\ t[n] = added[j] /\ Exit!Before(added, i, j)
      BY Sorted DEF ExitTypeOK
    <2> HIDE DEF t
    <2>3. ExitTypeOK'
      BY <2>1, <2>2, EmptySeq DEF ExitTypeOK
    <2>4. OneRunner'
      BY DEF ExitTypeOK, OneRunner
    <2>5. NoneForgotten'
      BY <2>1, <2>2 DEF ExitTypeOK, OneRunner, NoneForgotten
    <2>6. ListsInOrder'
      <3>1. \A m, n \in DOMAIN t : m < n => Exit!Precedes(t[m], t[n])
        BY <2>2 DEF Exit!Before, Exit!Precedes
      <3>2. \A f, g : Exit!Precedes(f, g)' <=> Exit!Precedes(f, g)
        BY DEF Exit!Precedes
      <3>3. DOMAIN ran' = {}
        BY <2>1
      <3> QED
        BY <2>1, <3>1, <3>2, <3>3 DEF ListsInOrder
    <2> QED
      BY <2>3, <2>4, <2>5, <2>6
  <1>5. CASE Exit!RunHook(c)
    <2> USE <1>5 DEF Exit!RunHook
    <2> DEFINE h == Head(tasks)
    <2>1. /\ tasks \in Seq(Hooks) /\ tasks # << >> /\ h \in Hooks /\ tasks' = Tail(tasks) /\ tasks' \in Seq(Hooks)
          /\ Len(tasks) \in Nat /\ DOMAIN tasks = 1 .. Len(tasks) /\ DOMAIN tasks' = 1 .. Len(tasks) - 1
          /\ \A i \in DOMAIN tasks' : i + 1 \in DOMAIN tasks /\ tasks'[i] = tasks[i + 1]
          /\ 1 \in DOMAIN tasks /\ h = tasks[1]
      BY HeadTailProperties, LenProperties, EmptySeq DEF ExitTypeOK
    <2>2. Exit!ToSet(tasks) = Exit!ToSet(tasks') \union {h}
      BY <2>1, ExitSets
    <2> HIDE DEF h
    <2>3. Exit!ToSet(ran') = IF h \in Nil THEN Exit!ToSet(ran) ELSE Exit!ToSet(ran) \union {h}
      BY <2>1, ExitSets DEF ExitTypeOK, h
    <2>4. ExitTypeOK'
      BY <2>1, <2>3, AppendProperties DEF ExitTypeOK, h
    <2>5. OneRunner'
      BY DEF OneRunner
    <2>6. NoneForgotten'
      BY <2>2, <2>3 DEF NoneForgotten, OneRunner, ExitTypeOK
    <2>7. ListsInOrder'
      <3>1. \A f, g : Exit!Precedes(f, g)' <=> Exit!Precedes(f, g)
        BY DEF Exit!Precedes
      <3>2. \A m, n \in DOMAIN tasks' : m < n => Exit!Precedes(tasks'[m], tasks'[n])
        BY <2>1 DEF ListsInOrder
      <3>3. CASE h \in Nil
        BY <2>1, <3>1, <3>2, <3>3 DEF ListsInOrder, h
      <3>4. CASE h \notin Nil
        <4>1. /\ Len(ran) \in Nat /\ DOMAIN ran = 1 .. Len(ran) /\ DOMAIN ran' = 1 .. Len(ran) + 1
              /\ \A i \in DOMAIN ran : ran'[i] = ran[i]
              /\ ran'[Len(ran) + 1] = h
          BY <2>1, <3>4, AppendProperties, LenProperties DEF ExitTypeOK, h
        <4>2. \A m, n \in DOMAIN ran' : m < n => m \in DOMAIN ran /\ (n \in DOMAIN ran \/ n = Len(ran) + 1)
          BY <4>1
        <4>3. \A m, n \in DOMAIN ran' : m < n => Exit!Precedes(ran'[m], ran'[n])
          BY <2>1, <4>1, <4>2 DEF ListsInOrder
        <4>4. \A n \in DOMAIN tasks' : 1 < n + 1 /\ Exit!Precedes(h, tasks'[n])
          BY <2>1 DEF ListsInOrder
        <4>5. \A m \in DOMAIN ran' : m \in DOMAIN ran \/ m = Len(ran) + 1
          BY <4>1
        <4>6. \A m \in DOMAIN ran', n \in DOMAIN tasks' : Exit!Precedes(ran'[m], tasks'[n])
          BY <2>1, <4>1, <4>4, <4>5 DEF ListsInOrder
        <4> QED
          BY <3>1, <3>2, <4>3, <4>6 DEF ListsInOrder
      <3> QED
        BY <3>3, <3>4
    <2> QED
      BY <2>4, <2>5, <2>6, <2>7
  <1>6. CASE Exit!Done(c)
    <2> USE <1>6 DEF Exit!Done
    <2>1. ExitTypeOK'
      BY DEF ExitTypeOK
    <2>2. OneRunner'
      BY DEF ExitTypeOK, OneRunner
    <2>3. NoneForgotten'
      BY DEF ExitTypeOK, OneRunner, NoneForgotten
    <2>4. ListsInOrder'
      BY DEF ListsInOrder, Exit!Precedes
    <2> QED
      BY <2>1, <2>2, <2>3, <2>4
  <1> QED
    BY <1>3, <1>4, <1>5, <1>6

\* Shutdown and ShutdownAndExit: with any hooks and callers, no call returns and the process
\* does not exit before every hook there was has run, and they run in order of priority,
\* hooks of one priority as they were added.
THEOREM HooksRun == Exit!Spec => []HooksRunFirst
  <1>1. ExitInv /\ [Exit!Next]_(Exit!vars) => ExitInv'
    BY ExitStep DEF Exit!vars, exit
  <1>2. ExitInv => HooksRunFirst
    <2> SUFFICES ASSUME ExitInv PROVE HooksRunFirst
      OBVIOUS
    <2> USE DEF ExitInv
    <2>1. Exit!TypeOK
      <3>1. \A s \in Seq(Hooks) : Exit!ToSet(s) \subseteq Hooks
        BY ElementOfSeq, LenProperties DEF Exit!ToSet
      <3> QED
        BY <3>1 DEF ExitTypeOK, OneRunner, Exit!TypeOK
    <2>2. Exit!HooksRunFirst
      BY <2>1, ExitSets DEF OneRunner, NoneForgotten, Exit!HooksRunFirst, Exit!TypeOK
    <2>3. Exit!RunInOrder
      BY DEF ListsInOrder, Exit!RunInOrder
    <2> QED
      BY <2>1, <2>2, <2>3 DEF HooksRunFirst
  <1> QED
    BY ExitInit, <1>1, <1>2, PTL DEF Exit!Spec
-----------------------------------------------------------------------------
(* Migrations.                                                             *)

Scripts == Migration!Scripts

LEMMA MigrationTypes ==
  /\ DependsOn \in [Scripts -> SUBSET Scripts] /\ Drops \in [Scripts -> SUBSET Scripts] /\ MaxVersion \in Nat \ {0} /\ MaxAborts \in Nat
  /\ \A s \in Scripts : \A d \in DependsOn[s] : Migration!Before(d, s)
  /\ Order \in Seq(Scripts) /\ DOMAIN Order = 1 .. Len(Order) /\ Len(Order) \in Nat
  <1>1. Migration!MigrateAssumption
    BY ProcessAssumption DEF ProcessAssumption
  <1> QED
    BY <1>1, LenProperties DEF Migration!MigrateAssumption, Scripts

LEMMA ScriptsAre == Scripts = {Order[i] : i \in DOMAIN Order}
  BY DEF Scripts, Migration!Scripts, Migration!ToSet

\* No script is before itself or a script that is before it.
LEMMA BeforeOrders ==
  ASSUME NEW s, NEW t, Migration!Before(s, t)
  PROVE  ~Migration!Before(t, s)
  <1>1. PICK i \in DOMAIN Order, j \in DOMAIN Order : i < j /\ Order[i] = s /\ Order[j] = t
    BY DEF Migration!Before
  <1>2. \A a, b \in DOMAIN Order : Order[a] = Order[b] => a = b
    BY ProcessAssumption DEF ProcessAssumption, Migration!MigrateAssumption, Migration!IsInjective
  <1> QED
    BY <1>1, <1>2, MigrationTypes DEF Migration!Before

\* What is to be run has a first script.
LEMMA FirstIsThere ==
  ASSUME NEW S \in SUBSET Scripts, S # {}
  PROVE  Migration!First(S) \in S /\ \A t \in S : ~Migration!Before(t, Migration!First(S))
  <1> DEFINE D == DOMAIN Order
             upTo(i) == 1 .. i
             places == {i \in D : Order[i] \in S}
             T == {1 .. i : i \in places}
  <1>1. D = 1 .. Len(Order) /\ Len(Order) \in Nat /\ IsFiniteSet(D)
    BY MigrationTypes, FS_Interval
  <1>2. T \subseteq FiniteSubsetsOf(D) /\ T # {}
    <2>1. \A i \in D : 1 .. i \in SUBSET D /\ IsFiniteSet(1 .. i)
      BY <1>1, FS_Subset
    <2>2. places # {}
      BY ScriptsAre
    <2> QED
      BY <2>1, <2>2 DEF FiniteSubsetsOf
  <1>3. IsWellFoundedOn(StrictSubsetOrdering(D), FiniteSubsetsOf(D))
    BY FS_StrictSubsetOrderingWellFounded
  <1> HIDE DEF T
  <1>4. PICK x \in T : \A y \in T : <<y, x>> \notin StrictSubsetOrdering(D)
    BY <1>2, <1>3, WFMin
  <1>5. PICK i \in places : x = 1 .. i
    BY <1>4 DEF T
  <1>6. ASSUME NEW k \in places, k < i
        PROVE  FALSE
    <2>1. 1 .. k \in T /\ 1 .. i \in T
      BY DEF T
    <2>2. 1 .. k \subseteq 1 .. i /\ 1 .. k # 1 .. i /\ 1 .. k \in SUBSET D /\ 1 .. i \in SUBSET D
      BY <1>1, <1>6
    <2>3. <<1 .. k, 1 .. i>> \in StrictSubsetOrdering(D)
      BY <2>2 DEF StrictSubsetOrdering
    <2> QED
      BY <1>4, <1>5, <2>1, <2>3
  <1>7. Order[i] \in S /\ \A t \in S : ~Migration!Before(t, Order[i])
    <2>1. \A a, b \in D : Order[a] = Order[b] => a = b
      BY ProcessAssumption DEF ProcessAssumption, Migration!MigrateAssumption, Migration!IsInjective
    <2> QED
      BY <1>1, <1>6, <2>1 DEF Migration!Before
  <1> QED
    BY <1>7 DEF Migration!First

Excluded == UNION {Migration!Dependents(s) : s \in Skip \ Always}
Logging(r, s) == migrating[r] = "logging" /\ Migration!First(todo[r]) = s

\* The log is never ahead of the release, and what it lets pass has been run.
LogsFollow == \A s \in Scripts : log[s] <= content[s] /\ (log[s] = content[s] => applied[s] = content[s])

\* A replica that migrates has each script that is not skipped still to run, or finds it as
\* it is in its release; and the script that it logs it has run.
NoneLeftOut ==
  \A r \in Replicas :
    /\ migrating[r] \in {"running", "logging", "migrated"} =>
         \A s \in Scripts \ Skip : s \in todo[r] \/ applied[s] = content[s]
    /\ \A s \in Scripts : Logging(r, s) => applied[s] = content[s]

\* With a script that has changed it has those to run that depend on it.
DependentsQueued ==
  \A r \in Replicas : \A s \in todo[r] :
    applied[s] # content[s] /\ s \notin Skip \ Always => Migration!Dependents(s) \subseteq todo[r]

\* A script that is behind is still to be run by a replica, if none has died.
BehindQueued ==
  aborts = 0 => \A d \in behind \ Excluded : \E r \in Replicas : d \in todo[r] /\ ~Logging(r, d)

\* A script that depends on none is run because it was selected itself, so those that
\* depend on it are run after it.
RootsQueued ==
  \A r \in Replicas : \A s \in todo[r] : DependsOn[s] = {} => Migration!Dependents(s) \subseteq todo[r]

\* A script that has lost its objects and is not exposed is still to be run by a replica,
\* if none has died.
LostQueued ==
  aborts = 0 => \A d \in lost \ Migration!Exposed : \E r \in Replicas : d \in todo[r] /\ ~Logging(r, d)

MigrationInv ==
  Migration!TypeOK /\ LogsFollow /\ NoneLeftOut /\ DependentsQueued /\ BehindQueued /\ RootsQueued /\ LostQueued

LEMMA DependentsLater ==
  ASSUME NEW s \in Scripts, NEW d \in Migration!Dependents(s)
  PROVE  d \in Scripts /\ d # s /\ Migration!Before(s, d)
  <1>1. d \in Scripts /\ Migration!Before(s, d)
    BY MigrationTypes DEF Migration!Dependents, Scripts
  <1> QED
    BY <1>1, BeforeOrders

LEMMA MigrationInit == Migration!Init => MigrationInv
  <1> SUFFICES ASSUME Migration!Init PROVE MigrationInv
    OBVIOUS
  <1> USE DEF Migration!Init
  <1>1. Migration!TypeOK
    <2>1. content \in [Scripts -> 1 .. MaxVersion] /\ applied \in [Scripts -> 0 .. MaxVersion] /\ log \in [Scripts -> 0 .. MaxVersion]
      BY MigrationTypes DEF Scripts
    <2>2. /\ migrating \in [Replicas -> {"off", "running", "logging", "migrated"}]
          /\ todo \in [Replicas -> SUBSET Scripts] /\ aborts \in 0 .. MaxAborts
      BY MigrationTypes
    <2> QED
      BY <2>1, <2>2 DEF Migration!TypeOK, Scripts
  <1>2. LogsFollow /\ NoneLeftOut /\ DependentsQueued /\ BehindQueued
    BY DEF LogsFollow, NoneLeftOut, DependentsQueued, BehindQueued, Logging, Scripts
  <1>3. RootsQueued /\ LostQueued
    BY DEF RootsQueued, LostQueued
  <1> QED
    BY <1>1, <1>2, <1>3 DEF MigrationInv

LEMMA MigrationStep == MigrationInv /\ [Migration!Next]_migration => MigrationInv'
  <1> SUFFICES ASSUME MigrationInv, [Migration!Next]_migration PROVE MigrationInv'
    OBVIOUS
  <1> USE MigrationTypes DEF MigrationInv, Migration!Goto
  <1>0. /\ content \in [Scripts -> 1 .. MaxVersion]
        /\ applied \in [Scripts -> 0 .. MaxVersion] /\ log \in [Scripts -> 0 .. MaxVersion]
        /\ behind \subseteq Scripts /\ lost \subseteq Scripts
        /\ migrating \in [Replicas -> {"off", "running", "logging", "migrated"}]
        /\ todo \in [Replicas -> SUBSET Scripts]
        /\ \A r \in Replicas : migrating[r] \in {"off", "migrated"} => todo[r] = {}
        /\ \A r \in Replicas : migrating[r] = "logging" => todo[r] # {}
        /\ aborts \in 0 .. MaxAborts
    BY DEF Migration!TypeOK, Scripts
  <1>1. CASE UNCHANGED migration
    <2>1. Migration!TypeOK' /\ LogsFollow' /\ NoneLeftOut' /\ DependentsQueued' /\ BehindQueued'
      BY <1>1 DEF migration, Migration!TypeOK, LogsFollow, NoneLeftOut, DependentsQueued, BehindQueued, Logging
    <2>2. RootsQueued' /\ LostQueued'
      BY <1>1 DEF migration, RootsQueued, LostQueued, Logging, Migration!Exposed, Migration!Dependents
    <2> QED
      BY <2>1, <2>2
  <1>2. ASSUME NEW s \in Scripts, Migration!Release(s)
        PROVE  MigrationInv'
    <2> USE <1>0, <1>2 DEF Migration!Release
    <2>1. \A r \in Replicas : migrating'[r] = "off" /\ todo'[r] = {} /\ todo[r] = {}
      OBVIOUS
    <2>2. Migration!TypeOK'
      <3>1. content' \in [Scripts -> 1 .. MaxVersion]
        OBVIOUS
      <3> QED
        BY <2>1, <3>1 DEF Migration!TypeOK, Scripts
    <2>3. LogsFollow'
      BY DEF LogsFollow
    <2>4. NoneLeftOut'
      BY <2>1 DEF NoneLeftOut, Logging
    <2>5. DependentsQueued'
      BY <2>1 DEF DependentsQueued
    <2>6. BehindQueued'
      BY <2>1 DEF BehindQueued
    <2>7. RootsQueued' /\ LostQueued'
      BY <2>1 DEF RootsQueued, LostQueued, Migration!Exposed
    <2> QED
      BY <2>2, <2>3, <2>4, <2>5, <2>6, <2>7
  <1> SUFFICES ASSUME NEW r \in Replicas,
                      \/ Migration!ReadLogs(r) \/ Migration!Exec(r) \/ Migration!SaveLog(r)
                      \/ Migration!Finish(r) \/ Migration!Abort(r)
               PROVE  MigrationInv'
    BY <1>1, <1>2 DEF Migration!Next, Scripts
  <1> DEFINE s == Migration!First(todo[r])
  <1>3. todo[r] # {} => s \in todo[r] /\ s \in Scripts /\ \A t \in todo[r] : ~Migration!Before(t, s)
    <2>1. todo[r] \in SUBSET Scripts
      BY <1>0
    <2> QED
      BY <2>1, FirstIsThere
  <1> HIDE DEF s
  <1>4. CASE Migration!ReadLogs(r)
    <2> USE <1>0, <1>4 DEF Migration!ReadLogs
    <2>1. /\ todo[r] = {} /\ todo'[r] = Migration!Executable /\ migrating'[r] = "running"
          /\ \A q \in Replicas : q # r => todo'[q] = todo[q] /\ migrating'[q] = migrating[q]
      OBVIOUS
    <2>2. Migration!Executable \subseteq Scripts
      BY DEF Migration!Executable, Migration!Dependents, Scripts
    <2>3. Migration!TypeOK'
      BY <2>2 DEF Migration!TypeOK, Scripts
    <2>4. LogsFollow'
      BY DEF LogsFollow
    <2>5. NoneLeftOut'
      <3>1. \A t \in Scripts \ Skip : t \in Migration!Executable \/ applied[t] = content[t]
        BY DEF Migration!Executable, LogsFollow, Scripts
      <3> QED
        BY <2>1, <3>1 DEF NoneLeftOut, Logging
    <2>6. DependentsQueued'
      <3>1. ASSUME NEW t \in Migration!Executable, applied[t] # content[t], t \notin Skip \ Always
            PROVE  Migration!Dependents(t) \subseteq Migration!Executable
        <4>1. t \in Scripts /\ log[t] # content[t]
          BY <2>2, <3>1 DEF LogsFollow
        <4> QED
          BY <3>1, <4>1 DEF Migration!Executable, Scripts
      <3> QED
        BY <2>1, <3>1 DEF DependentsQueued
    <2>7. BehindQueued'
      BY <2>1 DEF BehindQueued, Logging
    <2>8. RootsQueued'
      <3>1. ASSUME NEW t \in Migration!Executable, DependsOn[t] = {}
            PROVE  Migration!Dependents(t) \subseteq Migration!Executable
        BY <3>1 DEF Migration!Executable, Migration!Dependents
      <3> QED
        BY <2>1, <3>1 DEF RootsQueued, Migration!Dependents
    <2>9. LostQueued'
      BY <2>1 DEF LostQueued, Logging, Migration!Exposed, Migration!Dependents
    <2> QED
      BY <2>3, <2>4, <2>5, <2>6, <2>7, <2>8, <2>9
  <1>5. CASE Migration!Exec(r)
    <2> USE <1>0, <1>5 DEF Migration!Exec
    <2>1. /\ s \in todo[r] /\ s \in Scripts /\ migrating[r] = "running" /\ migrating'[r] = "logging" /\ todo' = todo
          /\ applied' = [applied EXCEPT ![s] = content[s]] /\ UNCHANGED <<content, log, aborts>>
          /\ behind' = (behind \ {s}) \union (IF applied[s] # content[s] THEN Migration!Dependents(s) ELSE {})
          /\ lost' = (lost \ {s}) \union Drops[s]
          /\ \A q \in Replicas : q # r => migrating'[q] = migrating[q]
      BY <1>3 DEF s
    <2>2. applied'[s] = content[s] /\ \A t \in Scripts : t # s => applied'[t] = applied[t]
      BY <2>1
    <2>3. Migration!TypeOK'
      <3>1. applied' \in [Scripts -> 0 .. MaxVersion]
        <4>1. content[s] \in 0 .. MaxVersion
          BY <2>1
        <4> QED
          BY <2>1, <4>1
      <3>2. behind' \subseteq Scripts /\ lost' \subseteq Scripts
        BY <2>1 DEF Migration!Dependents, Scripts
      <3> QED
        BY <2>1, <3>1, <3>2 DEF Migration!TypeOK, Scripts
    <2>4. LogsFollow'
      BY <2>1, <2>2 DEF LogsFollow
    <2>5. NoneLeftOut'
      <3>1. \A t \in Scripts : Logging(r, t)' <=> t = s
        BY <2>1 DEF Logging, s
      <3>2. \A q \in Replicas, t \in Scripts : q # r => (Logging(q, t)' <=> Logging(q, t))
        BY <2>1 DEF Logging
      <3> QED
        BY <2>1, <2>2, <3>1, <3>2 DEF NoneLeftOut
    <2>6. DependentsQueued'
      BY <2>1, <2>2 DEF DependentsQueued
    <2>7. BehindQueued'
      <3> SUFFICES ASSUME aborts = 0, NEW d \in behind', d \notin Excluded
                   PROVE  \E q \in Replicas : d \in todo[q] /\ ~Logging(q, d)'
        BY <2>1 DEF BehindQueued, Excluded
      <3>1. CASE d \in behind /\ d # s
        <4>1. PICK q \in Replicas : d \in todo[q] /\ ~Logging(q, d)
          BY <3>1 DEF BehindQueued
        <4>2. CASE q = r
          BY <2>1, <3>1, <4>1, <4>2 DEF Logging, s
        <4>3. CASE q # r
          BY <2>1, <4>1, <4>3 DEF Logging
        <4> QED
          BY <4>2, <4>3
      <3>2. CASE applied[s] # content[s] /\ d \in Migration!Dependents(s)
        <4>1. s \notin Skip \ Always
          BY <3>2 DEF Excluded
        <4>2. d \in todo[r]
          BY <2>1, <3>2, <4>1 DEF DependentsQueued
        <4>3. d # s
          BY <2>1, <3>2, DependentsLater
        <4> QED
          BY <2>1, <4>2, <4>3 DEF Logging, s
      <3> QED
        BY <2>1, <3>1, <3>2
    <2>8. RootsQueued'
      BY <2>1 DEF RootsQueued, Migration!Dependents
    <2>9. LostQueued'
      <3> SUFFICES ASSUME aborts = 0, NEW d \in lost', d \notin Migration!Exposed
                   PROVE  \E q \in Replicas : d \in todo[q] /\ ~Logging(q, d)'
        BY <2>1 DEF LostQueued, Migration!Exposed, Migration!Dependents
      <3>1. CASE d \in lost /\ d # s
        <4>1. PICK q \in Replicas : d \in todo[q] /\ ~Logging(q, d)
          BY <3>1 DEF LostQueued
        <4>2. CASE q = r
          BY <2>1, <3>1, <4>1, <4>2 DEF Logging, s
        <4>3. CASE q # r
          BY <2>1, <4>1, <4>3 DEF Logging
        <4> QED
          BY <4>2, <4>3
      <3>2. CASE d \in Drops[s]
        <4>1. d \in Scripts /\ d \in Migration!Dependents(s) /\ DependsOn[s] = {}
          BY <2>1, <3>2 DEF Migration!Exposed, Scripts
        <4>2. d \in todo[r] /\ d # s
          BY <2>1, <4>1, DependentsLater DEF RootsQueued
        <4> QED
          BY <2>1, <4>2 DEF Logging, s
      <3> QED
        BY <2>1, <3>1, <3>2
    <2> QED
      BY <2>3, <2>4, <2>5, <2>6, <2>7, <2>8, <2>9
  <1>6. CASE Migration!SaveLog(r)
    <2> USE <1>0, <1>6 DEF Migration!SaveLog
    <2>1. /\ s \in todo[r] /\ s \in Scripts /\ migrating[r] = "logging" /\ migrating'[r] = "running"
          /\ todo'[r] = todo[r] \ {s} /\ log' = [log EXCEPT ![s] = content[s]]
          /\ UNCHANGED <<content, applied, behind, lost, aborts>>
          /\ \A q \in Replicas : q # r => todo'[q] = todo[q] /\ migrating'[q] = migrating[q]
      BY <1>3 DEF s
    <2>2. applied[s] = content[s]
      BY <2>1 DEF NoneLeftOut, Logging, s
    <2>3. Migration!TypeOK'
      <3>1. log' \in [Scripts -> 0 .. MaxVersion]
        BY <2>1
      <3> QED
        BY <2>1, <3>1 DEF Migration!TypeOK, Scripts
    <2>4. LogsFollow'
      BY <2>1, <2>2 DEF LogsFollow
    <2>5. NoneLeftOut'
      BY <2>1, <2>2 DEF NoneLeftOut, Logging
    <2>6. DependentsQueued'
      <3>1. ASSUME NEW t \in todo[r], t # s, applied[t] # content[t], t \notin Skip \ Always
            PROVE  Migration!Dependents(t) \subseteq todo[r] \ {s}
        <4>1. t \in Scripts
          OBVIOUS
        <4>2. s \notin Migration!Dependents(t)
          BY <1>3, <2>1, <4>1, DependentsLater
        <4> QED
          BY <3>1, <4>2 DEF DependentsQueued
      <3> QED
        BY <2>1, <3>1 DEF DependentsQueued
    <2>7. BehindQueued'
      <3> SUFFICES ASSUME aborts = 0, NEW d \in behind, d \notin Excluded
                   PROVE  \E q \in Replicas : d \in todo'[q] /\ ~Logging(q, d)'
        BY <2>1 DEF BehindQueued, Excluded
      <3>1. PICK q \in Replicas : d \in todo[q] /\ ~Logging(q, d)
        BY DEF BehindQueued
      <3>2. CASE q = r
        BY <2>1, <3>1, <3>2 DEF Logging, s
      <3>3. CASE q # r
        BY <2>1, <3>1, <3>3 DEF Logging
      <3> QED
        BY <3>2, <3>3
    <2>8. RootsQueued'
      <3>1. ASSUME NEW t \in todo[r], t # s, DependsOn[t] = {}
            PROVE  Migration!Dependents(t) \subseteq todo[r] \ {s}
        <4>1. t \in Scripts
          OBVIOUS
        <4>2. s \notin Migration!Dependents(t)
          BY <1>3, <2>1, <4>1, DependentsLater
        <4> QED
          BY <3>1, <4>2 DEF RootsQueued
      <3> QED
        BY <2>1, <3>1 DEF RootsQueued
    <2>9. LostQueued'
      <3> SUFFICES ASSUME aborts = 0, NEW d \in lost, d \notin Migration!Exposed
                   PROVE  \E q \in Replicas : d \in todo'[q] /\ ~Logging(q, d)'
        BY <2>1 DEF LostQueued, Migration!Exposed, Migration!Dependents
      <3>1. PICK q \in Replicas : d \in todo[q] /\ ~Logging(q, d)
        BY DEF LostQueued
      <3>2. CASE q = r
        BY <2>1, <3>1, <3>2 DEF Logging, s
      <3>3. CASE q # r
        BY <2>1, <3>1, <3>3 DEF Logging
      <3> QED
        BY <3>2, <3>3
    <2> QED
      BY <2>3, <2>4, <2>5, <2>6, <2>7, <2>8, <2>9
  <1>7. CASE Migration!Finish(r) \/ Migration!Abort(r)
    <2> USE <1>0, <1>7 DEF Migration!Finish, Migration!Abort, Migration!Fault
    <2>1. /\ todo'[r] = {} /\ migrating'[r] \in {"off", "migrated"} /\ UNCHANGED <<content, applied, log, behind, lost>>
          /\ migrating'[r] = "migrated" => migrating[r] = "running" /\ todo[r] = {} /\ UNCHANGED aborts
          /\ migrating'[r] = "off" => aborts' = aborts + 1
          /\ \A q \in Replicas : q # r => todo'[q] = todo[q] /\ migrating'[q] = migrating[q]
      OBVIOUS
    <2>2. Migration!TypeOK'
      <3>1. aborts' \in 0 .. MaxAborts
        OBVIOUS
      <3>2. /\ migrating' \in [Replicas -> {"off", "running", "logging", "migrated"}]
            /\ todo' \in [Replicas -> SUBSET Scripts]
        OBVIOUS
      <3> QED
        BY <2>1, <3>1, <3>2 DEF Migration!TypeOK, Scripts
    <2>3. LogsFollow'
      BY <2>1 DEF LogsFollow
    <2>4. NoneLeftOut'
      BY <2>1 DEF NoneLeftOut, Logging
    <2>5. DependentsQueued'
      BY <2>1 DEF DependentsQueued
    <2>6. BehindQueued'
      <3>1. CASE Migration!Finish(r)
        <4>1. aborts' = aborts /\ todo[r] = {} /\ todo' = todo
          BY <3>1
        <4> QED
          BY <2>1, <4>1 DEF BehindQueued, Logging
      <3>2. CASE Migration!Abort(r)
        <4>1. aborts' # 0
          BY <3>2
        <4> QED
          BY <4>1 DEF BehindQueued
      <3> QED
        BY <1>7, <3>1, <3>2
    <2>7. RootsQueued'
      BY <2>1 DEF RootsQueued, Migration!Dependents
    <2>8. LostQueued'
      <3>1. CASE Migration!Finish(r)
        <4>1. aborts' = aborts /\ todo[r] = {} /\ todo' = todo
          BY <3>1
        <4> QED
          BY <2>1, <4>1 DEF LostQueued, Logging, Migration!Exposed, Migration!Dependents
      <3>2. CASE Migration!Abort(r)
        <4>1. aborts' # 0
          BY <3>2
        <4> QED
          BY <4>1 DEF LostQueued
      <3> QED
        BY <1>7, <3>1, <3>2
    <2> QED
      BY <2>2, <2>3, <2>4, <2>5, <2>6, <2>7, <2>8
  <1> QED
    BY <1>4, <1>5, <1>6, <1>7

\* RunMigrations: with any replicas and scripts, whatever dies and is released, what the
\* log passes over has been run and who has migrated finds its release's scripts run; and if
\* nobody died no script is older than a change of one it depends on, and only scripts that
\* are exposed to drops of others have lost what they created.
THEOREM Migrated == Migration!Spec => []MigratedAreCurrent
  <1>1. MigrationInv /\ [Migration!Next]_(Migration!vars) => MigrationInv'
    BY MigrationStep DEF Migration!vars, migration
  <1>2. MigrationInv => MigratedAreCurrent
    <2> SUFFICES ASSUME MigrationInv PROVE MigratedAreCurrent
      OBVIOUS
    <2> USE DEF MigrationInv
    <2>1. Migration!LoggedAreApplied
      BY DEF LogsFollow, Migration!LoggedAreApplied, Scripts
    <2>2. \A r \in Replicas : migrating[r] \in {"off", "migrated"} => todo[r] = {}
      BY DEF Migration!TypeOK
    <2>3. Migration!MigratedAreCurrent
      BY <2>2 DEF NoneLeftOut, Migration!MigratedAreCurrent, Scripts
    <2>4. Migration!DependentsRebuilt
      BY <2>2 DEF BehindQueued, Migration!DependentsRebuilt, Migration!Undisturbed, Excluded
    <2>5. Migration!DroppedAreRecreated
      BY <2>2 DEF LostQueued, Migration!DroppedAreRecreated, Migration!Undisturbed
    <2> QED
      BY <2>1, <2>3, <2>4, <2>5 DEF MigratedAreCurrent
  <1> QED
    BY MigrationInit, <1>1, <1>2, PTL DEF Migration!Spec

-----------------------------------------------------------------------------
(* Clients of clusters.                                                    *)

Tokens == Namespaces \X (1 .. MaxTokens)
Given == Tokens \union {Kube!None}

\* A token of the namespace that, with what is left of the time it may be kept, was
\* replaced no longer ago than the bound.
Own(token, ns) == token \in Tokens /\ token[1] = ns
Recent(token, left, bound) == left > 0 => Kube!Age(token) + left <= bound

LEMMA KubeTypes ==
  /\ ClientExpiry \in Nat /\ Buffer \in Nat /\ ReadTTL \in Nat /\ MaxTokens \in Nat
  /\ Buffer < ClientExpiry /\ MaxTokens > 0 /\ Kube!NoName \notin Namespaces /\ Kube!NoName \notin Conns
  /\ Kube!None \notin Tokens /\ Kube!LongAgo = ReadTTL + 2 * ClientExpiry + 1
  <1>1. Kube!KubeClientsAssumption
    BY ProcessAssumption DEF ProcessAssumption
  <1> QED
    BY <1>1 DEF Kube!KubeClientsAssumption, Kube!None, Kube!LongAgo, Tokens

KubeTypeOK ==
  /\ source \in [Namespaces -> [last : 1 .. MaxTokens, age : [1 .. MaxTokens -> 0 .. Kube!LongAgo]]]
  /\ read \in [Conns \X Namespaces -> [token : Given, left : 0 .. ReadTTL]]
  /\ clients \in [Kube!Hashes -> [sends : Given, token : Given, left : 0 .. ClientExpiry]]
  /\ auth \in [Kube!Hashes -> [token : Given, left : 0 .. ClientExpiry + 1]]

\* The token there is has not been replaced.
CurrentIsNew ==
  \A ns \in Namespaces, t \in 1 .. MaxTokens : t >= source[ns].last => source[ns].age[t] = 0

\* Whoever was refused asks for a client of the connection it has.
RequestsHaveClients ==
  /\ requests \in [Requests -> [hash : Kube!Hashes \union {Kube!None}, ns : Namespaces \union {Kube!NoName},
                                token : Given, renewed : BOOLEAN]]
  /\ \A r \in Requests : requests[r] # Kube!Idle =>
       \E conn \in Conns, ns \in Namespaces :
         requests[r].ns = ns /\ requests[r].hash = Kube!Hash(conn, ns)

\* What a kubeconfig of a namespace was read as, and what its client and the client's
\* authenticator have of it.
ReadsRecent ==
  \A ns \in Namespaces : "ref" \in Conns =>
    LET v == read[<<"ref", ns>>] IN
    v.left > 0 => Own(v.token, ns) /\ Recent(v.token, v.left, ReadTTL)
ClientsRecent ==
  \A ns \in Namespaces : "ref" \in Conns =>
    LET c == clients[<<"ref", ns>>] IN
    c # Kube!NoClient =>
      /\ Own(c.sends, ns) /\ Recent(c.sends, c.left, ReadTTL + ClientExpiry)
      /\ c.token \in {Kube!None, c.sends}
AuthRecent ==
  \A ns \in Namespaces : "ref" \in Conns =>
    LET a == auth[<<"ref", ns>>] IN
    a.left > 0 => Own(a.token, ns) /\ Recent(a.token, a.left, ReadTTL + 2 * ClientExpiry - Buffer)

KubeInv ==
  /\ KubeTypeOK /\ CurrentIsNew /\ RequestsHaveClients
  /\ ReadsRecent /\ ClientsRecent /\ AuthRecent
  /\ Kube!TokensAreOwnAndRecent

LEMMA Ages ==
  ASSUME KubeTypeOK, NEW token \in Tokens
  PROVE  Kube!Age(token) \in 0 .. Kube!LongAgo
  <1>1. token[1] \in Namespaces /\ token[2] \in 1 .. MaxTokens
    BY DEF Tokens
  <1>2. source[token[1]].age \in [1 .. MaxTokens -> 0 .. Kube!LongAgo]
    BY <1>1 DEF KubeTypeOK
  <1> QED
    BY <1>1, <1>2 DEF Kube!Age

LEMMA HashesAre ==
  ASSUME NEW conn \in Conns, NEW ns \in Namespaces
  PROVE  /\ Kube!Hash(conn, ns) \in Kube!Hashes /\ Kube!Hash(conn, ns)[1] = conn
         /\ conn = "ref" => Kube!Hash(conn, ns) = <<"ref", ns>>
         /\ \A n \in Namespaces : Kube!Hash(conn, ns) = <<"ref", n>> => conn = "ref" /\ n = ns
  BY DEF Kube!Hash, Kube!Hashes

LEMMA RefHashes ==
  ASSUME "ref" \in Conns, NEW ns \in Namespaces
  PROVE  <<"ref", ns>> \in Kube!Hashes /\ <<"ref", ns>> \in Conns \X Namespaces
  BY DEF Kube!Hashes

LEMMA KubeInit == Kube!Init => KubeInv
  <1> SUFFICES ASSUME Kube!Init PROVE KubeInv
    OBVIOUS
  <1> USE KubeTypes DEF Kube!Init
  <1>1. KubeTypeOK
    <2>1. source \in [Namespaces -> [last : 1 .. MaxTokens, age : [1 .. MaxTokens -> 0 .. Kube!LongAgo]]]
      <3>1. 1 \in 1 .. MaxTokens /\ 0 \in 0 .. Kube!LongAgo
        OBVIOUS
      <3> QED
        BY <3>1
    <2>2. read \in [Conns \X Namespaces -> [token : Given, left : 0 .. ReadTTL]]
      BY DEF Given
    <2>3. clients \in [Kube!Hashes -> [sends : Given, token : Given, left : 0 .. ClientExpiry]]
      BY DEF Given, Kube!NoClient
    <2>4. auth \in [Kube!Hashes -> [token : Given, left : 0 .. ClientExpiry + 1]]
      BY DEF Given, Kube!NewAuthenticator
    <2> QED
      BY <2>1, <2>2, <2>3, <2>4 DEF KubeTypeOK
  <1>2. CurrentIsNew /\ RequestsHaveClients
    <2>1. Kube!Idle \in [hash : Kube!Hashes \union {Kube!None}, ns : Namespaces \union {Kube!NoName},
                         token : Given, renewed : BOOLEAN]
      BY DEF Kube!Idle, Given
    <2> QED
      BY <2>1 DEF CurrentIsNew, RequestsHaveClients
  <1>3. ReadsRecent /\ ClientsRecent /\ AuthRecent
    BY RefHashes DEF ReadsRecent, ClientsRecent, AuthRecent, Kube!NewAuthenticator
  <1>4. Kube!TokensAreOwnAndRecent
    BY DEF Kube!TokensAreOwnAndRecent, Kube!NoToken, Kube!NoName
  <1> QED
    BY <1>1, <1>2, <1>3, <1>4 DEF KubeInv

\* Nothing is asked of a step that uses no token.
LEMMA NothingUsed ==
  ASSUME used' = Kube!NoToken
  PROVE  Kube!TokensAreOwnAndRecent'
  BY DEF Kube!TokensAreOwnAndRecent, Kube!NoToken, Kube!NoName

\* What Populate finds.
LEMMA FoundRecent ==
  ASSUME KubeInv, NEW conn \in Conns, NEW ns \in Namespaces
  PROVE  /\ Kube!Found(conn, ns) \in [token : Given, left : 0 .. ReadTTL]
         /\ conn = "ref" =>
              LET v == Kube!Found(conn, ns) IN
              Own(v.token, ns) /\ Kube!Age(v.token) + v.left <= ReadTTL
  <1> DEFINE new == [token |-> <<ns, source[ns].last>>, left |-> ReadTTL]
  <1>1. new \in [token : Given, left : 0 .. ReadTTL] /\ new.token \in Tokens
    BY KubeTypes DEF KubeInv, KubeTypeOK, Given, Tokens
  <1>2. Kube!Age(new.token) = 0
    <2>1. source[ns].last \in 1 .. MaxTokens
      BY DEF KubeInv, KubeTypeOK
    <2> QED
      BY <2>1 DEF KubeInv, CurrentIsNew, Kube!Age
  <1>3. read[<<conn, ns>>] \in [token : Given, left : 0 .. ReadTTL]
    BY DEF KubeInv, KubeTypeOK
  <1> HIDE DEF new
  <1>4. CASE read[<<conn, ns>>].left > 0
    BY <1>3, <1>4 DEF KubeInv, ReadsRecent, Recent, Kube!Found
  <1>5. CASE ~(read[<<conn, ns>>].left > 0)
    <2>1. Kube!Found(conn, ns) = new /\ new.token[1] = ns /\ new.left = ReadTTL
      BY <1>5 DEF Kube!Found, new
    <2> QED
      BY <1>1, <1>2, <2>1, KubeTypes DEF Own
  <1> QED
    BY <1>4, <1>5

\* Populate: what was found is kept by the cache and by the client of the connection.
LEMMA Filled ==
  ASSUME KubeInv, NEW conn \in Conns, NEW ns \in Namespaces, NEW new, UNCHANGED source,
         Kube!Fill(Kube!Hash(conn, ns), conn, ns, new)
  PROVE  /\ read' \in [Conns \X Namespaces -> [token : Given, left : 0 .. ReadTTL]]
         /\ clients' \in [Kube!Hashes -> [sends : Given, token : Given, left : 0 .. ClientExpiry]]
         /\ ReadsRecent' /\ ClientsRecent'
         /\ conn = "ref" =>
              LET c == clients'[<<"ref", ns>>] IN
              Own(c.sends, ns) /\ Kube!Age(c.sends) <= ReadTTL /\ (~new => c.token = c.sends)
  <1> DEFINE h == Kube!Hash(conn, ns)
             v == Kube!Found(conn, ns)
             c == [sends |-> v.token, token |-> IF new THEN Kube!None ELSE v.token, left |-> ClientExpiry]
  <1>1. /\ read' = [read EXCEPT ![<<conn, ns>>] = v] /\ clients' = [clients EXCEPT ![h] = c]
        /\ h \in Kube!Hashes /\ <<conn, ns>> \in Conns \X Namespaces
    BY HashesAre DEF Kube!Fill
  <1>2. /\ v \in [token : Given, left : 0 .. ReadTTL]
        /\ conn = "ref" => Own(v.token, ns) /\ Kube!Age(v.token) + v.left <= ReadTTL
    BY FoundRecent
  <1>3. c \in [sends : Given, token : Given, left : 0 .. ClientExpiry]
    BY <1>2, KubeTypes DEF Given
  <1>4. conn = "ref" => Kube!Age(v.token) \in Nat
    BY <1>2, Ages, KubeTypes DEF KubeInv, Own
  <1>5. \A t : Kube!Age(t)' = Kube!Age(t)
    BY DEF Kube!Age
  <1>6. c.sends = v.token /\ c.left = ClientExpiry /\ c.token \in {Kube!None, c.sends} /\ (~new => c.token = c.sends)
    OBVIOUS
  <1> HIDE DEF v, c, h
  <1>7. /\ read' \in [Conns \X Namespaces -> [token : Given, left : 0 .. ReadTTL]]
        /\ clients' \in [Kube!Hashes -> [sends : Given, token : Given, left : 0 .. ClientExpiry]]
    BY <1>1, <1>2, <1>3 DEF KubeInv, KubeTypeOK
  <1>8. read'[<<conn, ns>>] = v /\ \A k \in Conns \X Namespaces : k # <<conn, ns>> => read'[k] = read[k]
    BY <1>1 DEF KubeInv, KubeTypeOK
  <1>9. clients'[h] = c /\ \A k \in Kube!Hashes : k # h => clients'[k] = clients[k]
    BY <1>1 DEF KubeInv, KubeTypeOK
  <1>10. ReadsRecent'
    <2> SUFFICES ASSUME NEW n \in Namespaces, "ref" \in Conns, read'[<<"ref", n>>].left > 0
                 PROVE  /\ Own(read'[<<"ref", n>>].token, n)
                        /\ Kube!Age(read'[<<"ref", n>>].token) + read'[<<"ref", n>>].left <= ReadTTL
      BY <1>5 DEF ReadsRecent, Recent, Own, Tokens
    <2>1. CASE <<conn, ns>> = <<"ref", n>>
      BY <1>2, <1>8, <2>1
    <2>2. CASE <<conn, ns>> # <<"ref", n>>
      BY <1>8, <2>2, RefHashes DEF KubeInv, ReadsRecent, Recent
    <2> QED
      BY <2>1, <2>2
  <1>11. ClientsRecent'
    <2> SUFFICES ASSUME NEW n \in Namespaces, "ref" \in Conns, clients'[<<"ref", n>>] # Kube!NoClient
                 PROVE  LET d == clients'[<<"ref", n>>] IN
                        /\ Own(d.sends, n) /\ (d.left > 0 => Kube!Age(d.sends) + d.left <= ReadTTL + ClientExpiry)
                        /\ d.token \in {Kube!None, d.sends}
      BY <1>5 DEF ClientsRecent, Recent, Own, Tokens
    <2>1. CASE h = <<"ref", n>>
      <3>1. conn = "ref" /\ n = ns
        BY <2>1, HashesAre DEF h
      <3>2. Kube!Age(v.token) <= ReadTTL
        BY <1>2, <1>4, <3>1, KubeTypes
      <3> QED
        BY <1>2, <1>4, <1>6, <1>9, <2>1, <3>1, <3>2, KubeTypes
    <2>2. CASE h # <<"ref", n>>
      BY <1>9, <2>2, RefHashes DEF KubeInv, ClientsRecent, Recent
    <2> QED
      BY <2>1, <2>2
  <1>12. ASSUME conn = "ref"
         PROVE  /\ clients'[<<"ref", ns>>] = c /\ Own(c.sends, ns)
                /\ Kube!Age(c.sends) <= ReadTTL
    <2>1. h = <<"ref", ns>>
      BY <1>12, HashesAre DEF h
    <2> QED
      BY <1>2, <1>4, <1>6, <1>9, <1>12, <2>1, KubeTypes
  <1> QED
    BY <1>6, <1>7, <1>10, <1>11, <1>12

\* Refresh: a client is kept as long as it has not expired, or filled anew.
LEMMA Refreshed ==
  ASSUME KubeInv, NEW conn \in Conns, NEW ns \in Namespaces, UNCHANGED source,
         IF Kube!Keeps(Kube!Hash(conn, ns)) THEN UNCHANGED <<read, clients>>
                                            ELSE Kube!Fill(Kube!Hash(conn, ns), conn, ns, FALSE),
         conn = "ref" => clients[Kube!Hash(conn, ns)] # Kube!NoClient \/ ~Kube!Keeps(Kube!Hash(conn, ns))
  PROVE  /\ read' \in [Conns \X Namespaces -> [token : Given, left : 0 .. ReadTTL]]
         /\ clients' \in [Kube!Hashes -> [sends : Given, token : Given, left : 0 .. ClientExpiry]]
         /\ ReadsRecent' /\ ClientsRecent'
         /\ conn = "ref" =>
              LET c == clients'[<<"ref", ns>>] IN
              Own(c.sends, ns) /\ Kube!Age(c.sends) < ReadTTL + ClientExpiry - Buffer /\ c.token = c.sends
  <1>1. CASE ~Kube!Keeps(Kube!Hash(conn, ns))
    <2>1. \A t \in Tokens : Kube!Age(t) \in Nat
      BY Ages, KubeTypes DEF KubeInv
    <2>2. /\ read' \in [Conns \X Namespaces -> [token : Given, left : 0 .. ReadTTL]]
          /\ clients' \in [Kube!Hashes -> [sends : Given, token : Given, left : 0 .. ClientExpiry]]
          /\ ReadsRecent' /\ ClientsRecent'
          /\ conn = "ref" =>
               LET c == clients'[<<"ref", ns>>] IN
               Own(c.sends, ns) /\ Kube!Age(c.sends) <= ReadTTL /\ c.token = c.sends
      BY <1>1, Filled
    <2>3. ASSUME conn = "ref"
          PROVE  Kube!Age(clients'[<<"ref", ns>>].sends) < ReadTTL + ClientExpiry - Buffer
      <3> DEFINE a == Kube!Age(clients'[<<"ref", ns>>].sends)
      <3>1. a \in Nat /\ a <= ReadTTL
        BY <2>1, <2>2, <2>3 DEF Own
      <3> HIDE DEF a
      <3>2. a < ReadTTL + ClientExpiry - Buffer
        BY <3>1, KubeTypes
      <3> QED
        BY <3>2 DEF a
    <2> QED
      BY <2>2, <2>3
  <1>2. CASE Kube!Keeps(Kube!Hash(conn, ns))
    <2>1. read' = read /\ clients' = clients
      BY <1>2
    <2>2. \A t : Kube!Age(t)' = Kube!Age(t)
      BY DEF Kube!Age
    <2>3. ReadsRecent' /\ ClientsRecent'
      BY <2>1, <2>2 DEF KubeInv, ReadsRecent, ClientsRecent, Recent, Own, Tokens
    <2>4. ASSUME conn = "ref"
          PROVE  LET c == clients[<<"ref", ns>>] IN
                 Own(c.sends, ns) /\ Kube!Age(c.sends) < ReadTTL + ClientExpiry - Buffer /\ c.token = c.sends
      <3> DEFINE c == clients[<<"ref", ns>>]
      <3>1. Kube!Hash(conn, ns) = <<"ref", ns>> /\ <<"ref", ns>>[1] = "ref" /\ <<"ref", ns>> \in Kube!Hashes
        BY <2>4, HashesAre
      <3>2. c \in [sends : Given, token : Given, left : 0 .. ClientExpiry]
        BY <3>1 DEF KubeInv, KubeTypeOK
      <3>3. c.left > Buffer /\ c.token # Kube!None
        BY <1>2, <2>4, <3>1, <3>2, KubeTypes DEF Kube!Keeps, Kube!HasExpired, Kube!CanExpire
      <3>4. c # Kube!NoClient
        BY <1>2, <2>4, <3>1
      <3>5. Own(c.sends, ns) /\ Recent(c.sends, c.left, ReadTTL + ClientExpiry) /\ c.token \in {Kube!None, c.sends}
        BY <2>4, <3>4 DEF KubeInv, ClientsRecent
      <3>6. Kube!Age(c.sends) \in Nat
        BY <3>5, Ages, KubeTypes DEF KubeInv, Own
      <3> HIDE DEF c
      <3>7. Kube!Age(c.sends) + c.left <= ReadTTL + ClientExpiry
        BY <3>2, <3>3, <3>5, KubeTypes DEF Recent
      <3>8. c.left \in Nat
        BY <3>2
      <3> QED
        BY <3>3, <3>5, <3>6, <3>7, <3>8, KubeTypes DEF c
    <2> QED
      BY <2>1, <2>3, <2>4 DEF KubeInv, KubeTypeOK
  <1> QED
    BY <1>1, <1>2

\* refreshCredsLocked: with what the client has then, the authenticator goes on.
LEMMA CredsRefreshed ==
  ASSUME KubeInv, NEW conn \in Conns, NEW ns \in Namespaces, UNCHANGED source,
         Kube!RefreshCredsLocked(Kube!Hash(conn, ns), conn, ns)
  PROVE  /\ KubeTypeOK' /\ ReadsRecent' /\ ClientsRecent' /\ AuthRecent'
         /\ conn = "ref" =>
              LET t == auth'[Kube!Hash(conn, ns)].token IN
              Own(t, ns) /\ Kube!Age(t) < ReadTTL + ClientExpiry - Buffer
  <1> DEFINE h == Kube!Hash(conn, ns)
  <1>1. h \in Kube!Hashes /\ auth' = [auth EXCEPT ![h] = [token |-> clients'[h].token, left |-> ClientExpiry + 1]]
    BY HashesAre DEF Kube!RefreshCredsLocked
  <1>2. clients[h] # Kube!NoClient \/ ~Kube!Keeps(h)
    BY DEF Kube!Keeps, Kube!NoClient
  <1>3. /\ read' \in [Conns \X Namespaces -> [token : Given, left : 0 .. ReadTTL]]
        /\ clients' \in [Kube!Hashes -> [sends : Given, token : Given, left : 0 .. ClientExpiry]]
        /\ ReadsRecent' /\ ClientsRecent'
        /\ conn = "ref" =>
             LET c == clients'[<<"ref", ns>>] IN
             Own(c.sends, ns) /\ Kube!Age(c.sends) < ReadTTL + ClientExpiry - Buffer /\ c.token = c.sends
    BY <1>2, Refreshed DEF Kube!RefreshCredsLocked
  <1>4. clients'[h].token \in Given
    BY <1>1, <1>3
  <1> HIDE DEF h
  <1>5. auth' \in [Kube!Hashes -> [token : Given, left : 0 .. ClientExpiry + 1]]
    <2>1. [token |-> clients'[h].token, left |-> ClientExpiry + 1] \in [token : Given, left : 0 .. ClientExpiry + 1]
      BY <1>4, KubeTypes
    <2> QED
      BY <1>1, <2>1 DEF KubeInv, KubeTypeOK
  <1>6. KubeTypeOK'
    BY <1>3, <1>5 DEF KubeInv, KubeTypeOK
  <1>7. auth'[h] = [token |-> clients'[h].token, left |-> ClientExpiry + 1] /\ \A k \in Kube!Hashes : k # h => auth'[k] = auth[k]
    BY <1>1 DEF KubeInv, KubeTypeOK
  <1>8. \A t : Kube!Age(t)' = Kube!Age(t)
    BY DEF Kube!Age
  <1>9. ASSUME conn = "ref"
        PROVE  /\ h = <<"ref", ns>> /\ Own(auth'[h].token, ns)
               /\ Kube!Age(auth'[h].token) \in Nat /\ Kube!Age(auth'[h].token) < ReadTTL + ClientExpiry - Buffer
    <2>1. h = <<"ref", ns>>
      BY <1>9, HashesAre DEF h
    <2>2. auth'[h].token = clients'[<<"ref", ns>>].sends
      BY <1>3, <1>7, <1>9, <2>1
    <2>3. Own(auth'[h].token, ns) /\ Kube!Age(auth'[h].token) < ReadTTL + ClientExpiry - Buffer
      BY <1>3, <1>9, <2>2
    <2>4. Kube!Age(auth'[h].token) \in Nat
      BY <2>3, Ages, KubeTypes DEF KubeInv, Own
    <2> QED
      BY <2>1, <2>3, <2>4
  <1>10. AuthRecent'
    <2> SUFFICES ASSUME NEW n \in Namespaces, "ref" \in Conns, auth'[<<"ref", n>>].left > 0
                 PROVE  LET a == auth'[<<"ref", n>>] IN
                        Own(a.token, n) /\ Kube!Age(a.token) + a.left <= ReadTTL + 2 * ClientExpiry - Buffer
      BY <1>8 DEF AuthRecent, Recent, Own, Tokens
    <2>1. CASE h = <<"ref", n>>
      <3>1. conn = "ref" /\ n = ns
        BY <2>1, HashesAre DEF h
      <3>2. auth'[h].left = ClientExpiry + 1
        BY <1>7
      <3> DEFINE age == Kube!Age(auth'[h].token)
      <3>3. age \in Nat /\ age < ReadTTL + ClientExpiry - Buffer
        BY <1>9, <3>1
      <3> HIDE DEF age
      <3>4. age + (ClientExpiry + 1) <= ReadTTL + 2 * ClientExpiry - Buffer
        BY <3>3, KubeTypes
      <3> QED
        BY <1>9, <2>1, <3>1, <3>2, <3>4 DEF age
    <2>2. CASE h # <<"ref", n>>
      BY <1>7, <2>2, RefHashes DEF KubeInv, AuthRecent, Recent
    <2> QED
      BY <2>1, <2>2
  <1> QED
    BY <1>3, <1>6, <1>9, <1>10 DEF h

\* What is not changed by the clock grows no older by a step.
LEMMA KubeKept ==
  ASSUME KubeInv, UNCHANGED source
  PROVE  /\ CurrentIsNew'
         /\ read' = read => ReadsRecent'
         /\ clients' = clients => ClientsRecent'
         /\ (\A h \in Kube!Hashes : auth'[h] \in {auth[h], Kube!NewAuthenticator}) => AuthRecent'
  <1>1. \A t : Kube!Age(t)' = Kube!Age(t)
    BY DEF Kube!Age
  <1>2. CurrentIsNew'
    BY DEF KubeInv, CurrentIsNew
  <1>3. ASSUME read' = read PROVE ReadsRecent'
    BY <1>1, <1>3 DEF KubeInv, ReadsRecent, Recent, Own, Tokens
  <1>4. ASSUME clients' = clients PROVE ClientsRecent'
    BY <1>1, <1>4 DEF KubeInv, ClientsRecent, Recent, Own, Tokens
  <1>5. ASSUME \A h \in Kube!Hashes : auth'[h] \in {auth[h], Kube!NewAuthenticator}
        PROVE  AuthRecent'
    <2> SUFFICES ASSUME NEW n \in Namespaces, "ref" \in Conns, auth'[<<"ref", n>>].left > 0
                 PROVE  LET a == auth'[<<"ref", n>>] IN
                        Own(a.token, n) /\ Kube!Age(a.token) + a.left <= ReadTTL + 2 * ClientExpiry - Buffer
      BY <1>1 DEF AuthRecent, Recent, Own, Tokens
    <2>1. auth'[<<"ref", n>>] = auth[<<"ref", n>>]
      BY <1>5, RefHashes DEF Kube!NewAuthenticator
    <2> QED
      BY <2>1 DEF KubeInv, AuthRecent, Recent
  <1> QED
    BY <1>2, <1>3, <1>4, <1>5

\* The requests under way, when a client's credentials are others.
LEMMA Renewed ==
  ASSUME KubeInv, NEW conn \in Conns, NEW ns \in Namespaces
  PROVE  LET after == Kube!Renew(Kube!Hash(conn, ns)) IN
         /\ after \in [Requests -> [hash : Kube!Hashes \union {Kube!None}, ns : Namespaces \union {Kube!NoName},
                                    token : Given, renewed : BOOLEAN]]
         /\ \A r \in Requests : after[r] # Kube!Idle =>
              \E c \in Conns, n \in Namespaces : after[r].ns = n /\ after[r].hash = Kube!Hash(c, n)
  <1> DEFINE h == Kube!Hash(conn, ns)
             after == Kube!Renew(h)
             R == [hash : Kube!Hashes \union {Kube!None}, ns : Namespaces \union {Kube!NoName},
                   token : Given, renewed : BOOLEAN]
  <1>1. requests \in [Requests -> R]
    BY DEF KubeInv, RequestsHaveClients
  <1>2. h # Kube!None
    BY KubeTypes DEF Kube!Hash, Kube!None
  <1> HIDE DEF h
  <1>3. ASSUME NEW r \in Requests
        PROVE  /\ after[r] \in R /\ after[r].hash = requests[r].hash /\ after[r].ns = requests[r].ns
               /\ requests[r] = Kube!Idle => after[r] = Kube!Idle
    <2>1. after[r] = IF requests[r].hash = h THEN [requests[r] EXCEPT !.renewed = TRUE] ELSE requests[r]
      BY DEF Kube!Renew
    <2>2. requests[r] \in R
      BY <1>1
    <2>3. CASE requests[r].hash = h
      <3>1. requests[r] # Kube!Idle
        BY <1>2, <2>3 DEF Kube!Idle
      <3> QED
        BY <2>1, <2>2, <2>3, <3>1
    <2>4. CASE requests[r].hash # h
      <3>1. after[r] = requests[r]
        BY <2>1, <2>4
      <3> QED
        BY <2>2, <3>1
    <2> QED
      BY <2>3, <2>4
  <1>4. after \in [Requests -> R]
    BY <1>3 DEF Kube!Renew
  <1> HIDE DEF after
  <1> QED
    BY <1>3, <1>4 DEF KubeInv, RequestsHaveClients, after, h

LEMMA LessOfTwo ==
  ASSUME NEW m \in Nat, NEW v \in [token : Given, left : 0 .. m]
  PROVE  /\ Kube!Less(v) \in [token : Given, left : 0 .. m] /\ Kube!Less(v).token = v.token
         /\ v.left \in Nat /\ Kube!Less(v).left = IF v.left = 0 THEN 0 ELSE v.left - 1
  BY DEF Kube!Less
LEMMA LessOfThree ==
  ASSUME NEW m \in Nat, NEW v \in [sends : Given, token : Given, left : 0 .. m]
  PROVE  /\ Kube!Less(v) \in [sends : Given, token : Given, left : 0 .. m]
         /\ Kube!Less(v).token = v.token /\ Kube!Less(v).sends = v.sends
         /\ v.left \in Nat /\ Kube!Less(v).left = IF v.left = 0 THEN 0 ELSE v.left - 1
  BY DEF Kube!Less

LEMMA KubeTick == KubeInv /\ Kube!Tick => KubeInv'
  <1> SUFFICES ASSUME KubeInv, Kube!Tick PROVE KubeInv'
    OBVIOUS
  <1> USE KubeTypes DEF KubeInv
  <1>1. /\ source' = [ns \in Namespaces |-> [source[ns] EXCEPT !.age =
                       [t \in 1 .. MaxTokens |-> IF t < source[ns].last /\ @[t] < Kube!LongAgo THEN @[t] + 1 ELSE @[t]]]]
        /\ read' = [k \in Conns \X Namespaces |-> Kube!Less(read[k])]
        /\ clients' = [h \in Kube!Hashes |-> Kube!Less(clients[h])]
        /\ auth' = [h \in Kube!Hashes |-> Kube!Less(auth[h])]
        /\ used' = Kube!NoToken /\ requests' = requests
    BY DEF Kube!Tick, Kube!Unused, KubeTypeOK
  <1>2. ASSUME NEW ns \in Namespaces
        PROVE  /\ source'[ns] \in [last : 1 .. MaxTokens, age : [1 .. MaxTokens -> 0 .. Kube!LongAgo]]
               /\ source'[ns].last = source[ns].last
               /\ \A t \in 1 .. MaxTokens : /\ source'[ns].age[t] <= source[ns].age[t] + 1
                                            /\ t >= source[ns].last => source'[ns].age[t] = source[ns].age[t]
    <2> DEFINE s == source[ns]
               a == [t \in 1 .. MaxTokens |-> IF t < s.last /\ s.age[t] < Kube!LongAgo THEN s.age[t] + 1 ELSE s.age[t]]
    <2>1. s \in [last : 1 .. MaxTokens, age : [1 .. MaxTokens -> 0 .. Kube!LongAgo]]
      BY DEF KubeTypeOK
    <2>2. \A t \in 1 .. MaxTokens : s.age[t] \in 0 .. Kube!LongAgo
      BY <2>1
    <2>3. a \in [1 .. MaxTokens -> 0 .. Kube!LongAgo]
      BY <2>2
    <2>4. source'[ns] = [s EXCEPT !.age = a]
      BY <1>1
    <2>5. source'[ns].age = a /\ source'[ns].last = s.last
      BY <2>1, <2>4
    <2>6. \A t \in 1 .. MaxTokens : a[t] <= s.age[t] + 1 /\ (t >= s.last => a[t] = s.age[t])
      BY <2>1, <2>2
    <2> HIDE DEF a
    <2>7. source'[ns] \in [last : 1 .. MaxTokens, age : [1 .. MaxTokens -> 0 .. Kube!LongAgo]]
      BY <2>1, <2>3, <2>4
    <2> QED
      BY <2>5, <2>6, <2>7
  <1> DEFINE then(token) == source'[token[1]].age[token[2]]
  <1>3. ASSUME NEW token \in Tokens
        PROVE  then(token) <= Kube!Age(token) + 1 /\ Kube!Age(token) \in Nat /\ then(token) \in Nat
    <2>1. token[1] \in Namespaces /\ token[2] \in 1 .. MaxTokens
      BY DEF Tokens
    <2>2. Kube!Age(token) \in Nat
      BY Ages
    <2>3. source'[token[1]].age[token[2]] \in Nat
      BY <1>2, <2>1
    <2> QED
      BY <1>2, <2>1, <2>2, <2>3 DEF Kube!Age
  <1>4. ClientExpiry + 1 \in Nat
    OBVIOUS
  <1>5. /\ read' \in [Conns \X Namespaces -> [token : Given, left : 0 .. ReadTTL]]
        /\ \A k \in Conns \X Namespaces : /\ read'[k].token = read[k].token /\ read[k].left \in Nat
                                          /\ read'[k].left = IF read[k].left = 0 THEN 0 ELSE read[k].left - 1
    <2>1. \A k \in Conns \X Namespaces : read[k] \in [token : Given, left : 0 .. ReadTTL]
      BY DEF KubeTypeOK
    <2> QED
      BY <1>1, <2>1, LessOfTwo
  <1>6. /\ clients' \in [Kube!Hashes -> [sends : Given, token : Given, left : 0 .. ClientExpiry]]
        /\ \A h \in Kube!Hashes : /\ clients'[h].token = clients[h].token /\ clients'[h].sends = clients[h].sends
                                  /\ clients[h].left \in Nat
                                  /\ clients'[h].left = IF clients[h].left = 0 THEN 0 ELSE clients[h].left - 1
    <2>1. \A h \in Kube!Hashes : clients[h] \in [sends : Given, token : Given, left : 0 .. ClientExpiry]
      BY DEF KubeTypeOK
    <2> QED
      BY <1>1, <2>1, LessOfThree
  <1>7. /\ auth' \in [Kube!Hashes -> [token : Given, left : 0 .. ClientExpiry + 1]]
        /\ \A h \in Kube!Hashes : /\ auth'[h].token = auth[h].token /\ auth[h].left \in Nat
                                  /\ auth'[h].left = IF auth[h].left = 0 THEN 0 ELSE auth[h].left - 1
    <2>1. \A h \in Kube!Hashes : auth[h] \in [token : Given, left : 0 .. ClientExpiry + 1]
      BY DEF KubeTypeOK
    <2> QED
      BY <1>1, <1>4, <2>1, LessOfTwo
  <1>8. KubeTypeOK'
    BY <1>1, <1>2, <1>5, <1>6, <1>7 DEF KubeTypeOK
  <1>9. CurrentIsNew'
    <2> SUFFICES ASSUME NEW ns \in Namespaces, NEW t \in 1 .. MaxTokens, t >= source'[ns].last
                 PROVE  source'[ns].age[t] = 0
      BY DEF CurrentIsNew
    <2>1. t >= source[ns].last
      BY <1>2
    <2>2. source[ns].age[t] = 0
      BY <2>1 DEF CurrentIsNew
    <2> QED
      BY <1>2, <2>1, <2>2
  <1>10. RequestsHaveClients'
    BY <1>1 DEF RequestsHaveClients
  <1>11. ASSUME NEW token, NEW ns, NEW left \in Nat, NEW bound \in Int, left > 0, Own(token, ns), Recent(token, left + 1, bound)
         PROVE  then(token) + left <= bound
    <2> HIDE DEF then
    <2> QED
      BY <1>3, <1>11 DEF Recent, Own
  <1>12. ReadsRecent'
    <2> SUFFICES ASSUME NEW ns \in Namespaces, "ref" \in Conns, read'[<<"ref", ns>>].left > 0
                 PROVE  LET v == read'[<<"ref", ns>>] IN Own(v.token, ns) /\ then(v.token) + v.left <= ReadTTL
      BY DEF ReadsRecent, Recent, Own, Tokens, Kube!Age
    <2> DEFINE v == read[<<"ref", ns>>]
               w == read'[<<"ref", ns>>]
    <2>1. w.token = v.token /\ w.left \in Nat /\ w.left > 0 /\ v.left = w.left + 1
      BY <1>5, RefHashes
    <2>2. Own(v.token, ns) /\ Recent(v.token, v.left, ReadTTL)
      BY <2>1 DEF ReadsRecent
    <2> HIDE DEF v, w, then
    <2>3. then(v.token) + w.left <= ReadTTL
      BY <1>11, <2>1, <2>2
    <2> QED
      BY <2>1, <2>2, <2>3 DEF v, w
  <1>13. ClientsRecent'
    <2> SUFFICES ASSUME NEW ns \in Namespaces, "ref" \in Conns, clients'[<<"ref", ns>>] # Kube!NoClient
                 PROVE  LET c == clients'[<<"ref", ns>>] IN
                        /\ Own(c.sends, ns) /\ (c.left > 0 => then(c.sends) + c.left <= ReadTTL + ClientExpiry)
                        /\ c.token \in {Kube!None, c.sends}
      BY DEF ClientsRecent, Recent, Own, Tokens, Kube!Age
    <2> DEFINE v == clients[<<"ref", ns>>]
               w == clients'[<<"ref", ns>>]
    <2>0. <<"ref", ns>> \in Kube!Hashes
      BY RefHashes
    <2>1. /\ w.token = v.token /\ w.sends = v.sends /\ w.left \in Nat /\ v.left \in Nat
          /\ w.left > 0 => v.left = w.left + 1
      BY <1>6, <2>0
    <2>2. v # Kube!NoClient
      <3>1. Kube!Less(Kube!NoClient) = Kube!NoClient
        BY DEF Kube!Less, Kube!NoClient
      <3> QED
        BY <1>1, <2>0, <3>1
    <2>3. Own(v.sends, ns) /\ Recent(v.sends, v.left, ReadTTL + ClientExpiry) /\ v.token \in {Kube!None, v.sends}
      BY <2>2 DEF ClientsRecent
    <2> HIDE DEF v, w, then
    <2>4. w.left > 0 => then(v.sends) + w.left <= ReadTTL + ClientExpiry
      BY <1>11, <2>1, <2>3
    <2> QED
      BY <2>1, <2>3, <2>4 DEF v, w
  <1>14. AuthRecent'
    <2> SUFFICES ASSUME NEW ns \in Namespaces, "ref" \in Conns, auth'[<<"ref", ns>>].left > 0
                 PROVE  LET v == auth'[<<"ref", ns>>] IN
                        Own(v.token, ns) /\ then(v.token) + v.left <= ReadTTL + 2 * ClientExpiry - Buffer
      BY DEF AuthRecent, Recent, Own, Tokens, Kube!Age
    <2> DEFINE v == auth[<<"ref", ns>>]
               w == auth'[<<"ref", ns>>]
    <2>1. w.token = v.token /\ w.left \in Nat /\ w.left > 0 /\ v.left = w.left + 1
      BY <1>7, RefHashes
    <2>2. Own(v.token, ns) /\ Recent(v.token, v.left, ReadTTL + 2 * ClientExpiry - Buffer)
      BY <2>1 DEF AuthRecent
    <2> HIDE DEF v, w, then
    <2>3. then(v.token) + w.left <= ReadTTL + 2 * ClientExpiry - Buffer
      BY <1>11, <2>1, <2>2
    <2> QED
      BY <2>1, <2>2, <2>3 DEF v, w
  <1> QED
    BY <1>1, <1>8, <1>9, <1>10, <1>12, <1>13, <1>14, NothingUsed

\* What a step uses, when it is the token of a kubeconfig.
LEMMA UsedRecent ==
  ASSUME NEW hash, NEW ns, NEW token, UNCHANGED source, Kube!Used(hash, ns, token),
         hash[1] = "ref" => Own(token, ns) /\ Kube!Age(token) < ReadTTL + (ClientExpiry - Buffer) + ClientExpiry + 1
  PROVE  Kube!TokensAreOwnAndRecent'
  BY DEF Kube!Used, Kube!TokensAreOwnAndRecent, Own

\* The token of a namespace is replaced: the others are as old as they were.
LEMMA KubeReplace ==
  ASSUME KubeInv, NEW ns \in Namespaces, Kube!Replace(ns)
  PROVE  KubeInv'
  <1> USE KubeTypes DEF KubeInv
  <1>1. /\ source' = [source EXCEPT ![ns].last = @ + 1] /\ source[ns].last < MaxTokens
        /\ used' = Kube!NoToken /\ UNCHANGED <<read, clients, auth, requests>>
    BY DEF Kube!Replace, Kube!Unused
  <1>2. ASSUME NEW n \in Namespaces
        PROVE  /\ source'[n] \in [last : 1 .. MaxTokens, age : [1 .. MaxTokens -> 0 .. Kube!LongAgo]]
               /\ source'[n].age = source[n].age /\ source'[n].last >= source[n].last
    <2>1. source[n] \in [last : 1 .. MaxTokens, age : [1 .. MaxTokens -> 0 .. Kube!LongAgo]]
      BY DEF KubeTypeOK
    <2>2. CASE n = ns
      <3>1. source'[n] = [source[n] EXCEPT !.last = source[n].last + 1]
        BY <1>1, <2>2 DEF KubeTypeOK
      <3>2. source[n].last + 1 \in 1 .. MaxTokens /\ source[n].last + 1 >= source[n].last
        BY <1>1, <2>1, <2>2
      <3> QED
        BY <2>1, <3>1, <3>2
    <2>3. CASE n # ns
      <3>1. source'[n] = source[n]
        BY <1>1, <2>3 DEF KubeTypeOK
      <3>2. source[n].last >= source[n].last
        BY <2>1
      <3> QED
        BY <2>1, <3>1, <3>2
    <2> QED
      BY <2>2, <2>3
  <1>3. source' \in [Namespaces -> [last : 1 .. MaxTokens, age : [1 .. MaxTokens -> 0 .. Kube!LongAgo]]]
    <2>1. DOMAIN source' = Namespaces /\ source' = [n \in Namespaces |-> source'[n]]
      BY <1>1 DEF KubeTypeOK
    <2> QED
      BY <1>2, <2>1
  <1>4. KubeTypeOK'
    BY <1>1, <1>3 DEF KubeTypeOK
  <1>5. CurrentIsNew'
    <2> SUFFICES ASSUME NEW n \in Namespaces, NEW t \in 1 .. MaxTokens, t >= source'[n].last
                 PROVE  source'[n].age[t] = 0
      BY DEF CurrentIsNew
    <2>1. t >= source[n].last
      BY <1>2 DEF KubeTypeOK
    <2> QED
      BY <1>2, <2>1 DEF CurrentIsNew
  <1>6. \A token \in Tokens : source'[token[1]].age[token[2]] = source[token[1]].age[token[2]]
    BY <1>2 DEF Tokens
  <1>7. ReadsRecent' /\ ClientsRecent' /\ AuthRecent'
    <2>1. ReadsRecent'
      BY <1>1, <1>6 DEF ReadsRecent, Recent, Own, Kube!Age
    <2>2. ClientsRecent'
      BY <1>1, <1>6 DEF ClientsRecent, Recent, Own, Kube!Age
    <2>3. AuthRecent'
      BY <1>1, <1>6 DEF AuthRecent, Recent, Own, Kube!Age
    <2> QED
      BY <2>1, <2>2, <2>3
  <1> QED
    BY <1>1, <1>4, <1>5, <1>7, NothingUsed DEF RequestsHaveClients

\* A client is made, or one there is gets used through its clientset.
LEMMA KubeNew ==
  ASSUME KubeInv, NEW conn \in Conns, NEW ns \in Namespaces, Kube!NewKubernetesClient(conn, ns)
  PROVE  KubeInv'
  <1> DEFINE h == Kube!Hash(conn, ns)
  <1>1. /\ Kube!Fill(h, conn, ns, TRUE) /\ Kube!Used(h, ns, clients'[h].sends)
        /\ auth' = [auth EXCEPT ![h] = Kube!NewAuthenticator] /\ UNCHANGED <<source, requests>>
    BY DEF Kube!NewKubernetesClient
  <1>2. /\ read' \in [Conns \X Namespaces -> [token : Given, left : 0 .. ReadTTL]]
        /\ clients' \in [Kube!Hashes -> [sends : Given, token : Given, left : 0 .. ClientExpiry]]
        /\ ReadsRecent' /\ ClientsRecent'
        /\ conn = "ref" => Own(clients'[<<"ref", ns>>].sends, ns) /\ Kube!Age(clients'[<<"ref", ns>>].sends) <= ReadTTL
    BY <1>1, Filled
  <1>3. h[1] = conn /\ (conn = "ref" => h = <<"ref", ns>>)
    BY HashesAre
  <1> HIDE DEF h
  <1>4. /\ auth' \in [Kube!Hashes -> [token : Given, left : 0 .. ClientExpiry + 1]]
        /\ \A k \in Kube!Hashes : auth'[k] \in {auth[k], Kube!NewAuthenticator}
    <2>1. Kube!NewAuthenticator \in [token : Given, left : 0 .. ClientExpiry + 1]
      BY KubeTypes DEF Kube!NewAuthenticator, Given
    <2> QED
      BY <1>1, <2>1 DEF KubeInv, KubeTypeOK
  <1>5. KubeTypeOK'
    BY <1>1, <1>2, <1>4 DEF KubeInv, KubeTypeOK
  <1>6. CurrentIsNew' /\ AuthRecent' /\ RequestsHaveClients'
    BY <1>1, <1>4, KubeKept DEF KubeInv, RequestsHaveClients
  <1>7. conn = "ref" => Kube!Age(clients'[h].sends) \in Nat /\ Own(clients'[h].sends, ns) /\ Kube!Age(clients'[h].sends) <= ReadTTL
    BY <1>2, <1>3, Ages, KubeTypes DEF KubeInv, Own
  <1> DEFINE age == Kube!Age(clients'[h].sends)
  <1>8. conn = "ref" => age < ReadTTL + (ClientExpiry - Buffer) + ClientExpiry + 1
    <2>1. conn = "ref" => age \in Nat /\ age <= ReadTTL
      BY <1>7
    <2> HIDE DEF age
    <2> QED
      BY <2>1, KubeTypes
  <1>9. Kube!TokensAreOwnAndRecent'
    BY <1>1, <1>3, <1>7, <1>8, UsedRecent
  <1> QED
    BY <1>2, <1>5, <1>6, <1>9 DEF KubeInv

LEMMA KubeUse ==
  ASSUME KubeInv, NEW conn \in Conns, NEW ns \in Namespaces, Kube!Kubernetes(conn, ns)
  PROVE  KubeInv'
  <1> DEFINE h == Kube!Hash(conn, ns)
  <1>1. /\ clients[h] # Kube!NoClient
        /\ IF Kube!Keeps(h) THEN UNCHANGED <<read, clients>> ELSE Kube!Fill(h, conn, ns, FALSE)
        /\ auth' = auth \/ auth' = [auth EXCEPT ![h] = Kube!NewAuthenticator]
        /\ requests' = requests \/ requests' = Kube!Renew(h)
        /\ Kube!Used(h, ns, clients'[h].sends) /\ UNCHANGED source
    BY DEF Kube!Kubernetes
  <1>2. /\ read' \in [Conns \X Namespaces -> [token : Given, left : 0 .. ReadTTL]]
        /\ clients' \in [Kube!Hashes -> [sends : Given, token : Given, left : 0 .. ClientExpiry]]
        /\ ReadsRecent' /\ ClientsRecent'
        /\ conn = "ref" =>
             LET c == clients'[<<"ref", ns>>] IN
             Own(c.sends, ns) /\ Kube!Age(c.sends) < ReadTTL + ClientExpiry - Buffer
    BY <1>1, Refreshed
  <1>3. h[1] = conn /\ (conn = "ref" => h = <<"ref", ns>>)
    BY HashesAre
  <1>4. RequestsHaveClients'
    BY <1>1, Renewed DEF KubeInv, RequestsHaveClients
  <1> HIDE DEF h
  <1>5. /\ auth' \in [Kube!Hashes -> [token : Given, left : 0 .. ClientExpiry + 1]]
        /\ \A k \in Kube!Hashes : auth'[k] \in {auth[k], Kube!NewAuthenticator}
    <2>1. Kube!NewAuthenticator \in [token : Given, left : 0 .. ClientExpiry + 1]
      BY KubeTypes DEF Kube!NewAuthenticator, Given
    <2> QED
      BY <1>1, <2>1 DEF KubeInv, KubeTypeOK
  <1>6. KubeTypeOK'
    BY <1>1, <1>2, <1>5 DEF KubeInv, KubeTypeOK
  <1>7. CurrentIsNew' /\ AuthRecent'
    BY <1>1, <1>5, KubeKept DEF KubeInv
  <1>8. conn = "ref" => Own(clients'[h].sends, ns) /\ Kube!Age(clients'[h].sends) < ReadTTL + ClientExpiry - Buffer
    BY <1>2, <1>3
  <1> DEFINE age == Kube!Age(clients'[h].sends)
  <1>9. conn = "ref" => age < ReadTTL + (ClientExpiry - Buffer) + ClientExpiry + 1
    <2>1. conn = "ref" => age \in Nat /\ age < ReadTTL + ClientExpiry - Buffer
      BY <1>8, Ages, KubeTypes DEF KubeInv, Own
    <2> HIDE DEF age
    <2> QED
      BY <2>1, KubeTypes
  <1>10. Kube!TokensAreOwnAndRecent'
    BY <1>1, <1>3, <1>8, <1>9, UsedRecent
  <1> QED
    BY <1>2, <1>4, <1>6, <1>7, <1>10 DEF KubeInv

\* A client is dropped, and made anew when it is asked for again.
LEMMA KubeEvict ==
  ASSUME KubeInv, NEW hash \in Kube!Hashes, Kube!Evict(hash)
  PROVE  KubeInv'
  <1>1. /\ clients' = [clients EXCEPT ![hash] = Kube!NoClient]
        /\ used' = Kube!NoToken /\ UNCHANGED <<source, read, auth, requests>>
    BY DEF Kube!Evict, Kube!Unused
  <1>2. Kube!NoClient \in [sends : Given, token : Given, left : 0 .. ClientExpiry]
    BY KubeTypes DEF Kube!NoClient, Given
  <1>3. KubeTypeOK'
    BY <1>1, <1>2 DEF KubeInv, KubeTypeOK
  <1>4. CurrentIsNew' /\ ReadsRecent' /\ AuthRecent' /\ RequestsHaveClients'
    BY <1>1, KubeKept DEF KubeInv, RequestsHaveClients
  <1>5. \A t : Kube!Age(t)' = Kube!Age(t)
    BY <1>1 DEF Kube!Age
  <1>6. \A k \in Kube!Hashes : clients'[k] \in {clients[k], Kube!NoClient}
    BY <1>1 DEF KubeInv, KubeTypeOK
  <1>7. ClientsRecent'
    BY <1>1, <1>5, <1>6, RefHashes DEF KubeInv, ClientsRecent, Recent, Own, Tokens
  <1> QED
    BY <1>1, <1>3, <1>4, <1>7, NothingUsed DEF KubeInv

\* A request is sent with what the authenticator of its client has or gets.
LEMMA KubeSend ==
  ASSUME KubeInv, NEW r \in Requests, NEW conn \in Conns, NEW ns \in Namespaces, Kube!Send(r, conn, ns)
  PROVE  KubeInv'
  <1> DEFINE h == Kube!Hash(conn, ns)
             sent == [hash |-> h, ns |-> ns, token |-> auth'[h].token, renewed |-> FALSE]
             age == Kube!Age(auth'[h].token)
  <1>1. h \in Kube!Hashes /\ h[1] = conn /\ (conn = "ref" => h = <<"ref", ns>>)
    BY HashesAre
  <1>2. Kube!Used(h, ns, auth'[h].token) /\ UNCHANGED source
    BY DEF Kube!Send
  <1>3. /\ KubeTypeOK' /\ ReadsRecent' /\ ClientsRecent' /\ AuthRecent'
        /\ \E before \in {requests, Kube!Renew(h)} : requests' = [before EXCEPT ![r] = sent]
        /\ conn = "ref" => Own(auth'[h].token, ns) /\ age < ReadTTL + (ClientExpiry - Buffer) + ClientExpiry + 1
    <2>1. CASE auth[h].left > 0
      <3>1. UNCHANGED <<read, clients, auth>> /\ requests' = [requests EXCEPT ![r] = sent]
        BY <2>1 DEF Kube!Send
      <3>2. KubeTypeOK' /\ ReadsRecent' /\ ClientsRecent' /\ AuthRecent'
        BY <1>2, <3>1, KubeKept DEF KubeInv, KubeTypeOK
      <3>3. ASSUME conn = "ref"
            PROVE  Own(auth'[h].token, ns) /\ age < ReadTTL + (ClientExpiry - Buffer) + ClientExpiry + 1
        <4>1. Own(auth[h].token, ns) /\ Recent(auth[h].token, auth[h].left, ReadTTL + 2 * ClientExpiry - Buffer)
          BY <1>1, <2>1, <3>3 DEF KubeInv, AuthRecent
        <4>2. auth[h].left \in Nat /\ age = Kube!Age(auth[h].token) /\ age \in Nat
          <5>1. auth[h] \in [token : Given, left : 0 .. ClientExpiry + 1]
            BY <1>1 DEF KubeInv, KubeTypeOK
          <5>2. Kube!Age(auth[h].token) \in Nat
            BY <4>1, Ages, KubeTypes DEF KubeInv, Own
          <5> QED
            BY <3>1, <5>1, <5>2
        <4>3. age + auth[h].left <= ReadTTL + 2 * ClientExpiry - Buffer
          BY <2>1, <4>1, <4>2 DEF Recent
        <4> HIDE DEF age, h
        <4>4. age < ReadTTL + (ClientExpiry - Buffer) + ClientExpiry + 1
          BY <2>1, <4>2, <4>3, KubeTypes
        <4> QED
          BY <3>1, <4>1, <4>4
      <3> QED
        BY <3>1, <3>2, <3>3
    <2>2. CASE ~(auth[h].left > 0)
      <3>1. Kube!RefreshCredsLocked(h, conn, ns) /\ requests' = [Kube!Renew(h) EXCEPT ![r] = sent]
        BY <2>2 DEF Kube!Send
      <3>2. /\ KubeTypeOK' /\ ReadsRecent' /\ ClientsRecent' /\ AuthRecent'
            /\ conn = "ref" => Own(auth'[h].token, ns) /\ age < ReadTTL + ClientExpiry - Buffer
        BY <1>2, <3>1, CredsRefreshed
      <3>3. conn = "ref" => age \in Nat
        BY <3>2, Ages, KubeTypes DEF KubeInv, Own
      <3> HIDE DEF age, h, sent
      <3>4. conn = "ref" => age < ReadTTL + (ClientExpiry - Buffer) + ClientExpiry + 1
        BY <3>2, <3>3, KubeTypes
      <3> QED
        BY <3>1, <3>2, <3>4
    <2> QED
      BY <2>1, <2>2
  <1>4. RequestsHaveClients'
    <2>1. auth'[h].token \in Given
      BY <1>1, <1>3 DEF KubeTypeOK
    <2>2. sent \in [hash : Kube!Hashes \union {Kube!None}, ns : Namespaces \union {Kube!NoName},
                    token : Given, renewed : BOOLEAN]
      BY <1>1, <2>1
    <2>3. PICK before \in {requests, Kube!Renew(h)} : requests' = [before EXCEPT ![r] = sent]
      BY <1>3
    <2>4. /\ before \in [Requests -> [hash : Kube!Hashes \union {Kube!None}, ns : Namespaces \union {Kube!NoName},
                                      token : Given, renewed : BOOLEAN]]
          /\ \A q \in Requests : before[q] # Kube!Idle =>
               \E c \in Conns, n \in Namespaces : before[q].ns = n /\ before[q].hash = Kube!Hash(c, n)
      BY Renewed DEF KubeInv, RequestsHaveClients
    <2>5. sent.ns = ns /\ sent.hash = Kube!Hash(conn, ns)
      OBVIOUS
    <2> HIDE DEF sent, h
    <2>6. requests' \in [Requests -> [hash : Kube!Hashes \union {Kube!None}, ns : Namespaces \union {Kube!NoName},
                                      token : Given, renewed : BOOLEAN]]
      BY <2>2, <2>3, <2>4
    <2>7. \A q \in Requests : requests'[q] = IF q = r THEN sent ELSE before[q]
      BY <2>3, <2>4
    <2> QED
      BY <2>4, <2>5, <2>6, <2>7 DEF RequestsHaveClients
  <1>5. CurrentIsNew'
    BY <1>2, KubeKept
  <1>6. Kube!TokensAreOwnAndRecent'
    BY <1>1, <1>2, <1>3, UsedRecent
  <1> QED
    BY <1>3, <1>4, <1>5, <1>6 DEF KubeInv

\* A request that is answered, or refused with nothing left to try, is over.
LEMMA KubeOver ==
  ASSUME KubeInv, NEW r \in Requests, requests' = [requests EXCEPT ![r] = Kube!Idle],
         used' = Kube!NoToken, UNCHANGED <<source, read, clients, auth>>
  PROVE  KubeInv'
  <1>1. Kube!Idle \in [hash : Kube!Hashes \union {Kube!None}, ns : Namespaces \union {Kube!NoName},
                       token : Given, renewed : BOOLEAN]
    BY DEF Kube!Idle, Given
  <1>2. RequestsHaveClients'
    BY <1>1 DEF KubeInv, RequestsHaveClients
  <1>3. KubeTypeOK' /\ CurrentIsNew' /\ ReadsRecent' /\ ClientsRecent' /\ AuthRecent'
    BY KubeKept DEF KubeInv, KubeTypeOK
  <1> QED
    BY <1>2, <1>3, NothingUsed DEF KubeInv

\* A refused request has credentials of its client's connection read again.
LEMMA KubeRefused ==
  ASSUME KubeInv, NEW r \in Requests, Kube!Unauthorized(r)
  PROVE  KubeInv'
  <1>1. /\ requests[r] # Kube!Idle /\ used' = Kube!NoToken /\ UNCHANGED source
    BY DEF Kube!Unauthorized
  <1>2. CASE requests[r].renewed
    BY <1>1, <1>2, KubeOver DEF Kube!Unauthorized
  <1>3. CASE ~requests[r].renewed
    <2>1. PICK conn \in Conns, ns \in Namespaces : requests[r].ns = ns /\ requests[r].hash = Kube!Hash(conn, ns)
      BY <1>1 DEF KubeInv, RequestsHaveClients
    <2>2. Kube!Hash(conn, ns)[1] = conn
      BY HashesAre
    <2>3. /\ Kube!RefreshCredsLocked(Kube!Hash(conn, ns), conn, ns)
          /\ requests' = [Kube!Renew(Kube!Hash(conn, ns)) EXCEPT ![r] = Kube!Idle]
      BY <1>3, <2>1, <2>2 DEF Kube!Unauthorized
    <2>4. KubeTypeOK' /\ ReadsRecent' /\ ClientsRecent' /\ AuthRecent'
      BY <1>1, <2>3, CredsRefreshed
    <2>5. Kube!Idle \in [hash : Kube!Hashes \union {Kube!None}, ns : Namespaces \union {Kube!NoName},
                         token : Given, renewed : BOOLEAN]
      BY DEF Kube!Idle, Given
    <2> DEFINE before == Kube!Renew(Kube!Hash(conn, ns))
    <2>6. /\ before \in [Requests -> [hash : Kube!Hashes \union {Kube!None}, ns : Namespaces \union {Kube!NoName},
                                      token : Given, renewed : BOOLEAN]]
          /\ \A q \in Requests : before[q] # Kube!Idle =>
               \E c \in Conns, n \in Namespaces : before[q].ns = n /\ before[q].hash = Kube!Hash(c, n)
      BY Renewed
    <2> HIDE DEF before
    <2>7. requests' = [before EXCEPT ![r] = Kube!Idle]
      BY <2>3 DEF before
    <2>8. RequestsHaveClients'
      BY <2>5, <2>6, <2>7 DEF RequestsHaveClients
    <2>9. CurrentIsNew'
      BY <1>1, KubeKept
    <2> QED
      BY <1>1, <2>4, <2>8, <2>9, NothingUsed DEF KubeInv
  <1> QED
    BY <1>2, <1>3

LEMMA KubeStep == KubeInv /\ [Kube!Next]_tokens => KubeInv'
  <1> SUFFICES ASSUME KubeInv, [Kube!Next]_tokens PROVE KubeInv'
    OBVIOUS
  <1>1. CASE UNCHANGED tokens
    <2>1. UNCHANGED <<source, read, clients, auth, requests, used>>
      BY <1>1 DEF tokens
    <2>2. KubeTypeOK' /\ CurrentIsNew' /\ ReadsRecent' /\ ClientsRecent' /\ AuthRecent'
      BY <2>1, KubeKept DEF KubeInv, KubeTypeOK
    <2> QED
      BY <2>1, <2>2 DEF KubeInv, RequestsHaveClients, Kube!TokensAreOwnAndRecent
  <1>2. CASE Kube!Tick
    BY <1>2, KubeTick
  <1>3. CASE \E ns \in Namespaces : Kube!Replace(ns)
    BY <1>3, KubeReplace
  <1>4. CASE \E c \in Conns, ns \in Namespaces : Kube!NewKubernetesClient(c, ns)
    BY <1>4, KubeNew
  <1>5. CASE \E c \in Conns, ns \in Namespaces : Kube!Kubernetes(c, ns)
    BY <1>5, KubeUse
  <1>6. CASE \E c \in Conns, ns \in Namespaces, r \in Requests : Kube!Send(r, c, ns)
    BY <1>6, KubeSend
  <1>7. CASE \E h \in Kube!Hashes : Kube!Evict(h)
    BY <1>7, KubeEvict
  <1>8. CASE \E r \in Requests : Kube!Answered(r)
    BY <1>8, KubeOver DEF Kube!Answered, Kube!Unused
  <1>9. CASE \E r \in Requests : Kube!Unauthorized(r)
    BY <1>9, KubeRefused
  <1> QED
    BY <1>1, <1>2, <1>3, <1>4, <1>5, <1>6, <1>7, <1>8, <1>9 DEF Kube!Next

\* KubernetesConnection.Hash, HasExpired, Refresh and getCreds: the token of a kubeconfig
\* is used for the namespace it was read in only, and for no longer after it was replaced
\* than the cached read, the client and its authenticator may keep it one after the other,
\* for any connections, namespaces, requests and times to expiry.
THEOREM TokensRecent == Kube!Spec => []TokensAreOwnAndRecent
  <1>1. KubeInv => TokensAreOwnAndRecent
    BY DEF KubeInv, TokensAreOwnAndRecent
  <1> QED
    BY <1>1, KubeInit, KubeStep, PTL DEF Kube!Spec, tokens, Kube!vars
=============================================================================
