--------------------------- MODULE ReconcileProofs ---------------------------
(***************************************************************************)
(* Proofs about Reconcile, for any rows, tables and groups: what an agent  *)
(* has marked as pushed is on the upstream, in its last version unless it  *)
(* changed during the push.                                                *)
(***************************************************************************)
EXTENDS Reconcile, SequenceTheorems, TLAPS

\* The inductive invariant.
IndInv == MarkedArePresent /\ OnlyRacedAreStale

\* The types of what a run keeps, and of the tables on both sides.
RunType ==
  /\ pc \in {"idle", "group", "fetch", "push", "repair", "mark"}
  /\ at \in Nat \X Nat /\ at[1] \in DOMAIN Groups /\ at[2] \in DOMAIN Group.tables
  /\ only \in RunOnlys \union {{}}
  /\ summary \in [Tables -> {"none", "ok", "bad"}]
  /\ failed \subseteq batch /\ batch \subseteq Items
  /\ read \in [Items -> Nat] /\ count \in BOOLEAN

DataType ==
  /\ version \in [Items -> Nat] /\ remote \in [Items -> Nat]
  /\ pushed \in [Items -> BOOLEAN]
  /\ raced \union purged \subseteq Items
  /\ purges \in 0 .. MaxPurges /\ faults \in 0 .. MaxFaults

LEMMA TypeSplit == TypeOK <=> RunType /\ DataType
  BY DEF TypeOK, RunType, DataType

\* What the tables are to satisfy.
DataOK == DataType /\ Present /\ OnlyRacedAreStale

LEMMA Parts == IndInv <=> RunType /\ HandOK /\ DataOK
  BY TypeSplit DEF IndInv, MarkedArePresent, DataOK

LEMMA PartsNext ==
  ASSUME RunType', HandOK', DataOK'
  PROVE  IndInv'
  BY DEF IndInv, MarkedArePresent, DataOK, TypeOK, RunType, DataType

(* The groups of reconcileTableGroups are not empty, nor are their tables. *)
LEMMA GroupTypes ==
  /\ Len(Groups) \in Nat /\ Len(Groups) > 0 /\ DOMAIN Groups = 1 .. Len(Groups)
  /\ \A g \in 1 .. Len(Groups) :
       /\ Groups[g].tables \in Seq(Tables) /\ Len(Groups[g].tables) \in Nat
       /\ Len(Groups[g].tables) > 0
       /\ DOMAIN Groups[g].tables = 1 .. Len(Groups[g].tables)
  <1>1. Groups \in Seq([tables : Seq(Tables) \ {<<>>}, dependsOn : SUBSET Tables])
    BY ReconcileAssumption
  <1>2. Len(Groups) \in Nat /\ DOMAIN Groups = 1 .. Len(Groups) /\ Len(Groups) > 0
    BY <1>1, LenProperties, ReconcileAssumption
  <1>3. ASSUME NEW g \in 1 .. Len(Groups)
        PROVE  Groups[g].tables \in Seq(Tables) \ {<<>>}
    <2>1. Groups[g] \in [tables : Seq(Tables) \ {<<>>}, dependsOn : SUBSET Tables]
      BY <1>1, ElementOfSeq
    <2> QED
      BY <2>1
  <1>4. \A s \in Seq(Tables) \ {<<>>} :
           Len(s) \in Nat /\ Len(s) > 0 /\ DOMAIN s = 1 .. Len(s)
    BY LenProperties, EmptySeq
  <1> QED
    BY <1>2, <1>3, <1>4

LEMMA TableType == RunType => Table \in Tables
  BY GroupTypes DEF RunType, Table, Group

LEMMA AddStatType ==
  ASSUME RunType, NEW fk \in BOOLEAN
  PROVE  AddStat(fk) \in [Tables -> {"none", "ok", "bad"}]
  BY TableType DEF AddStat, RunType

(* The loops of ReconcileSome go on at a table that exists, or end the run, *)
(* with nothing in hand.                                                    *)
LEMMA ContinueRun ==
  ASSUME NEW next \in Nat \X Nat, next[1] > 0,
         next[1] <= Len(Groups) => next[2] \in DOMAIN Groups[next[1]].tables,
         NEW stats \in [Tables -> {"none", "ok", "bad"}],
         RunType, Continue(next, stats)
  PROVE  RunType' /\ HandOK'
  <1>1. at' \in Nat \X Nat /\ at'[1] \in DOMAIN Groups /\ at'[2] \in DOMAIN Groups[at'[1]].tables
    <2>1. CASE next[1] > Len(Groups)
      BY <2>1, GroupTypes DEF Continue
    <2>2. CASE ~(next[1] > Len(Groups))
      BY <2>2, GroupTypes DEF Continue
    <2> QED
      BY <2>1, <2>2
  <1>2. RunType'
    BY <1>1 DEF RunType, Continue, Group
  <1>3. HandOK'
    BY DEF HandOK, Continue
  <1> QED
    BY <1>2, <1>3

LEMMA NextGroup ==
  ASSUME RunType, NEW stats \in [Tables -> {"none", "ok", "bad"}],
         Continue(AfterGroup(at[1]), stats)
  PROVE  RunType' /\ HandOK'
  <1> DEFINE next == AfterGroup(at[1])
  <1>1. /\ next \in Nat \X Nat /\ next[1] > 0
        /\ next[1] <= Len(Groups) => next[2] \in DOMAIN Groups[next[1]].tables
    BY GroupTypes DEF AfterGroup, RunType
  <1> HIDE DEF next
  <1> QED
    BY <1>1, ContinueRun DEF next

LEMMA NextTable ==
  ASSUME RunType, NEW stats \in [Tables -> {"none", "ok", "bad"}],
         Continue(AfterTable(at[1], at[2]), stats)
  PROVE  RunType' /\ HandOK'
  <1> DEFINE next == AfterTable(at[1], at[2])
  <1>1. /\ next \in Nat \X Nat /\ next[1] > 0
        /\ next[1] <= Len(Groups) => next[2] \in DOMAIN Groups[next[1]].tables
    BY GroupTypes DEF AfterTable, AfterGroup, RunType, Group
  <1> HIDE DEF next
  <1> QED
    BY <1>1, ContinueRun DEF next

LEMMA Fails ==
  ASSUME RunType, TableFails
  PROVE  RunType' /\ HandOK'
  <1>1. [t \in Tables |-> IF \E n \in at[2] .. Len(Group.tables) : Group.tables[n] = t
                          THEN "bad" ELSE summary[t]] \in [Tables -> {"none", "ok", "bad"}]
    BY DEF RunType
  <1> QED
    BY <1>1, NextGroup DEF TableFails

LEMMA FaultType ==
  ASSUME DataType, Fault
  PROVE  faults' \in 0 .. MaxFaults
  BY ReconcileAssumption DEF DataType, Fault

-----------------------------------------------------------------------------
(* The initial state, and one lemma per action or family of actions.       *)

LEMMA InitInv == Init => IndInv
  <1> SUFFICES ASSUME Init PROVE IndInv
    OBVIOUS
  <1>1. RunType
    <2>1. at \in Nat \X Nat /\ at[1] = 1 /\ at[2] = 1
      BY DEF Init
    <2>2. at[1] \in DOMAIN Groups /\ at[2] \in DOMAIN Group.tables
      BY <2>1, GroupTypes DEF Group
    <2> QED
      BY <2>1, <2>2 DEF Init, RunType
  <1>2. DataType
    BY ReconcileAssumption DEF Init, DataType
  <1>3. HandOK /\ Present /\ OnlyRacedAreStale
    BY DEF Init, HandOK, Present, OnlyRacedAreStale, Sent
  <1> QED
    BY <1>1, <1>2, <1>3, Parts DEF DataOK

(* A row that changes loses its mark, and has raced when it is in hand.    *)
LEMMA WriteInv ==
  ASSUME IndInv, NEW i \in Items, Write(i)
  PROVE  IndInv'
  <1>1. RunType /\ HandOK /\ DataOK
    BY Parts
  <1>2. RunType'
    BY <1>1 DEF RunType, Write, Group, hand
  <1>3. /\ version' = [version EXCEPT ![i] = @ + 1] /\ pushed' = [pushed EXCEPT ![i] = FALSE]
        /\ raced' = IF i \in batch THEN raced \union {i} ELSE raced
        /\ UNCHANGED <<remote, purged, purges, faults, pc, at, batch, read, failed>>
    BY DEF Write, hand, server
  <1>4. DataType'
    BY <1>1, <1>3 DEF DataOK, DataType
  <1>5. Present' /\ OnlyRacedAreStale'
    BY <1>1, <1>3 DEF DataOK, DataType, Present, OnlyRacedAreStale, Sent
  <1>6. HandOK'
    BY <1>1, <1>3 DEF HandOK, DataOK, DataType, Sent, Table, Group, RunType
  <1> QED
    BY <1>2, <1>4, <1>5, <1>6, PartsNext DEF DataOK

(* Marks are removed by ResetIsPushed and by UpdateParentsIsPushed.        *)
LEMMA UnmarkedData ==
  ASSUME DataOK, UNCHANGED <<version, remote, raced, purged, purges>>, faults' \in 0 .. MaxFaults,
         pushed' \in [Items -> BOOLEAN], \A i \in Items : pushed'[i] => pushed[i]
  PROVE  DataOK'
  BY DEF DataOK, DataType, Present, OnlyRacedAreStale, Sent

LEMMA ResetInv ==
  ASSUME IndInv, NEW t \in Tables, ResetIsPushed(t)
  PROVE  IndInv'
  <1>1. RunType /\ HandOK /\ DataOK
    BY Parts
  <1>2. RunType' /\ HandOK'
    BY <1>1 DEF ResetIsPushed, RunType, HandOK, Sent, Table, Group, hand, server
  <1>3. faults' \in 0 .. MaxFaults
    BY <1>1, FaultType DEF DataOK, ResetIsPushed
  <1>4. pushed' \in [Items -> BOOLEAN] /\ \A i \in Items : pushed'[i] => pushed[i]
    BY <1>1 DEF DataOK, DataType, ResetIsPushed
  <1>5. DataOK'
    BY <1>1, <1>3, <1>4, UnmarkedData DEF ResetIsPushed, server
  <1> QED
    BY <1>2, <1>5, PartsNext

(* What the upstream deletes is purged.                                    *)
LEMMA PurgeInv ==
  ASSUME IndInv, NEW i \in Items, Purge(i)
  PROVE  IndInv'
  <1>1. RunType /\ HandOK /\ DataOK
    BY Parts
  <1>2. RunType'
    BY <1>1 DEF RunType, Purge, Group, hand
  <1>3. /\ remote' = [remote EXCEPT ![i] = 0] /\ purged' = purged \union {i}
        /\ purges < MaxPurges /\ purges' = purges + 1
        /\ UNCHANGED <<version, pushed, raced, faults, pc, at, batch, read, failed>>
    BY DEF Purge, hand, agent
  <1>4. DataType'
    BY <1>1, <1>3, ReconcileAssumption DEF DataOK, DataType
  <1>5. Present' /\ OnlyRacedAreStale'
    BY <1>1, <1>3 DEF DataOK, DataType, Present, OnlyRacedAreStale, Sent
  <1>6. HandOK'
    BY <1>1, <1>3 DEF HandOK, DataOK, DataType, Sent, Table, Group
  <1> QED
    BY <1>2, <1>4, <1>5, <1>6, PartsNext DEF DataOK

(* The steps of a run between its tables leave the rows alone.             *)
LEMMA SameData ==
  ASSUME DataOK, UNCHANGED <<version, pushed, remote, raced, purged, purges>>,
         faults' \in 0 .. MaxFaults
  PROVE  DataOK'
  BY UnmarkedData DEF DataOK, DataType

LEMMA LoopInv ==
  ASSUME IndInv,
         \/ StartRun \/ EnterGroup \/ SkipGroup \/ PassTable \/ FetchNone \/ FetchFails
         \/ PushRejected \/ Crash
  PROVE  IndInv'
  <1>1. RunType /\ HandOK /\ DataOK /\ DataType
    BY Parts DEF DataOK
  <1>2. faults' \in 0 .. MaxFaults
    <2>1. CASE Fault
      BY <1>1, <2>1, FaultType
    <2>2. CASE UNCHANGED faults
      BY <1>1, <2>2 DEF DataType
    <2> QED
      BY <2>1, <2>2 DEF StartRun, EnterGroup, SkipGroup, PassTable, FetchNone, FetchFails,
                        PushRejected, Crash
  <1>3. DataOK'
    BY <1>1, <1>2, SameData DEF StartRun, EnterGroup, SkipGroup, PassTable, FetchNone,
         FetchFails, PushRejected, Crash, agent, server
  <1>4. CASE StartRun \/ EnterGroup
    <2>1. RunType' /\ HandOK'
      BY <1>1, <1>4 DEF StartRun, EnterGroup, RunType, HandOK, Group, hand
    <2> QED
      BY <1>3, <2>1, PartsNext
  <1>5. CASE SkipGroup
    <2>1. [t \in Tables |-> IF t \in ToSet(Group.tables) THEN "bad" ELSE summary[t]]
             \in [Tables -> {"none", "ok", "bad"}]
      BY <1>1 DEF RunType
    <2> QED
      BY <1>1, <1>3, <1>5, <2>1, NextGroup, PartsNext DEF SkipGroup
  <1>6. CASE PassTable \/ FetchNone
    <2>1. summary \in [Tables -> {"none", "ok", "bad"}]
      BY <1>1 DEF RunType
    <2> QED
      BY <1>1, <1>3, <1>6, <2>1, NextTable, AddStatType, PartsNext DEF PassTable, FetchNone
  <1>7. CASE FetchFails \/ PushRejected
    BY <1>1, <1>3, <1>7, Fails, PartsNext DEF FetchFails, PushRejected
  <1>8. CASE Crash
    <2>1. /\ AfterGroup(Len(Groups)) \in Nat \X Nat /\ AfterGroup(Len(Groups))[1] > Len(Groups)
          /\ AfterGroup(Len(Groups))[1] > 0 /\ Len(Groups) \in Nat
      BY GroupTypes DEF AfterGroup
    <2>2. summary \in [Tables -> {"none", "ok", "bad"}]
      BY <1>1 DEF RunType
    <2>3. RunType' /\ HandOK'
      BY <1>1, <1>8, <2>1, <2>2, ContinueRun DEF Crash
    <2> QED
      BY <1>3, <2>3, PartsNext
  <1> QED
    BY <1>4, <1>5, <1>6, <1>7, <1>8

(* Rows that are fetched are not marked: nothing is stale for having raced *)
(* with an earlier push.                                                   *)
LEMMA FetchInv ==
  ASSUME IndInv, Fetch
  PROVE  IndInv'
  <1>1. RunType /\ DataOK /\ DataType
    BY Parts DEF DataOK
  <1>2. PICK s \in SUBSET Unpushed : batch' = s /\ raced' = raced \ s
    BY DEF Fetch
  <1>3. \A i \in s : i \in Items /\ TableOf[i] = Table /\ version[i] > 0 /\ ~pushed[i]
    BY <1>2 DEF Unpushed
  <1>4. /\ read' = [i \in Items |-> IF i \in s THEN version[i] ELSE 0]
        /\ pc' = "push"
        /\ UNCHANGED <<version, pushed, remote, purged, purges, at, only, summary, failed,
                       count, faults>>
    BY <1>2 DEF Fetch, agent, server
  <1>5. failed = {}
    BY DEF Fetch, IndInv, MarkedArePresent, HandOK
  <1>6. RunType'
    BY <1>1, <1>2, <1>3, <1>4, <1>5 DEF RunType, DataType, Group
  <1>7. HandOK'
    BY <1>2, <1>3, <1>4, <1>5 DEF HandOK, Table, Group
  <1>8. DataOK'
    BY <1>1, <1>2, <1>3, <1>4 DEF DataOK, DataType, Present, OnlyRacedAreStale, Sent
  <1> QED
    BY <1>6, <1>7, <1>8, PartsNext

(* InsertUpstreamMsg stores rows in the version they were read in.         *)
LEMMA InsertData ==
  ASSUME IndInv, pc = "push", Insert, UNCHANGED <<version, pushed, raced>>,
         faults' \in 0 .. MaxFaults
  PROVE  /\ DataOK' /\ Stored \subseteq batch
         /\ \A i \in Stored : remote'[i] = read[i]
  <1>1. RunType /\ HandOK /\ DataOK /\ DataType
    BY Parts DEF DataOK
  <1>2. Stored \subseteq batch
    <2>1. Accepted \subseteq batch
      BY DEF Accepted
    <2> QED
      BY <2>1 DEF Stored
  <1>3. /\ remote' = [i \in Items |-> IF i \in Stored THEN read[i] ELSE remote[i]]
        /\ purged' = purged \ Stored /\ UNCHANGED purges
    BY DEF Insert
  <1>4. \A i \in Stored : i \in Items /\ remote'[i] = read[i] /\ read[i] > 0
                        /\ (read[i] = version[i] \/ i \in raced)
    BY <1>1, <1>2, <1>3 DEF RunType, HandOK
  <1>5. \A i \in Items \ Stored : remote'[i] = remote[i] /\ (i \in purged' <=> i \in purged)
    BY <1>3
  <1>6. DataType'
    BY <1>1, <1>3 DEF DataType, RunType
  <1>7. Present' /\ OnlyRacedAreStale'
    BY <1>1, <1>4, <1>5 DEF DataOK, Present, OnlyRacedAreStale, Sent
  <1> QED
    BY <1>2, <1>4, <1>6, <1>7 DEF DataOK

LEMMA PushInv ==
  ASSUME IndInv, Push
  PROVE  IndInv'
  <1>1. RunType /\ HandOK /\ DataOK /\ DataType
    BY Parts DEF DataOK
  <1>2. /\ pc = "push" /\ pc' \in {"repair", "mark"}
        /\ failed' = IF Table \in Carried THEN batch \ Stored ELSE {}
        /\ UNCHANGED <<version, pushed, raced, faults, at, only, summary, batch, read, count>>
    BY DEF Push, agent
  <1>3. /\ DataOK' /\ Stored \subseteq batch
        /\ \A i \in Stored : remote'[i] = read[i]
    BY <1>1, <1>2, InsertData DEF Push, DataType
  <1>4. RunType'
    BY <1>1, <1>2 DEF RunType, Group
  <1>5. \A i \in batch : TableOf[i] = Table /\ read[i] > 0 /\ (read[i] = version[i] \/ i \in raced)
    BY <1>1, <1>2 DEF HandOK
  <1>6. \A i \in (batch \ failed') \intersect Sent : i \in Stored
    BY <1>2, <1>5 DEF Sent
  <1>7. HandOK'
    BY <1>2, <1>3, <1>5, <1>6 DEF HandOK, Table, Group, Sent
  <1> QED
    BY <1>3, <1>4, <1>7, PartsNext

(* A request that fails may have been carried out.                         *)
LEMMA PushFailsInv ==
  ASSUME IndInv, PushFails
  PROVE  IndInv'
  <1>1. RunType /\ HandOK /\ DataOK /\ DataType
    BY Parts DEF DataOK
  <1>2. faults' \in 0 .. MaxFaults
    BY <1>1, FaultType DEF PushFails
  <1>3. DataOK'
    <2>1. CASE Insert
      BY <1>2, <2>1, InsertData DEF PushFails, agent
    <2>2. CASE UNCHANGED server
      BY <1>1, <1>2, <2>2, SameData DEF PushFails, agent, server
    <2> QED
      BY <2>1, <2>2 DEF PushFails
  <1> QED
    BY <1>1, <1>3, Fails, PartsNext DEF PushFails

LEMMA RepairInv ==
  ASSUME IndInv, RepairParents \/ RepairFails
  PROVE  IndInv'
  <1>1. RunType /\ HandOK /\ DataOK /\ DataType
    BY Parts DEF DataOK
  <1>2. faults' \in 0 .. MaxFaults
    BY <1>1, FaultType DEF RepairParents, RepairFails, DataType
  <1>3. pushed' \in [Items -> BOOLEAN] /\ \A i \in Items : pushed'[i] => pushed[i]
    BY <1>1 DEF DataType, RepairParents, RepairFails
  <1>4. DataOK'
    BY <1>1, <1>2, <1>3, UnmarkedData DEF RepairParents, RepairFails, server
  <1>5. CASE RepairParents
    <2>1. pc = "repair" /\ pc' = "mark"
          /\ UNCHANGED <<version, remote, purged, raced, at, only, summary, batch, read, failed, count>>
      BY <1>5 DEF RepairParents, server, hand
    <2>2. RunType' /\ HandOK'
      BY <1>1, <2>1 DEF RunType, HandOK, Group, Table, Sent
    <2> QED
      BY <1>4, <2>2, PartsNext
  <1>6. CASE RepairFails
    BY <1>1, <1>4, <1>6, Fails, PartsNext DEF RepairFails
  <1> QED
    BY <1>5, <1>6

(* UpdateIsPushed marks rows in hand that did not fail, all or a chunk.    *)
LEMMA MarkedData ==
  ASSUME IndInv, pc = "mark", NEW s \in SUBSET (batch \ failed),
         pushed' = [i \in Items |-> i \in s \/ pushed[i]],
         UNCHANGED <<version, remote, raced, purged, purges>>, faults' \in 0 .. MaxFaults
  PROVE  DataOK'
  <1>1. RunType /\ HandOK /\ DataOK /\ DataType
    BY Parts DEF DataOK
  <1>2. \A i \in s \intersect Sent :
           /\ read[i] > 0 /\ (read[i] = version[i] \/ i \in raced)
           /\ (remote[i] = read[i] \/ i \in purged)
    BY <1>1 DEF HandOK
  <1>3. \A i \in Items : pushed'[i] => i \in s \/ pushed[i]
    OBVIOUS
  <1>4. DataType'
    BY <1>1 DEF DataType
  <1>5. Present'
    BY <1>1, <1>2, <1>3 DEF DataOK, Present, Sent
  <1>6. OnlyRacedAreStale'
    BY <1>1, <1>2, <1>3 DEF DataOK, OnlyRacedAreStale, Sent
  <1> QED
    BY <1>4, <1>5, <1>6 DEF DataOK

LEMMA MarkInv ==
  ASSUME IndInv, MarkPushed \/ MarkFails
  PROVE  IndInv'
  <1>1. RunType /\ HandOK /\ DataOK /\ DataType
    BY Parts DEF DataOK
  <1>2. CASE MarkPushed
    <2>1. DataOK'
      BY <1>1, <1>2, MarkedData DEF MarkPushed, DataType, server
    <2>2. CASE Continue(AfterTable(at[1], at[2]), AddStat(TRUE))
      BY <1>1, <2>1, <2>2, NextTable, AddStatType, PartsNext
    <2>3. CASE /\ pc' = "fetch" /\ count' = TRUE /\ batch' = {} /\ failed = {}
               /\ read' = [i \in Items |-> 0] /\ UNCHANGED <<at, only, summary, failed>>
      <3>1. RunType' /\ HandOK'
        BY <1>1, <2>3 DEF RunType, HandOK, Group
      <3> QED
        BY <2>1, <3>1, PartsNext
    <2> QED
      BY <1>2, <2>2, <2>3 DEF MarkPushed
  <1>3. CASE MarkFails
    <2>1. faults' \in 0 .. MaxFaults
      BY <1>1, <1>3, FaultType DEF MarkFails
    <2>2. PICK s \in SUBSET (batch \ failed) : pushed' = [i \in Items |-> i \in s \/ pushed[i]]
      BY <1>3 DEF MarkFails
    <2>3. DataOK'
      BY <1>3, <2>1, <2>2, MarkedData DEF MarkFails, server
    <2> QED
      BY <1>1, <1>3, <2>3, Fails, PartsNext DEF MarkFails
  <1> QED
    BY <1>2, <1>3

LEMMA StutterInv ==
  ASSUME IndInv, UNCHANGED vars
  PROVE  IndInv'
  BY DEF vars, IndInv, MarkedArePresent, OnlyRacedAreStale, TypeOK, HandOK, Present, Sent, Table, Group

-----------------------------------------------------------------------------
(* The theorems.                                                           *)

LEMMA NextInv == IndInv /\ [Next]_vars => IndInv'
  <1> SUFFICES ASSUME IndInv, [Next]_vars PROVE IndInv'
    OBVIOUS
  <1>1. CASE Step
    BY <1>1, LoopInv, FetchInv, PushInv, RepairInv, MarkInv DEF Step
  <1>2. CASE FetchFails \/ PushFails \/ RepairFails \/ MarkFails \/ Crash
    BY <1>2, LoopInv, PushFailsInv, RepairInv, MarkInv
  <1>3. CASE \E i \in Items : Write(i) \/ Purge(i)
    BY <1>3, WriteInv, PurgeInv
  <1>4. CASE \E t \in Tables : ResetIsPushed(t)
    BY <1>4, ResetInv
  <1>5. CASE UNCHANGED vars
    BY <1>5, StutterInv
  <1> QED
    BY <1>1, <1>2, <1>3, <1>4, <1>5 DEF Next

(* reconcileTable, InsertUpstreamMsg and the is_pushed trigger: the rows in *)
(* hand are what they were read as, and marked rows reached the upstream.   *)
THEOREM Invariance == Spec => []IndInv
  BY InitInv, NextInv, PTL DEF Spec

(* reconcileTable marks a row only when the upstream has got it, whatever   *)
(* requests fail, answers are lost and rows are rejected.                   *)
THEOREM MarkedReached == Spec => []MarkedArePresent
  <1>1. IndInv => MarkedArePresent
    BY DEF IndInv
  <1> QED
    BY <1>1, Invariance, PTL

(* reconcileTable reads, pushes and marks without a transaction: what it    *)
(* leaves behind on the upstream changed during its own push.               *)
THEOREM StaleRaced == Spec => []OnlyRacedAreStale
  <1>1. IndInv => OnlyRacedAreStale
    BY DEF IndInv
  <1> QED
    BY <1>1, Invariance, PTL

=============================================================================
