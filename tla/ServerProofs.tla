---------------------------- MODULE ServerProofs ----------------------------
(***************************************************************************)
(* The theorems about the schema of a view's table, about its rows, about  *)
(* playbook runs and about the upstream's handlers, for any values of the  *)
(* constants: for each of them an inductive invariant, one lemma per       *)
(* operation that preserves it, and the properties of MCServer that it     *)
(* implies.                                                                *)
(***************************************************************************)
EXTENDS MCServer, SequenceTheorems, TLAPS

-----------------------------------------------------------------------------
(* Schema of a view's table.                                               *)

Defs == Columns \union {<< >>}
Replica == [pc : {"idle", "apply", "drop", "create", "check", "policy", "enable", "disable", "drop policy", "create policy"},
            seen : Defs, desired : Defs, rls : BOOLEAN, sure : BOOLEAN]
Table == [columns : Defs, rls : BOOLEAN, policy : BOOLEAN]

\* Only a release that asks for the policy enables it, only one that does not disables it.
SchemaTypeOK ==
  /\ spec \in Columns /\ want \in BOOLEAN /\ broken \in BOOLEAN
  /\ table \in Table /\ (table.columns = << >> => ~table.rls /\ ~table.policy)
  /\ procs \in [Replicas -> Replica]
  /\ \A p \in Replicas :
       /\ procs[p].pc # "idle" => procs[p].desired \in Columns
       /\ procs[p].pc \in {"enable", "create policy"} => want
       /\ procs[p].pc = "disable" => ~want

HasTable == table.columns # << >>
\* A replica that has found a table, or made one, and none has failed since.
Found(p) ==
  /\ procs[p].sure
  /\ \/ procs[p].pc \in {"check", "policy", "enable", "disable", "drop policy", "create policy"}
     \/ procs[p].pc = "apply" /\ procs[p].seen # << >>
FoundRLS(p) == procs[p].sure /\ procs[p].pc \in {"policy", "drop policy", "create policy"}
EnablesRLS(p) == procs[p].pc \in {"create", "check", "enable"} \/ (procs[p].pc = "policy" /\ ~procs[p].rls)
CreatesPolicy(p) == procs[p].pc \in {"create", "check", "policy", "enable", "drop policy", "create policy"}

\* A table that was there is there, or whoever dropped it is about to make it anew.
TableStays ==
  ~broken \/ (\E p \in Replicas : Found(p)) => HasTable \/ \E q \in Replicas : procs[q].pc = "create"

\* A table whose policy is wanted has it, or somebody's next statements are about to
\* create it; and so with its row level security.
Guarded ==
  want =>
    /\ ~broken \/ (\E p \in Replicas : FoundRLS(p)) => table.rls \/ \E q \in Replicas : EnablesRLS(q)
    /\ ~broken => table.policy \/ \E q \in Replicas : CreatesPolicy(q)

\* What is not wanted is not created again, once somebody has seen that it is not there.
Unguarded ==
  ~want =>
    /\ ~broken => ~table.rls /\ ~table.policy
    /\ \A p \in Replicas :
         /\ procs[p].pc \in {"policy", "drop policy", "disable"} /\ ~procs[p].rls => ~table.rls
         /\ procs[p].pc = "disable" => ~table.policy

SchemaInv == SchemaTypeOK /\ TableStays /\ Guarded /\ Unguarded

LEMMA SchemaAssumed == << >> \notin Columns
  BY ServerAssumption DEF ServerAssumption, Schema!ViewSchemaAssumption

LEMMA IdleReplica == Schema!Idle \in Replica /\ Schema!Idle.pc = "idle"
  BY DEF Schema!Idle, Replica, Defs

LEMMA NoTableIs == Schema!NoTable \in Table /\ Schema!NoTable.columns = << >> /\ ~Schema!NoTable.rls /\ ~Schema!NoTable.policy
  BY DEF Schema!NoTable, Table, Defs

LEMMA ExistsIs ==
  ASSUME SchemaTypeOK
  PROVE  /\ Schema!Exists <=> HasTable
         /\ ~HasTable => table = Schema!NoTable
  <1>1. table \in Table /\ (table.columns = << >> => ~table.rls /\ ~table.policy)
    BY DEF SchemaTypeOK
  <1>2. ~HasTable => table = Schema!NoTable
    BY <1>1 DEF HasTable, Schema!NoTable, Table
  <1> QED
    BY <1>2, NoTableIs DEF Schema!Exists, HasTable

LEMMA SchemaInit == Schema!Init => SchemaInv
  <1> SUFFICES ASSUME Schema!Init PROVE SchemaInv
    OBVIOUS
  <1>1. spec \in Columns /\ want \in BOOLEAN /\ broken = TRUE /\ table = Schema!NoTable /\ procs = [p \in Replicas |-> Schema!Idle]
    BY DEF Schema!Init
  <1>2. \A p \in Replicas : procs[p] \in Replica /\ procs[p].pc = "idle"
    BY <1>1, IdleReplica
  <1>3. SchemaTypeOK
    BY <1>1, <1>2, NoTableIs DEF SchemaTypeOK
  <1>4. TableStays /\ Guarded /\ Unguarded
    BY <1>1, <1>2 DEF TableStays, Guarded, Unguarded, Found, FoundRLS
  <1> QED
    BY <1>3, <1>4 DEF SchemaInv

\* After a failure no replica at work may be sure, and no promise is left.
LEMMA SchemaFails ==
  ASSUME SchemaInv, NEW p \in Replicas, Schema!Fails(p), UNCHANGED <<spec, table, want>>
  PROVE  SchemaInv'
  <1>1. /\ procs' = [q \in Replicas |-> IF q = p THEN Schema!Idle ELSE [procs[q] EXCEPT !.sure = FALSE]]
        /\ broken' = TRUE
    BY DEF Schema!Fails
  <1>2. ASSUME NEW q \in Replicas
        PROVE  /\ procs'[q] \in Replica
               /\ procs'[q].pc # "idle" => ~procs'[q].sure
               /\ procs'[q].pc # "idle" => /\ procs'[q].pc = procs[q].pc /\ procs'[q].rls = procs[q].rls
                                           /\ procs'[q].desired = procs[q].desired
    <2>1. procs[q] \in Replica
      BY DEF SchemaInv, SchemaTypeOK
    <2>2. CASE q = p
      BY <1>1, <2>2, IdleReplica
    <2>3. CASE q # p
      <3>1. procs'[q] = [procs[q] EXCEPT !.sure = FALSE]
        BY <1>1, <2>3
      <3> QED
        BY <2>1, <3>1 DEF Replica
    <2> QED
      BY <2>2, <2>3
  <1>3. SchemaTypeOK'
    <2>1. procs' \in [Replicas -> Replica]
      BY <1>1, <1>2
    <2> QED
      BY <1>1, <1>2, <2>1 DEF SchemaInv, SchemaTypeOK
  <1>4. TableStays' /\ Guarded'
    BY <1>1, <1>2 DEF TableStays, Guarded, Found, FoundRLS
  <1>5. Unguarded'
    <2> SUFFICES ASSUME ~want, NEW q \in Replicas
                 PROVE  /\ procs'[q].pc \in {"policy", "drop policy", "disable"} /\ ~procs'[q].rls => ~table.rls
                        /\ procs'[q].pc = "disable" => ~table.policy
      BY <1>1 DEF Unguarded
    <2>1. procs'[q].pc # "idle" => procs'[q].pc = procs[q].pc /\ procs'[q].rls = procs[q].rls
      BY <1>2
    <2> QED
      BY <2>1 DEF SchemaInv, Unguarded
  <1> QED
    BY <1>3, <1>4, <1>5 DEF SchemaInv

\* The next statement of a replica, or its end.
LEMMA ToDoes ==
  ASSUME SchemaTypeOK, NEW p \in Replicas, procs[p].pc # "idle",
         NEW pc \in {"drop", "create", "check", "policy", "enable", "disable", "drop policy", "create policy"},
         Schema!To(p, pc)
  PROVE  /\ procs' \in [Replicas -> Replica]
         /\ procs'[p].pc = pc /\ procs'[p].rls = procs[p].rls /\ procs'[p].sure = procs[p].sure
         /\ procs'[p].desired = procs[p].desired
         /\ \A q \in Replicas \ {p} : procs'[q] = procs[q]
  <1>1. procs[p] \in Replica
    BY DEF SchemaTypeOK
  <1> DEFINE after == [procs[p] EXCEPT !.pc = pc]
  <1>2. after \in Replica /\ after.pc = pc /\ after.rls = procs[p].rls /\ after.sure = procs[p].sure
        /\ after.desired = procs[p].desired
    BY <1>1 DEF Replica
  <1>3. procs' = [procs EXCEPT ![p] = after]
    BY DEF Schema!To
  <1> HIDE DEF after
  <1> QED
    BY <1>2, <1>3 DEF SchemaTypeOK

LEMMA DoneDoes ==
  ASSUME SchemaTypeOK, NEW p \in Replicas, Schema!Done(p)
  PROVE  /\ procs' \in [Replicas -> Replica] /\ procs'[p].pc = "idle"
         /\ \A q \in Replicas \ {p} : procs'[q] = procs[q]
         /\ broken' \in BOOLEAN /\ (~broken' => ~broken \/ procs[p].sure)
  <1>1. procs' = [procs EXCEPT ![p] = Schema!Idle] /\ broken' = (broken /\ ~procs[p].sure)
    BY DEF Schema!Done
  <1> QED
    BY <1>1, IdleReplica DEF SchemaTypeOK

LEMMA SchemaInspect ==
  ASSUME SchemaInv, NEW p \in Replicas, Schema!Inspect(p)
  PROVE  SchemaInv'
  <1> DEFINE after == [pc |-> "apply", seen |-> table.columns, desired |-> spec, rls |-> FALSE, sure |-> TRUE]
  <1>1. procs' = [procs EXCEPT ![p] = after] /\ procs[p].pc = "idle" /\ UNCHANGED <<spec, table, want, broken>>
    BY DEF Schema!Inspect, Schema!At
  <1>2. after \in Replica /\ after.pc = "apply" /\ after.seen = table.columns /\ after.desired \in Columns
    BY DEF SchemaInv, SchemaTypeOK, Replica, Table, Defs
  <1> HIDE DEF after
  <1>3. procs' \in [Replicas -> Replica] /\ procs'[p] = after /\ \A q \in Replicas \ {p} : procs'[q] = procs[q]
    BY <1>1, <1>2 DEF SchemaInv, SchemaTypeOK
  <1>4. SchemaTypeOK'
    BY <1>1, <1>2, <1>3 DEF SchemaInv, SchemaTypeOK
  <1>5. TableStays'
    <2> SUFFICES ASSUME ~broken \/ \E q \in Replicas : Found(q)', ~HasTable
                 PROVE  \E q \in Replicas : procs'[q].pc = "create"
      BY <1>1 DEF TableStays, HasTable
    <2>1. ~Found(p)'
      BY <1>2, <1>3 DEF Found, HasTable
    <2>2. ~broken \/ \E q \in Replicas : Found(q)
      BY <1>3, <2>1 DEF Found
    <2>3. PICK q \in Replicas : procs[q].pc = "create"
      BY <2>2 DEF SchemaInv, TableStays
    <2> QED
      BY <1>1, <1>3, <2>3
  <1>6. Guarded'
    BY <1>1, <1>2, <1>3 DEF SchemaInv, Guarded, FoundRLS, EnablesRLS, CreatesPolicy
  <1>7. Unguarded'
    BY <1>1, <1>2, <1>3 DEF SchemaInv, Unguarded
  <1> QED
    BY <1>4, <1>5, <1>6, <1>7 DEF SchemaInv

\* Atlas: the table becomes as it is wanted, or is to be dropped.
LEMMA SchemaApply ==
  ASSUME SchemaInv, NEW p \in Replicas, Schema!ApplyChanges(p) \/ Schema!ApplyFails(p)
  PROVE  SchemaInv'
  <1>1. procs[p].pc = "apply" /\ UNCHANGED <<spec, want, broken>>
    BY DEF Schema!ApplyChanges, Schema!ApplyFails, Schema!At
  <1>2. PICK pc \in {"check", "drop"} :
          /\ Schema!To(p, pc)
          /\ \/ table' = table /\ (pc = "check" => procs[p].seen = procs[p].desired)
             \/ /\ pc = "check" /\ table.columns = procs[p].seen
                /\ table' = [table EXCEPT !.columns = procs[p].desired]
    BY DEF Schema!ApplyChanges, Schema!ApplyFails
  <1>3. /\ procs' \in [Replicas -> Replica] /\ procs'[p].pc = pc /\ procs'[p].sure = procs[p].sure
        /\ procs'[p].desired = procs[p].desired /\ \A q \in Replicas \ {p} : procs'[q] = procs[q]
    BY <1>1, <1>2, ToDoes DEF SchemaInv
  <1>4. table \in Table /\ procs[p].desired \in Columns /\ procs[p].desired # << >>
    BY <1>1, SchemaAssumed DEF SchemaInv, SchemaTypeOK
  <1>5. /\ table' \in Table /\ table'.rls = table.rls /\ table'.policy = table.policy
        /\ (table' = table /\ (pc = "check" => procs[p].seen = procs[p].desired)) \/ HasTable'
    BY <1>2, <1>4 DEF Table, Defs, HasTable
  <1>6. SchemaTypeOK'
    BY <1>1, <1>3, <1>5 DEF SchemaInv, SchemaTypeOK, HasTable
  <1>7. TableStays'
    <2> SUFFICES ASSUME ~broken \/ \E q \in Replicas : Found(q)', ~HasTable'
                 PROVE  \E q \in Replicas : procs'[q].pc = "create"
      BY <1>1 DEF TableStays
    <2>1. ~HasTable /\ table' = table
      BY <1>5 DEF HasTable
    <2>2. Found(p)' => Found(p)
      BY <1>1, <1>3, <1>4, <1>5 DEF Found
    <2>3. ~broken \/ \E q \in Replicas : Found(q)
      BY <1>3, <2>2 DEF Found
    <2>4. PICK q \in Replicas : procs[q].pc = "create"
      BY <2>1, <2>3 DEF SchemaInv, TableStays
    <2> QED
      BY <1>1, <1>3, <2>4
  <1>8. Guarded'
    BY <1>1, <1>3, <1>5 DEF SchemaInv, Guarded, FoundRLS, EnablesRLS, CreatesPolicy
  <1>9. Unguarded'
    BY <1>1, <1>3, <1>5 DEF SchemaInv, Unguarded
  <1> QED
    BY <1>6, <1>7, <1>8, <1>9 DEF SchemaInv

\* The table goes, with its policy, but its maker is about to make it again.
LEMMA SchemaDrop ==
  ASSUME SchemaInv, NEW p \in Replicas, Schema!DropTable(p)
  PROVE  SchemaInv'
  <1>1. procs[p].pc = "drop" /\ table' = Schema!NoTable /\ UNCHANGED <<spec, want>>
    BY DEF Schema!DropTable, Schema!At
  <1>2. CASE ~HasTable
    <2>1. Schema!Fails(p) /\ table' = table
      BY <1>1, <1>2, ExistsIs DEF Schema!DropTable, SchemaInv
    <2> QED
      BY <1>1, <2>1, SchemaFails
  <1>3. CASE HasTable
    <2>1. Schema!To(p, "create") /\ broken' = broken
      BY <1>3, ExistsIs DEF Schema!DropTable, SchemaInv
    <2>2. /\ procs' \in [Replicas -> Replica] /\ procs'[p].pc = "create"
          /\ procs'[p].desired = procs[p].desired /\ \A q \in Replicas \ {p} : procs'[q] = procs[q]
      BY <1>1, <2>1, ToDoes DEF SchemaInv
    <2>3. SchemaTypeOK'
      BY <1>1, <2>1, <2>2, NoTableIs DEF SchemaInv, SchemaTypeOK
    <2>4. TableStays'
      BY <2>2 DEF TableStays
    <2>5. Guarded'
      BY <2>2 DEF Guarded, EnablesRLS, CreatesPolicy
    <2>6. Unguarded'
      BY <1>1, <2>1, <2>2, NoTableIs DEF SchemaInv, Unguarded
    <2> QED
      BY <2>3, <2>4, <2>5, <2>6 DEF SchemaInv
  <1> QED
    BY <1>2, <1>3

LEMMA SchemaCreate ==
  ASSUME SchemaInv, NEW p \in Replicas, Schema!CreateTable(p)
  PROVE  SchemaInv'
  <1>1. procs[p].pc = "create" /\ UNCHANGED <<spec, want>>
    BY DEF Schema!CreateTable, Schema!At
  <1>2. CASE HasTable
    <2>1. Schema!Fails(p) /\ table' = table
      BY <1>2, ExistsIs DEF Schema!CreateTable, SchemaInv
    <2> QED
      BY <1>1, <2>1, SchemaFails
  <1>3. CASE ~HasTable
    <2>1. Schema!To(p, "check") /\ broken' = broken /\ table' = [Schema!NoTable EXCEPT !.columns = procs[p].desired]
          /\ table = Schema!NoTable
      BY <1>3, ExistsIs DEF Schema!CreateTable, SchemaInv
    <2>2. /\ procs' \in [Replicas -> Replica] /\ procs'[p].pc = "check"
          /\ procs'[p].desired = procs[p].desired /\ \A q \in Replicas \ {p} : procs'[q] = procs[q]
      BY <1>1, <2>1, ToDoes DEF SchemaInv
    <2>3. procs[p].desired \in Columns
      BY <1>1 DEF SchemaInv, SchemaTypeOK
    <2>4. table' \in Table /\ table'.rls = table.rls /\ table'.policy = table.policy /\ HasTable'
      BY <2>1, <2>3, SchemaAssumed DEF Schema!NoTable, Table, Defs, HasTable
    <2>5. SchemaTypeOK'
      BY <1>1, <2>1, <2>2, <2>4 DEF SchemaInv, SchemaTypeOK, HasTable
    <2>6. TableStays'
      BY <2>4 DEF TableStays
    <2>7. Guarded'
      BY <2>2 DEF Guarded, EnablesRLS, CreatesPolicy
    <2>8. Unguarded'
      BY <1>1, <2>1, <2>2, <2>4 DEF SchemaInv, Unguarded
    <2> QED
      BY <2>5, <2>6, <2>7, <2>8 DEF SchemaInv
  <1> QED
    BY <1>2, <1>3

\* Whether the table has row level security, and, seen later, whether it has its policy.
LEMMA SchemaCheckRLS ==
  ASSUME SchemaInv, NEW p \in Replicas, Schema!CheckRLS(p)
  PROVE  SchemaInv'
  <1> DEFINE after == [procs[p] EXCEPT !.pc = "policy", !.rls = table.rls]
  <1>1. procs' = [procs EXCEPT ![p] = after] /\ procs[p].pc = "check" /\ UNCHANGED <<spec, table, want, broken>>
    BY DEF Schema!CheckRLS, Schema!At
  <1>2. procs[p] \in Replica /\ table.rls \in BOOLEAN
    BY DEF SchemaInv, SchemaTypeOK, Table
  <1>3. after \in Replica /\ after.pc = "policy" /\ after.rls = table.rls /\ after.sure = procs[p].sure
        /\ after.desired = procs[p].desired
    BY <1>2 DEF Replica
  <1> HIDE DEF after
  <1>4. procs' \in [Replicas -> Replica] /\ procs'[p] = after /\ \A q \in Replicas \ {p} : procs'[q] = procs[q]
    BY <1>1, <1>3 DEF SchemaInv, SchemaTypeOK
  <1>5. SchemaTypeOK'
    BY <1>1, <1>3, <1>4 DEF SchemaInv, SchemaTypeOK
  <1>6. TableStays'
    BY <1>1, <1>3, <1>4 DEF SchemaInv, TableStays, Found, HasTable
  <1>7. Guarded'
    BY <1>1, <1>3, <1>4 DEF SchemaInv, Guarded, FoundRLS, EnablesRLS, CreatesPolicy
  <1>8. Unguarded'
    BY <1>1, <1>3, <1>4 DEF SchemaInv, Unguarded
  <1> QED
    BY <1>5, <1>6, <1>7, <1>8 DEF SchemaInv

\* A replica that ends with the table as wanted leaves no promise open but what others
\* still have to do.
LEMMA SchemaDone ==
  ASSUME SchemaInv, NEW p \in Replicas, Schema!Done(p), UNCHANGED <<spec, want>>,
         procs[p].pc \in {"policy", "disable", "drop policy", "create policy"},
         table' \in Table, HasTable' = HasTable, table'.columns = << >> => ~table'.rls /\ ~table'.policy,
         want => /\ procs[p].pc # "disable" /\ (procs[p].pc = "policy" => procs[p].rls)
                 /\ table'.rls = table.rls /\ table'.policy,
         ~want => (table'.rls => table.rls) /\ (table'.policy => table.policy) /\ ~table'.rls /\ ~table'.policy
  PROVE  SchemaInv'
  <1>1. /\ procs' \in [Replicas -> Replica] /\ procs'[p].pc = "idle"
        /\ \A q \in Replicas \ {p} : procs'[q] = procs[q]
        /\ broken' \in BOOLEAN /\ (~broken' => ~broken \/ procs[p].sure)
    BY DoneDoes DEF SchemaInv
  <1>2. SchemaTypeOK'
    BY <1>1 DEF SchemaInv, SchemaTypeOK
  <1>3. TableStays'
    <2>1. ~broken' => ~broken \/ Found(p)
      BY <1>1 DEF Found
    <2> QED
      BY <1>1, <2>1 DEF SchemaInv, TableStays, Found
  <1>4. Guarded'
    <2> SUFFICES ASSUME want, ~broken' \/ \E q \in Replicas : FoundRLS(q)'
                 PROVE  table'.rls \/ \E q \in Replicas : EnablesRLS(q)'
      BY DEF Guarded
    <2>1. ~broken' => ~broken \/ FoundRLS(p)
      BY <1>1 DEF FoundRLS
    <2>2. \A q \in Replicas : FoundRLS(q)' => FoundRLS(q)
      BY <1>1 DEF FoundRLS
    <2>3. table.rls \/ \E q \in Replicas : EnablesRLS(q)
      BY <2>1, <2>2 DEF SchemaInv, Guarded
    <2>4. ~EnablesRLS(p)
      BY DEF EnablesRLS
    <2> QED
      BY <1>1, <2>3, <2>4 DEF EnablesRLS
  <1>5. Unguarded'
    BY <1>1 DEF SchemaInv, Unguarded
  <1> QED
    BY <1>2, <1>3, <1>4, <1>5 DEF SchemaInv

LEMMA SchemaCheckPolicy ==
  ASSUME SchemaInv, NEW p \in Replicas, Schema!CheckPolicy(p)
  PROVE  SchemaInv'
  <1>1. procs[p].pc = "policy" /\ UNCHANGED <<spec, table, want>>
    BY DEF Schema!CheckPolicy, Schema!Checked, Schema!At
  <1>2. procs[p] \in Replica /\ table \in Table /\ want \in BOOLEAN
    BY DEF SchemaInv, SchemaTypeOK
  <1>3. CASE procs[p].rls = want /\ table.policy = want
    <2>1. Schema!Done(p)
      BY <1>3 DEF Schema!CheckPolicy, Schema!Checked
    <2>2. table'.columns = << >> => ~table'.rls /\ ~table'.policy
      BY <1>1 DEF SchemaInv, SchemaTypeOK
    <2>3. ~want => ~table.rls
      BY <1>1, <1>3 DEF SchemaInv, Unguarded
    <2> QED
      BY <1>1, <1>2, <1>3, <2>1, <2>2, <2>3, SchemaDone DEF HasTable
  <1>4. CASE ~(procs[p].rls = want /\ table.policy = want)
    <2> DEFINE pc == IF want THEN IF procs[p].rls THEN "drop policy" ELSE "enable"
                     ELSE IF table.policy THEN "drop policy" ELSE "disable"
    <2>1. Schema!To(p, pc) /\ broken' = broken
      BY <1>4 DEF Schema!CheckPolicy, Schema!Checked
    <2>2. /\ pc \in {"drop policy", "enable", "disable"} /\ (pc = "enable" => want) /\ (pc = "disable" => ~want /\ ~table.policy)
          /\ want => (pc = "enable" <=> ~procs[p].rls)
      OBVIOUS
    <2> HIDE DEF pc
    <2>3. /\ procs' \in [Replicas -> Replica] /\ procs'[p].pc = pc /\ procs'[p].sure = procs[p].sure
          /\ procs'[p].rls = procs[p].rls /\ procs'[p].desired = procs[p].desired
          /\ \A q \in Replicas \ {p} : procs'[q] = procs[q]
      BY <1>1, <2>1, <2>2, ToDoes DEF SchemaInv
    <2>4. SchemaTypeOK'
      BY <1>1, <2>1, <2>2, <2>3 DEF SchemaInv, SchemaTypeOK
    <2>5. TableStays'
      BY <1>1, <2>1, <2>2, <2>3 DEF SchemaInv, TableStays, Found, HasTable
    <2>6. Guarded'
      BY <1>1, <2>1, <2>2, <2>3 DEF SchemaInv, Guarded, FoundRLS, EnablesRLS, CreatesPolicy
    <2>7. Unguarded'
      BY <1>1, <2>1, <2>2, <2>3 DEF SchemaInv, Unguarded
    <2> QED
      BY <2>4, <2>5, <2>6, <2>7 DEF SchemaInv
  <1> QED
    BY <1>3, <1>4

LEMMA SchemaEnable ==
  ASSUME SchemaInv, NEW p \in Replicas, Schema!EnableRLS(p)
  PROVE  SchemaInv'
  <1>1. procs[p].pc = "enable" /\ UNCHANGED <<spec, want>>
    BY DEF Schema!EnableRLS, Schema!At
  <1>2. CASE ~HasTable
    <2>1. Schema!Fails(p) /\ table' = table
      BY <1>2, ExistsIs DEF Schema!EnableRLS, Schema!Alter, SchemaInv
    <2> QED
      BY <1>1, <2>1, SchemaFails
  <1>3. CASE HasTable
    <2>1. Schema!To(p, "drop policy") /\ broken' = broken /\ table' = [table EXCEPT !.rls = TRUE]
      BY <1>3, ExistsIs DEF Schema!EnableRLS, Schema!Alter, SchemaInv
    <2>2. /\ procs' \in [Replicas -> Replica] /\ procs'[p].pc = "drop policy" /\ procs'[p].sure = procs[p].sure
          /\ procs'[p].desired = procs[p].desired /\ \A q \in Replicas \ {p} : procs'[q] = procs[q]
      BY <1>1, <2>1, ToDoes DEF SchemaInv
    <2>3. table \in Table /\ want
      BY <1>1 DEF SchemaInv, SchemaTypeOK
    <2>4. table' \in Table /\ table'.rls /\ table'.policy = table.policy /\ HasTable'
      BY <1>3, <2>1, <2>3 DEF Table, HasTable
    <2>5. SchemaTypeOK'
      BY <1>1, <2>1, <2>2, <2>4 DEF SchemaInv, SchemaTypeOK, HasTable
    <2>6. TableStays' /\ Unguarded'
      BY <1>1, <2>3, <2>4 DEF TableStays, Unguarded
    <2>7. Guarded'
      BY <2>2, <2>4 DEF Guarded, CreatesPolicy
    <2> QED
      BY <2>5, <2>6, <2>7 DEF SchemaInv
  <1> QED
    BY <1>2, <1>3

\* The two statements after which a replica may be done.
LEMMA SchemaDisable ==
  ASSUME SchemaInv, NEW p \in Replicas, Schema!DisableRLS(p)
  PROVE  SchemaInv'
  <1>1. procs[p].pc = "disable" /\ UNCHANGED <<spec, want>>
    BY DEF Schema!DisableRLS, Schema!At
  <1>2. CASE ~HasTable
    <2>1. Schema!Fails(p) /\ table' = table
      BY <1>2, ExistsIs DEF Schema!DisableRLS, Schema!Alter, SchemaInv
    <2> QED
      BY <1>1, <2>1, SchemaFails
  <1>3. CASE HasTable
    <2>1. Schema!Done(p) /\ table' = [table EXCEPT !.rls = FALSE]
      BY <1>3, ExistsIs DEF Schema!DisableRLS, Schema!Alter, SchemaInv
    <2>2. table \in Table /\ ~want
      BY <1>1 DEF SchemaInv, SchemaTypeOK
    <2>3. ~table.policy
      BY <1>1, <2>2 DEF SchemaInv, Unguarded
    <2>4. table' \in Table /\ ~table'.rls /\ ~table'.policy /\ HasTable' = HasTable
      BY <2>1, <2>2, <2>3 DEF Table, HasTable
    <2> QED
      BY <1>1, <2>1, <2>2, <2>4, SchemaDone
  <1> QED
    BY <1>2, <1>3

LEMMA SchemaCreatePolicy ==
  ASSUME SchemaInv, NEW p \in Replicas, Schema!CreatePolicy(p)
  PROVE  SchemaInv'
  <1>1. procs[p].pc = "create policy" /\ UNCHANGED <<spec, want>>
    BY DEF Schema!CreatePolicy, Schema!At
  <1>2. CASE table.policy \/ ~HasTable
    <2>1. Schema!Fails(p) /\ table' = table
      BY <1>2, ExistsIs DEF Schema!CreatePolicy, Schema!Alter, SchemaInv
    <2> QED
      BY <1>1, <2>1, SchemaFails
  <1>3. CASE ~table.policy /\ HasTable
    <2>1. Schema!Done(p) /\ table' = [table EXCEPT !.policy = TRUE]
      BY <1>3, ExistsIs DEF Schema!CreatePolicy, Schema!Alter, SchemaInv
    <2>2. table \in Table /\ want
      BY <1>1 DEF SchemaInv, SchemaTypeOK
    <2>3. table' \in Table /\ table'.rls = table.rls /\ table'.policy /\ HasTable' = HasTable /\ HasTable'
      BY <1>3, <2>1, <2>2 DEF Table, HasTable
    <2>4. table'.columns # << >>
      BY <2>3 DEF HasTable
    <2> QED
      BY <1>1, <2>1, <2>2, <2>3, <2>4, SchemaDone
  <1> QED
    BY <1>2, <1>3

LEMMA SchemaDropPolicy ==
  ASSUME SchemaInv, NEW p \in Replicas, Schema!DropPolicy(p)
  PROVE  SchemaInv'
  <1>1. procs[p].pc = "drop policy" /\ UNCHANGED <<spec, want>>
    BY DEF Schema!DropPolicy, Schema!At
  <1>2. CASE ~HasTable
    <2>1. Schema!Fails(p) /\ table' = table
      BY <1>2, ExistsIs DEF Schema!DropPolicy, Schema!Alter, SchemaInv
    <2> QED
      BY <1>1, <2>1, SchemaFails
  <1>3. CASE HasTable
    <2>1. table \in Table /\ want \in BOOLEAN /\ procs[p] \in Replica
      BY DEF SchemaInv, SchemaTypeOK
    <2>2. table' = [table EXCEPT !.policy = FALSE]
      BY <1>3, ExistsIs DEF Schema!DropPolicy, Schema!Alter, SchemaInv
    <2>3. table' \in Table /\ table'.rls = table.rls /\ ~table'.policy /\ HasTable' = HasTable /\ HasTable'
      BY <1>3, <2>1, <2>2 DEF Table, HasTable
    <2>4. CASE ~want /\ ~procs[p].rls
      <3>1. Schema!Done(p)
        BY <1>3, <2>4, ExistsIs DEF Schema!DropPolicy, Schema!Alter, SchemaInv
      <3>2. ~table.rls
        BY <1>1, <2>4 DEF SchemaInv, Unguarded
      <3> QED
        BY <1>1, <2>3, <2>4, <3>1, <3>2, SchemaDone DEF HasTable
    <2>5. CASE want \/ procs[p].rls
      <3> DEFINE pc == IF want THEN "create policy" ELSE "disable"
      <3>1. Schema!To(p, pc) /\ broken' = broken
        BY <1>3, <2>5, ExistsIs DEF Schema!DropPolicy, Schema!Alter, SchemaInv
      <3>2. pc \in {"create policy", "disable"} /\ (want <=> pc = "create policy")
        BY <2>1
      <3> HIDE DEF pc
      <3>3. /\ procs' \in [Replicas -> Replica] /\ procs'[p].pc = pc /\ procs'[p].sure = procs[p].sure
            /\ procs'[p].rls = procs[p].rls /\ procs'[p].desired = procs[p].desired
            /\ \A q \in Replicas \ {p} : procs'[q] = procs[q]
        BY <1>1, <3>1, <3>2, ToDoes DEF SchemaInv
      <3>4. SchemaTypeOK'
        BY <1>1, <2>3, <3>1, <3>2, <3>3 DEF SchemaInv, SchemaTypeOK, HasTable
      <3>5. TableStays'
        BY <2>3 DEF TableStays
      <3>6. Guarded'
        BY <1>1, <2>3, <3>1, <3>2, <3>3 DEF SchemaInv, Guarded, FoundRLS, EnablesRLS, CreatesPolicy
      <3>7. Unguarded'
        BY <1>1, <2>3, <3>1, <3>2, <3>3 DEF SchemaInv, Unguarded
      <3> QED
        BY <3>4, <3>5, <3>6, <3>7 DEF SchemaInv
    <2> QED
      BY <2>1, <2>4, <2>5
  <1> QED
    BY <1>2, <1>3

\* The view changes; another release starts its replicas anew.
LEMMA SchemaChanges ==
  ASSUME SchemaInv, Schema!ChangeView \/ Schema!Deploy
  PROVE  SchemaInv'
  <1>1. CASE Schema!ChangeView
    <2>1. spec' \in Columns /\ UNCHANGED <<table, want, procs, broken>>
      BY <1>1 DEF Schema!ChangeView
    <2>2. SchemaTypeOK'
      BY <2>1 DEF SchemaInv, SchemaTypeOK
    <2>3. TableStays' /\ Guarded' /\ Unguarded'
      BY <2>1 DEF SchemaInv, TableStays, Found, HasTable, Guarded, FoundRLS, EnablesRLS, CreatesPolicy, Unguarded
    <2> QED
      BY <2>2, <2>3 DEF SchemaInv
  <1>2. CASE Schema!Deploy
    <2>1. want' \in BOOLEAN /\ broken' = TRUE /\ procs' = [p \in Replicas |-> Schema!Idle] /\ UNCHANGED <<spec, table>>
      BY <1>2 DEF Schema!Deploy
    <2>2. procs' \in [Replicas -> Replica] /\ \A p \in Replicas : procs'[p].pc = "idle"
      BY <2>1, IdleReplica
    <2>3. SchemaTypeOK'
      BY <2>1, <2>2 DEF SchemaInv, SchemaTypeOK
    <2>4. TableStays' /\ Guarded' /\ Unguarded'
      BY <2>1, <2>2 DEF TableStays, Guarded, Unguarded, Found, FoundRLS
    <2> QED
      BY <2>3, <2>4 DEF SchemaInv
  <1> QED
    BY <1>1, <1>2

LEMMA SchemaStep == SchemaInv /\ [Schema!Next]_schema => SchemaInv'
  <1> SUFFICES ASSUME SchemaInv, [Schema!Next]_schema PROVE SchemaInv'
    OBVIOUS
  <1>1. CASE UNCHANGED schema
    BY <1>1 DEF schema, SchemaInv, SchemaTypeOK, TableStays, Found, HasTable, Guarded, FoundRLS, EnablesRLS,
                CreatesPolicy, Unguarded
  <1>2. ASSUME NEW p \in Replicas, Schema!Abort(p)
        PROVE  SchemaInv'
    BY <1>2, SchemaFails DEF Schema!Abort
  <1>3. ASSUME NEW p \in Replicas, Schema!Sync(p)
        PROVE  SchemaInv'
    BY <1>3, SchemaInspect, SchemaApply, SchemaDrop, SchemaCreate, SchemaCheckRLS, SchemaCheckPolicy, SchemaEnable,
       SchemaDisable, SchemaDropPolicy, SchemaCreatePolicy DEF Schema!Sync
  <1> QED
    BY <1>1, <1>2, <1>3, SchemaChanges DEF Schema!Next

\* applyViewTableSchema and ensureViewRLSPolicy: once a replica has been through and none
\* has failed since it began, the table exists and has row level security and its policy
\* exactly if the release wants them, when nobody is at work - for any number of replicas
\* that drop, make and alter the table and its policy between each other's statements.
THEOREM TableSynced == Schema!Spec => []SyncedAsWanted
  <1>1. SchemaInv => SyncedAsWanted
    <2> SUFFICES ASSUME SchemaInv, ~broken, \A p \in Replicas : procs[p].pc = "idle"
                 PROVE  Schema!Exists /\ table.rls = want /\ table.policy = want
      BY DEF SyncedAsWanted, Schema!SyncedAsWanted, Schema!At
    <2>1. Schema!Exists
      BY ExistsIs DEF SchemaInv, TableStays
    <2>2. want \in BOOLEAN /\ table.rls \in BOOLEAN /\ table.policy \in BOOLEAN
      BY DEF SchemaInv, SchemaTypeOK, Table
    <2>3. want => table.rls /\ table.policy
      BY DEF SchemaInv, Guarded, EnablesRLS, CreatesPolicy
    <2>4. ~want => ~table.rls /\ ~table.policy
      BY DEF SchemaInv, Unguarded
    <2>5. (table.rls <=> want) /\ (table.policy <=> want)
      BY <2>3, <2>4
    <2> QED
      BY <2>1, <2>2, <2>5
  <1> QED
    BY <1>1, SchemaInit, SchemaStep, PTL DEF Schema!Spec, schema, Schema!vars

-----------------------------------------------------------------------------
(* Rows of views.                                                          *)

Places == Rows!Places
NoRow == Rows!NoRow
Shown == Values \union {Rows!None}
Staged == {<< >>} \union UNION {[keys -> Values] : keys \in SUBSET Keys}
InTransaction(p) == refreshing[p].pc # "idle"

RowsTypeOK ==
  /\ rows \in [Places -> [value : Shown, pushed : BOOLEAN]]
  /\ remote \in [Places -> Shown]
  /\ columns \in [here : Columns, upstream : Columns]
  /\ push \in [pc : {"idle", "match", "fetch", "push", "refused", "mark"}, columns : Columns \union {<< >>},
               batch : SUBSET (Places \X Values)]
  /\ refreshing \in [Refreshers -> [pc : {"idle", "upsert", "delete", "commit"}, print : Prints \union {Rows!None},
                                    staged : Staged, writes : SUBSET Places, alone : BOOLEAN]]
  /\ latest \in [Prints -> [alone : BOOLEAN, rows : SUBSET (Keys \X Values)]]

\* A row that is there has values.
RowsHaveValues == \A c \in Places : rows[c] # NoRow => rows[c].value \in Values

\* A refresh writes rows of its fingerprint, and none of them is there that it will not
\* have written, unless another one with that fingerprint has committed meanwhile.
RefreshesApart ==
  \A p \in Refreshers : InTransaction(p) =>
    /\ refreshing[p].print \in Prints
    /\ \A c \in refreshing[p].writes : c[2] = refreshing[p].print
    /\ refreshing[p].pc = "commit" /\ refreshing[p].alone =>
         \A c \in Places : c[2] = refreshing[p].print /\ rows[c] # NoRow => c \in refreshing[p].writes

\* What is pushed are rows as they were read, or that have changed since; and what is
\* about to be marked is on the upstream.
BatchAsRead ==
  /\ \A a, b \in push.batch : a[1] = b[1] => a = b
  /\ \A b \in push.batch : rows[b[1]].value = b[2] \/ b[1] \in changed
  /\ push.pc = "mark" => \A b \in push.batch : remote[b[1]] = b[2]

RowsInv ==
  /\ RowsTypeOK /\ RowsHaveValues /\ RefreshesApart /\ BatchAsRead
  /\ RefreshedIsRead /\ PushedAreThere

LEMMA RowTypes ==
  /\ Rows!None \notin Values /\ NoRow = [value |-> Rows!None, pushed |-> FALSE]
  /\ \A c \in Places : c[1] \in Keys /\ c[2] \in Prints /\ c = <<c[1], c[2]>>
  /\ \A k \in Keys, f \in Prints : <<k, f>> \in Places
  BY ServerAssumption DEF ServerAssumption, Rows!ViewRowsAssumption, NoRow, Rows!NoRow, Places, Rows!Places

LEMMA NothingStaged ==
  /\ << >> \in Staged
  /\ Rows!Idle \in [pc : {"idle", "upsert", "delete", "commit"}, print : Prints \union {Rows!None},
                    staged : Staged, writes : SUBSET Places, alone : BOOLEAN]
  <1>1. << >> \in Staged
    BY DEF Staged
  <1> QED
    BY <1>1 DEF Rows!Idle

LEMMA RowsInit == Rows!Init => RowsInv
  <1> SUFFICES ASSUME Rows!Init PROVE RowsInv
    OBVIOUS
  <1> USE RowTypes DEF Rows!Init
  <1>1. RowsTypeOK
    <2>1. NoRow \in [value : Shown, pushed : BOOLEAN]
      BY DEF Shown
    <2>2. Rows!NoPush \in [pc : {"idle", "match", "fetch", "push", "refused", "mark"}, columns : Columns \union {<< >>},
                           batch : SUBSET (Places \X Values)]
      BY DEF Rows!NoPush
    <2>3. Rows!Idle \in [pc : {"idle", "upsert", "delete", "commit"}, print : Prints \union {Rows!None},
                         staged : Staged, writes : SUBSET Places, alone : BOOLEAN]
      BY NothingStaged
    <2> QED
      BY <2>1, <2>2, <2>3 DEF RowsTypeOK, Rows!NoRows, Rows!NothingShown, Places, NoRow, Shown
  <1>2. \A c \in Places : rows[c] = NoRow
    BY DEF Rows!NoRows, Places, NoRow
  <1>3. RowsHaveValues /\ PushedAreThere
    <2>1. RowsHaveValues
      BY <1>2 DEF RowsHaveValues
    <2>2. \A c \in Places : ~rows[c].pushed
      BY <1>2
    <2> QED
      BY <2>1, <2>2 DEF PushedAreThere, Rows!PushedAreThere, Places
  <1>4. RefreshesApart
    BY DEF RefreshesApart, InTransaction, Rows!Idle
  <1>5. BatchAsRead
    BY DEF BatchAsRead, Rows!NoPush
  <1>6. RefreshedIsRead
    BY <1>2 DEF RefreshedIsRead, Rows!RefreshedIsRead, Rows!Read, Rows!NothingShown, NoRow
  <1> QED
    BY <1>1, <1>3, <1>4, <1>5, <1>6 DEF RowsInv

\* What a request reads follows from which rows are there and their values.
LEMMA ReadKept ==
  ASSUME RowsTypeOK, RowsTypeOK', NEW f \in Prints,
         \A k \in Keys : /\ rows'[<<k, f>>] # NoRow <=> rows[<<k, f>>] # NoRow
                         /\ rows'[<<k, f>>].value = rows[<<k, f>>].value
  PROVE  Rows!Read(f)' = Rows!Read(f)
  <1>1. Rows!Read(f) = {<<k, rows[<<k, f>>].value>> : k \in {j \in Keys : rows[<<j, f>>] # NoRow}}
    BY DEF Rows!Read, NoRow
  <1>2. Rows!Read(f)' = {<<k, rows'[<<k, f>>].value>> : k \in {j \in Keys : rows'[<<j, f>>] # NoRow}}
    BY DEF Rows!Read, NoRow
  <1> QED
    BY <1>1, <1>2

\* Nothing of this is disturbed by steps of a refresh before it commits.
LEMMA RowsUnchanged ==
  ASSUME RowsInv, UNCHANGED <<rows, latest, remote, push, changed>>, RowsTypeOK', RefreshesApart'
  PROVE  RowsInv'
  <1>1. RowsHaveValues' /\ BatchAsRead' /\ PushedAreThere'
    BY DEF RowsInv, RowsHaveValues, BatchAsRead, PushedAreThere, Rows!PushedAreThere
  <1>2. RefreshedIsRead'
    BY DEF RowsInv, RefreshedIsRead, Rows!RefreshedIsRead, Rows!Read
  <1> QED
    BY <1>1, <1>2 DEF RowsInv

LEMMA RowsStage ==
  ASSUME RowsInv, NEW p \in Refreshers, Rows!Stage(p)
  PROVE  RowsInv'
  <1>1. PICK f \in Prints, keys \in SUBSET Keys : \E values \in [keys -> Values] :
          refreshing' = [refreshing EXCEPT ![p] = [pc |-> "upsert", print |-> f, staged |-> values, writes |-> {},
                           alone |-> \A q \in Rows!InTransaction : refreshing[q].print # f]]
    BY DEF Rows!Stage
  <1>2. PICK values \in [keys -> Values] :
          refreshing' = [refreshing EXCEPT ![p] = [pc |-> "upsert", print |-> f, staged |-> values, writes |-> {},
                           alone |-> \A q \in Rows!InTransaction : refreshing[q].print # f]]
    BY <1>1
  <1> DEFINE a == \A q \in Rows!InTransaction : refreshing[q].print # f
             r == [pc |-> "upsert", print |-> f, staged |-> values, writes |-> {}, alone |-> a]
  <1>3. r \in [pc : {"idle", "upsert", "delete", "commit"}, print : Prints \union {Rows!None},
               staged : Staged, writes : SUBSET Places, alone : BOOLEAN]
    <2>1. values \in Staged
      BY DEF Staged
    <2>2. a \in BOOLEAN
      OBVIOUS
    <2> HIDE DEF a
    <2> QED
      BY <2>1, <2>2
  <1>4. r.pc = "upsert" /\ r.print = f /\ r.writes = {}
    OBVIOUS
  <1>5. refreshing' = [refreshing EXCEPT ![p] = r] /\ UNCHANGED <<columns, rows, latest, remote, push, changed>>
    BY <1>2 DEF Rows!Stage
  <1> HIDE DEF r
  <1>6. RowsTypeOK'
    BY <1>3, <1>5 DEF RowsInv, RowsTypeOK
  <1>7. \A q \in Refreshers : refreshing'[q] = IF q = p THEN r ELSE refreshing[q]
    BY <1>5 DEF RowsInv, RowsTypeOK
  <1>8. RefreshesApart'
    BY <1>4, <1>5, <1>7 DEF RowsInv, RefreshesApart, InTransaction
  <1> QED
    BY <1>5, <1>6, <1>8, RowsUnchanged

\* The rows a refresh has staged are of its fingerprint.
LEMMA WrittenAre ==
  ASSUME RowsInv, NEW p \in Refreshers, InTransaction(p)
  PROVE  /\ refreshing[p].print \in Prints /\ DOMAIN refreshing[p].staged \subseteq Keys
         /\ \A k \in DOMAIN refreshing[p].staged : refreshing[p].staged[k] \in Values
         /\ Rows!Written(p) \subseteq Places /\ \A c \in Rows!Written(p) : c[2] = refreshing[p].print
         /\ \A k \in Keys, f \in Prints :
              <<k, f>> \in Rows!Written(p) <=> f = refreshing[p].print /\ k \in DOMAIN refreshing[p].staged
  <1>1. refreshing[p].print \in Prints /\ refreshing[p].staged \in Staged
    BY DEF RowsInv, RefreshesApart, RowsTypeOK
  <1>2. /\ DOMAIN refreshing[p].staged \subseteq Keys
        /\ \A k \in DOMAIN refreshing[p].staged : refreshing[p].staged[k] \in Values
    <2> DEFINE s == refreshing[p].staged
    <2>1. CASE s = << >>
      <3>1. DOMAIN s = {}
        BY <2>1
      <3> QED
        BY <3>1
    <2>2. CASE \E keys \in SUBSET Keys : s \in [keys -> Values]
      BY <2>2
    <2> QED
      BY <1>1, <2>1, <2>2 DEF Staged
  <1>3. Rows!Written(p) = {<<k, refreshing[p].print>> : k \in DOMAIN refreshing[p].staged}
    BY DEF Rows!Written
  <1> QED
    BY <1>1, <1>2, <1>3, RowTypes

LEMMA RowsGo ==
  ASSUME RowsInv, NEW p \in Refreshers, Rows!Upsert(p) \/ Rows!DeleteStale(p)
  PROVE  RowsInv'
  <1>1. PICK pc \in {"delete", "commit"}, ws \in {Rows!Written(p), Rows!Written(p) \union Rows!Stale(p)} :
          /\ refreshing' = [refreshing EXCEPT ![p].pc = pc, ![p].writes = ws] /\ InTransaction(p)
          /\ pc = "commit" => ws = Rows!Written(p) \union Rows!Stale(p)
    BY DEF Rows!Upsert, Rows!DeleteStale, Rows!Goes, Rows!At, InTransaction
  <1>2. UNCHANGED <<columns, rows, latest, remote, push, changed>>
    BY DEF Rows!Upsert, Rows!DeleteStale
  <1>3. Rows!Stale(p) = {c \in Places : rows[c] # NoRow /\ c[2] = refreshing[p].print} \ Rows!Written(p)
    BY DEF Rows!Stale, NoRow, Places
  <1>4. ws \subseteq Places /\ \A c \in ws : c[2] = refreshing[p].print
    BY <1>1, <1>3, WrittenAre
  <1>5. refreshing[p] \in [pc : {"idle", "upsert", "delete", "commit"}, print : Prints \union {Rows!None},
                           staged : Staged, writes : SUBSET Places, alone : BOOLEAN]
    BY DEF RowsInv, RowsTypeOK
  <1>6. \A q \in Refreshers : refreshing'[q] = IF q = p THEN [refreshing[p] EXCEPT !.pc = pc, !.writes = ws] ELSE refreshing[q]
    BY <1>1 DEF RowsInv, RowsTypeOK
  <1>7. /\ refreshing'[p] \in [pc : {"idle", "upsert", "delete", "commit"}, print : Prints \union {Rows!None},
                               staged : Staged, writes : SUBSET Places, alone : BOOLEAN]
        /\ refreshing'[p].pc = pc /\ refreshing'[p].writes = ws /\ refreshing'[p].print = refreshing[p].print
    BY <1>4, <1>5, <1>6
  <1>8. RowsTypeOK'
    <2>1. DOMAIN refreshing' = Refreshers /\ refreshing' = [q \in Refreshers |-> refreshing'[q]]
      BY <1>1 DEF RowsInv, RowsTypeOK
    <2>2. refreshing' \in [Refreshers -> [pc : {"idle", "upsert", "delete", "commit"}, print : Prints \union {Rows!None},
                                          staged : Staged, writes : SUBSET Places, alone : BOOLEAN]]
      BY <1>6, <1>7, <2>1 DEF RowsInv, RowsTypeOK
    <2> QED
      BY <1>2, <2>2 DEF RowsInv, RowsTypeOK
  <1>9. RefreshesApart'
    <2> SUFFICES ASSUME NEW q \in Refreshers, refreshing'[q].pc # "idle"
                 PROVE  /\ refreshing'[q].print \in Prints
                        /\ \A c \in refreshing'[q].writes : c[2] = refreshing'[q].print
                        /\ refreshing'[q].pc = "commit" /\ refreshing'[q].alone =>
                             \A c \in Places : c[2] = refreshing'[q].print /\ rows[c] # NoRow => c \in refreshing'[q].writes
      BY <1>2 DEF RefreshesApart, InTransaction
    <2>1. CASE q = p
      <3>1. pc = "commit" => \A c \in Places : c[2] = refreshing[p].print /\ rows[c] # NoRow => c \in ws
        BY <1>1, <1>3
      <3>2. refreshing[p].print \in Prints
        BY <1>1, WrittenAre
      <3> QED
        BY <1>4, <1>7, <2>1, <3>1, <3>2
    <2>2. CASE q # p
      BY <1>6, <2>2 DEF RowsInv, RefreshesApart, InTransaction
    <2> QED
      BY <2>1, <2>2
  <1> QED
    BY <1>2, <1>8, <1>9, RowsUnchanged

LEMMA RowsAbort ==
  ASSUME RowsInv, NEW p \in Refreshers, Rows!Abort(p)
  PROVE  RowsInv'
  <1>1. refreshing' = [refreshing EXCEPT ![p] = Rows!Idle] /\ UNCHANGED <<columns, rows, latest, remote, push, changed>>
    BY DEF Rows!Abort
  <1>2. Rows!Idle \in [pc : {"idle", "upsert", "delete", "commit"}, print : Prints \union {Rows!None},
                       staged : Staged, writes : SUBSET Places, alone : BOOLEAN]
    BY NothingStaged
  <1>3. RowsTypeOK'
    BY <1>1, <1>2 DEF RowsInv, RowsTypeOK
  <1>4. \A q \in Refreshers : refreshing'[q] = IF q = p THEN Rows!Idle ELSE refreshing[q]
    BY <1>1 DEF RowsInv, RowsTypeOK
  <1>5. RefreshesApart'
    BY <1>1, <1>4 DEF RowsInv, RefreshesApart, InTransaction, Rows!Idle
  <1> QED
    BY <1>1, <1>3, <1>5, RowsUnchanged

\* InsertViewRows commits: what is there of its fingerprint is what it has staged, if it
\* was alone.
LEMMA RowsCommit ==
  ASSUME RowsInv, NEW p \in Refreshers, Rows!Commit(p)
  PROVE  RowsInv'
  <1> DEFINE w == refreshing[p].writes
             f == refreshing[p].print
             s == refreshing[p].staged
             W == Rows!Written(p)
             overlapping == Rows!Overlapping(p)
             alone == refreshing[p].alone /\ overlapping = {}
  <1>1. /\ refreshing[p].pc = "commit" /\ InTransaction(p) /\ UNCHANGED <<columns, remote, push>>
        /\ rows' = [c \in Places |-> IF c \in W THEN [rows[c] EXCEPT !.value = s[c[1]]]
                                     ELSE IF c \in w THEN NoRow ELSE rows[c]]
        /\ changed' = changed \union {c \in Places : rows'[c].value # rows[c].value /\ (rows[c] # NoRow \/ c \in Rows!InBatch)}
        /\ refreshing' = [q \in Refreshers |-> IF q = p THEN Rows!Idle
                                               ELSE [refreshing[q] EXCEPT !.alone = @ /\ q \notin overlapping]]
        /\ latest' = [latest EXCEPT ![f] = [alone |-> alone, rows |-> {<<k, s[k]>> : k \in DOMAIN s}]]
    BY DEF Rows!Commit, Rows!At, InTransaction, Places, NoRow
  <1>2. /\ f \in Prints /\ DOMAIN s \subseteq Keys /\ \A k \in DOMAIN s : s[k] \in Values
        /\ W \subseteq Places /\ \A c \in W : c[2] = f
        /\ \A k \in Keys, g \in Prints : <<k, g>> \in W <=> g = f /\ k \in DOMAIN s
    BY <1>1, WrittenAre
  <1>3. /\ \A c \in w : c[2] = f
        /\ refreshing[p].alone => \A c \in Places : c[2] = f /\ rows[c] # NoRow => c \in w
    BY <1>1 DEF RowsInv, RefreshesApart
  <1>4. \A q \in Refreshers : q \in overlapping <=> q # p /\ InTransaction(q) /\ refreshing[q].print = f
    BY DEF Rows!Overlapping, Rows!InTransaction, Rows!At, InTransaction
  <1>5. alone \in BOOLEAN
    OBVIOUS
  <1> HIDE DEF w, f, s, W, overlapping, alone
  <1>6. ASSUME NEW c \in Places
        PROVE  /\ rows[c] \in [value : Shown, pushed : BOOLEAN]
               /\ c \in W => /\ s[c[1]] \in Values /\ rows'[c] \in [value : Shown, pushed : BOOLEAN]
                             /\ rows'[c].value = s[c[1]] /\ rows'[c].pushed = rows[c].pushed /\ rows'[c] # NoRow
               /\ c \notin W /\ c \in w => rows'[c] = NoRow
               /\ c \notin W /\ c \notin w => rows'[c] = rows[c]
    <2>1. rows[c] \in [value : Shown, pushed : BOOLEAN]
      BY DEF RowsInv, RowsTypeOK
    <2>2. rows'[c] = IF c \in W THEN [rows[c] EXCEPT !.value = s[c[1]]] ELSE IF c \in w THEN NoRow ELSE rows[c]
      BY <1>1
    <2>3. c \in W => s[c[1]] \in Values
      BY <1>2, RowTypes
    <2>4. CASE c \in W
      <3>1. rows'[c] = [rows[c] EXCEPT !.value = s[c[1]]] /\ s[c[1]] # Rows!None
        BY <2>2, <2>3, <2>4, RowTypes
      <3> QED
        BY <2>1, <2>3, <2>4, <3>1, RowTypes DEF Shown
    <2>5. CASE c \notin W
      BY <2>1, <2>2, <2>5
    <2> QED
      BY <2>4, <2>5
  <1>7. RowsTypeOK'
    <2>1. rows' \in [Places -> [value : Shown, pushed : BOOLEAN]]
      <3>1. \A c \in Places : rows'[c] \in [value : Shown, pushed : BOOLEAN]
        <4>1. NoRow \in [value : Shown, pushed : BOOLEAN]
          BY RowTypes DEF Shown
        <4> QED
          BY <1>6, <4>1
      <3>2. rows' = [c \in Places |-> rows'[c]]
        BY <1>1
      <3> QED
        BY <3>1, <3>2
    <2>2. latest' \in [Prints -> [alone : BOOLEAN, rows : SUBSET (Keys \X Values)]]
      <3>1. {<<k, s[k]>> : k \in DOMAIN s} \subseteq Keys \X Values
        BY <1>2
      <3>2. [alone |-> alone, rows |-> {<<k, s[k]>> : k \in DOMAIN s}] \in [alone : BOOLEAN, rows : SUBSET (Keys \X Values)]
        BY <1>5, <3>1
      <3> QED
        BY <1>1, <3>2 DEF RowsInv, RowsTypeOK
    <2>3. \A q \in Refreshers : refreshing'[q] \in [pc : {"idle", "upsert", "delete", "commit"}, print : Prints \union {Rows!None},
                                                    staged : Staged, writes : SUBSET Places, alone : BOOLEAN]
      <3> TAKE q \in Refreshers
      <3>1. refreshing[q] \in [pc : {"idle", "upsert", "delete", "commit"}, print : Prints \union {Rows!None},
                               staged : Staged, writes : SUBSET Places, alone : BOOLEAN]
        BY DEF RowsInv, RowsTypeOK
      <3>2. CASE q = p
        BY <1>1, <3>2, NothingStaged
      <3>3. CASE q # p
        <4>1. refreshing'[q] = [refreshing[q] EXCEPT !.alone = refreshing[q].alone /\ q \notin overlapping]
          BY <1>1, <3>3
        <4> DEFINE b == refreshing[q].alone /\ q \notin overlapping
        <4>2. b \in BOOLEAN
          OBVIOUS
        <4> HIDE DEF b
        <4> QED
          BY <3>1, <4>1, <4>2 DEF b
      <3> QED
        BY <3>2, <3>3
    <2>4. refreshing' \in [Refreshers -> [pc : {"idle", "upsert", "delete", "commit"}, print : Prints \union {Rows!None},
                                          staged : Staged, writes : SUBSET Places, alone : BOOLEAN]]
      <3>1. refreshing' = [q \in Refreshers |-> refreshing'[q]]
        BY <1>1
      <3> QED
        BY <2>3, <3>1
    <2> QED
      BY <1>1, <2>1, <2>2, <2>4 DEF RowsInv, RowsTypeOK
  <1>8. RowsHaveValues'
    BY <1>6 DEF RowsInv, RowsHaveValues
  <1>9. ASSUME NEW c \in Places, c[2] # f
        PROVE  rows'[c] = rows[c]
    BY <1>2, <1>3, <1>6, <1>9
  <1>10. ASSUME NEW q \in Refreshers
         PROVE  /\ q = p => refreshing'[q].pc = "idle"
                /\ q # p => /\ refreshing'[q].pc = refreshing[q].pc /\ refreshing'[q].print = refreshing[q].print
                            /\ refreshing'[q].writes = refreshing[q].writes
                            /\ refreshing'[q].alone <=> refreshing[q].alone /\ q \notin overlapping
    <2>1. CASE q = p
      BY <1>1, <2>1 DEF Rows!Idle
    <2>2. CASE q # p
      <3>1. refreshing'[q] = [refreshing[q] EXCEPT !.alone = refreshing[q].alone /\ q \notin overlapping]
        BY <1>1, <2>2
      <3>2. refreshing[q] \in [pc : {"idle", "upsert", "delete", "commit"}, print : Prints \union {Rows!None},
                               staged : Staged, writes : SUBSET Places, alone : BOOLEAN]
        BY DEF RowsInv, RowsTypeOK
      <3> QED
        BY <2>2, <3>1, <3>2
    <2> QED
      BY <2>1, <2>2
  <1>11. RefreshesApart'
    <2> SUFFICES ASSUME NEW q \in Refreshers, refreshing'[q].pc # "idle"
                 PROVE  /\ refreshing'[q].print \in Prints
                        /\ \A c \in refreshing'[q].writes : c[2] = refreshing'[q].print
                        /\ refreshing'[q].pc = "commit" /\ refreshing'[q].alone =>
                             \A c \in Places : c[2] = refreshing'[q].print /\ rows'[c] # NoRow => c \in refreshing'[q].writes
      BY DEF RefreshesApart, InTransaction, NoRow
    <2>1. q # p /\ InTransaction(q)
      BY <1>10 DEF InTransaction
    <2>2. refreshing'[q].alone => refreshing[q].print # f
      BY <1>4, <1>10, <2>1
    <2> QED
      BY <1>9, <1>10, <2>1, <2>2 DEF RowsInv, RefreshesApart
  <1>12. BatchAsRead'
    <2> SUFFICES ASSUME NEW b \in push.batch
                 PROVE  rows'[b[1]].value = b[2] \/ b[1] \in changed'
      BY <1>1 DEF RowsInv, BatchAsRead
    <2>1. b[1] \in Places /\ b[1] \in Rows!InBatch
      BY DEF RowsInv, RowsTypeOK, Rows!InBatch
    <2> QED
      BY <1>1, <2>1 DEF RowsInv, BatchAsRead
  <1>13. PushedAreThere'
    <2> SUFFICES ASSUME NEW c \in Places, rows'[c].pushed
                 PROVE  remote[c] # Rows!None /\ (remote[c] = rows'[c].value \/ c \in changed')
      BY <1>1 DEF PushedAreThere, Rows!PushedAreThere, Places
    <2>1. rows[c].pushed /\ rows[c] # NoRow
      BY <1>6, RowTypes
    <2>2. remote[c] # Rows!None /\ (remote[c] = rows[c].value \/ c \in changed)
      BY <2>1 DEF RowsInv, PushedAreThere, Rows!PushedAreThere, Places
    <2> QED
      BY <1>1, <2>1, <2>2
  <1>14. RefreshedIsRead'
    <2> SUFFICES ASSUME NEW g \in Prints, latest'[g].alone
                 PROVE  Rows!Read(g)' = latest'[g].rows
      BY DEF RefreshedIsRead, Rows!RefreshedIsRead
    <2>1. CASE g # f
      <3>1. latest'[g] = latest[g]
        BY <1>1, <2>1 DEF RowsInv, RowsTypeOK
      <3>2. \A k \in Keys : <<k, g>> \in Places /\ <<k, g>>[2] = g
        BY RowTypes
      <3>3. \A k \in Keys : rows'[<<k, g>>] = rows[<<k, g>>]
        BY <1>9, <2>1, <3>2
      <3>4. Rows!Read(g)' = Rows!Read(g)
        BY <1>7, <3>3, ReadKept DEF RowsInv
      <3> QED
        BY <3>1, <3>4 DEF RowsInv, RefreshedIsRead, Rows!RefreshedIsRead
    <2>2. CASE g = f
      <3>1. latest'[g].alone = alone /\ latest'[g].rows = {<<k, s[k]>> : k \in DOMAIN s}
        BY <1>1, <2>2 DEF RowsInv, RowsTypeOK
      <3>2. refreshing[p].alone
        BY <3>1 DEF alone
      <3>3. ASSUME NEW k \in Keys
            PROVE  /\ rows'[<<k, g>>] # NoRow <=> k \in DOMAIN s
                   /\ k \in DOMAIN s => rows'[<<k, g>>].value = s[k]
        <4>1. <<k, g>> \in Places /\ <<k, g>>[1] = k /\ <<k, g>>[2] = g
          BY RowTypes
        <4>2. <<k, g>> \in W <=> k \in DOMAIN s
          BY <1>2, <2>2
        <4>3. rows[<<k, g>>] # NoRow => <<k, g>> \in w
          BY <1>3, <2>2, <3>2, <4>1
        <4> QED
          BY <1>6, <4>1, <4>2, <4>3
      <3> DEFINE there == {j \in Keys : rows'[<<j, g>>] # NoRow}
                 value(k) == rows'[<<k, g>>].value
      <3>4. Rows!Read(g)' = {<<k, value(k)>> : k \in there}
        BY DEF Rows!Read, NoRow
      <3>5. there = DOMAIN s
        BY <1>2, <3>3
      <3>6. \A k \in DOMAIN s : value(k) = s[k]
        BY <1>2, <3>3
      <3> HIDE DEF there, value
      <3>7. Rows!Read(g)' = {<<k, value(k)>> : k \in DOMAIN s}
        BY <3>4, <3>5
      <3>8. {<<k, value(k)>> : k \in DOMAIN s} = {<<k, s[k]>> : k \in DOMAIN s}
        BY <3>6
      <3> QED
        BY <3>1, <3>7, <3>8
    <2> QED
      BY <2>1, <2>2
  <1> QED
    BY <1>7, <1>8, <1>11, <1>12, <1>13, <1>14 DEF RowsInv

\* The table is made anew, without its rows.
LEMMA RowsRecreate ==
  ASSUME RowsInv, Rows!Recreate
  PROVE  RowsInv'
  <1>1. /\ rows' = [c \in Places |-> NoRow] /\ latest' = [f \in Prints |-> [alone |-> TRUE, rows |-> {}]]
        /\ changed' = changed \union Rows!InBatch
        /\ \A p \in Refreshers : ~InTransaction(p)
        /\ UNCHANGED <<columns, refreshing, remote, push>>
    BY DEF Rows!Recreate, Rows!NoRows, Rows!NothingShown, Rows!InTransaction, Rows!At, InTransaction, Places, NoRow
  <1>2. NoRow \in [value : Shown, pushed : BOOLEAN]
    BY RowTypes DEF Shown
  <1>3. RowsTypeOK'
    BY <1>1, <1>2 DEF RowsInv, RowsTypeOK
  <1>4. RowsHaveValues'
    BY <1>1 DEF RowsHaveValues
  <1>5. RefreshesApart'
    BY <1>1 DEF RefreshesApart, InTransaction
  <1>6. BatchAsRead'
    BY <1>1 DEF RowsInv, BatchAsRead, Rows!InBatch
  <1>7. PushedAreThere'
    <2>1. \A c \in Places : ~rows'[c].pushed
      BY <1>1, RowTypes
    <2> QED
      BY <2>1 DEF PushedAreThere, Rows!PushedAreThere, Places
  <1>8. RefreshedIsRead'
    <2>1. \A f \in Prints : Rows!Read(f)' = {}
      BY <1>1, RowTypes DEF Rows!Read, NoRow
    <2> QED
      BY <1>1, <2>1 DEF RefreshedIsRead, Rows!RefreshedIsRead
  <1> QED
    BY <1>3, <1>4, <1>5, <1>6, <1>7, <1>8 DEF RowsInv

\* The steps of the reconciler that touch neither table.
LEMMA RowsPushed ==
  ASSUME RowsInv, UNCHANGED <<rows, refreshing, latest, remote>>,
         columns' \in [here : Columns, upstream : Columns],
         push' \in [pc : {"idle", "match", "fetch", "push", "refused", "mark"}, columns : Columns \union {<< >>},
                    batch : SUBSET (Places \X Values)],
         \A c \in changed \ changed' : ~rows[c].pushed, BatchAsRead'
  PROVE  RowsInv'
  <1>1. RowsTypeOK'
    BY DEF RowsInv, RowsTypeOK
  <1>2. RowsHaveValues' /\ RefreshesApart' /\ PushedAreThere'
    BY DEF RowsInv, RowsHaveValues, RefreshesApart, InTransaction, PushedAreThere, Rows!PushedAreThere
  <1>3. RefreshedIsRead'
    <2>1. \A f \in Prints : Rows!Read(f)' = Rows!Read(f)
      BY DEF Rows!Read
    <2> QED
      BY <2>1 DEF RowsInv, RefreshedIsRead, Rows!RefreshedIsRead
  <1> QED
    BY <1>1, <1>2, <1>3 DEF RowsInv

PushTypes == [pc : {"idle", "match", "fetch", "push", "refused", "mark"}, columns : Columns \union {<< >>},
              batch : SUBSET (Places \X Values)]

LEMMA NoPushTypes == Rows!NoPush \in PushTypes /\ Rows!NoPush.batch = {} /\ Rows!NoPush.pc # "mark"
  BY DEF Rows!NoPush, PushTypes

\* ListViews and columnsMatch, what was refused, and views that change.
LEMMA RowsNotPushed ==
  ASSUME RowsInv,
         \/ Rows!ChangeView \/ Rows!ListViews \/ Rows!ListExpires \/ Rows!MatchColumns \/ Rows!Refused
  PROVE  RowsInv'
  <1>1. UNCHANGED <<rows, refreshing, latest, remote, changed>> /\ columns' \in [here : Columns, upstream : Columns]
    BY DEF Rows!ChangeView, Rows!ListViews, Rows!ListExpires, Rows!MatchColumns, Rows!Refused, RowsInv, RowsTypeOK
  <1>2. push' = push \/ push' = Rows!NoPush \/ push' = [Rows!NoPush EXCEPT !.pc = "match"]
        \/ push' = [Rows!NoPush EXCEPT !.pc = "fetch", !.columns = columns.here]
    BY DEF Rows!ChangeView, Rows!ListViews, Rows!ListExpires, Rows!MatchColumns, Rows!Refused
  <1>3. columns.here \in Columns /\ push \in PushTypes
    BY DEF RowsInv, RowsTypeOK, PushTypes
  <1>4. push' \in PushTypes /\ (push' = push \/ (push'.batch = {} /\ push'.pc # "mark"))
    <2>1. CASE push' = Rows!NoPush
      BY <2>1, NoPushTypes
    <2>2. CASE push' = [Rows!NoPush EXCEPT !.pc = "match"]
      BY <2>2 DEF Rows!NoPush, PushTypes
    <2>3. CASE push' = [Rows!NoPush EXCEPT !.pc = "fetch", !.columns = columns.here]
      <3>1. push' = [pc |-> "fetch", columns |-> columns.here, batch |-> {}]
        BY <2>3 DEF Rows!NoPush
      <3> QED
        BY <1>3, <3>1 DEF PushTypes
    <2> QED
      BY <1>2, <1>3, <2>1, <2>2, <2>3
  <1>5. BatchAsRead'
    BY <1>1, <1>4 DEF RowsInv, BatchAsRead
  <1> QED
    BY <1>1, <1>4, <1>5, RowsPushed DEF PushTypes

\* GetUnpushed.
LEMMA RowsFetch ==
  ASSUME RowsInv, Rows!Fetch
  PROVE  RowsInv'
  <1> DEFINE batch == {<<c, rows[c].value>> : c \in Rows!Unpushed}
  <1>1. /\ UNCHANGED <<rows, refreshing, latest, remote, columns>> /\ push.pc = "fetch"
        /\ changed' = changed \ Rows!Unpushed
        /\ push' = Rows!NoPush \/ push' = [push EXCEPT !.pc = "push", !.batch = batch]
    BY DEF Rows!Fetch
  <1>2. Rows!Unpushed = {c \in Places : rows[c] # NoRow /\ ~rows[c].pushed}
    BY DEF Rows!Unpushed, Places, NoRow
  <1>3. batch \subseteq Places \X Values
    BY <1>2 DEF RowsInv, RowsHaveValues
  <1>4. /\ \A a, b \in batch : a[1] = b[1] => a = b
        /\ \A b \in batch : rows[b[1]].value = b[2]
    OBVIOUS
  <1> HIDE DEF batch
  <1>5. push \in PushTypes
    BY DEF RowsInv, RowsTypeOK, PushTypes
  <1>6. push' \in PushTypes /\ push'.pc # "mark" /\ push'.batch \in {{}, batch}
    <2>1. CASE push' = Rows!NoPush
      BY <2>1, NoPushTypes
    <2>2. CASE push' = [push EXCEPT !.pc = "push", !.batch = batch]
      BY <1>3, <1>5, <2>2 DEF PushTypes
    <2> QED
      BY <1>1, <2>1, <2>2
  <1>7. BatchAsRead'
    BY <1>1, <1>4, <1>6 DEF BatchAsRead
  <1>8. \A c \in changed \ changed' : ~rows[c].pushed
    BY <1>1, <1>2
  <1> QED
    BY <1>1, <1>6, <1>7, <1>8, RowsPushed DEF RowsInv, RowsTypeOK, PushTypes

\* upsertViewData: a row that is marked is on the upstream already, and so not in a
\* batch that it takes.
LEMMA RowsPush ==
  ASSUME RowsInv, NEW answered \in BOOLEAN, Rows!Push(answered)
  PROVE  RowsInv'
  <1>1. UNCHANGED <<rows, refreshing, latest, columns, changed>> /\ push.pc = "push"
    BY DEF Rows!Push
  <1>2. push \in PushTypes /\ push.batch \subseteq Places \X Values
    BY DEF RowsInv, RowsTypeOK, PushTypes
  <1>3. CASE ~Rows!Accepted
    <2>1. remote' = remote /\ push' = [push EXCEPT !.pc = "refused"]
      BY <1>3 DEF Rows!Push
    <2>2. push' \in PushTypes /\ push'.batch = push.batch /\ push'.pc # "mark"
      BY <1>2, <2>1 DEF PushTypes
    <2>3. BatchAsRead'
      BY <1>1, <2>2 DEF RowsInv, BatchAsRead
    <2> QED
      BY <1>1, <2>1, <2>2, <2>3, RowsPushed DEF RowsInv, RowsTypeOK, PushTypes
  <1>4. CASE Rows!Accepted
    <2>1. /\ remote' = Rows!Stored /\ \A c \in Rows!InBatch : remote[c] = Rows!None
          /\ push' = [push EXCEPT !.pc = "mark"] \/ push' = Rows!NoPush
      BY <1>4 DEF Rows!Push, Rows!Accepted
    <2>2. Rows!InBatch = {b[1] : b \in push.batch}
      BY DEF Rows!InBatch
    <2>3. \A b \in push.batch : b = <<b[1], b[2]>> /\ b[1] \in Places /\ b[2] \in Values
      BY <1>2
    <2>4. ASSUME NEW b \in push.batch
          PROVE  remote'[b[1]] = b[2]
      <3>1. remote'[b[1]] = CHOOSE v \in Values : <<b[1], v>> \in push.batch
        BY <2>1, <2>2, <2>3 DEF Rows!Stored, Places
      <3>2. \A v \in Values : <<b[1], v>> \in push.batch => <<b[1], v>>[1] = b[1] /\ <<b[1], v>>[2] = v
        OBVIOUS
      <3>3. \A v \in Values : <<b[1], v>> \in push.batch => v = b[2]
        BY <3>2 DEF RowsInv, BatchAsRead
      <3>4. <<b[1], b[2]>> \in push.batch /\ b[2] \in Values
        BY <2>3
      <3> QED
        BY <3>1, <3>3, <3>4
    <2>5. \A c \in Places : c \notin Rows!InBatch => remote'[c] = remote[c]
      BY <2>1 DEF Rows!Stored, Places
    <2>6. remote' \in [Places -> Shown]
      <3>1. \A c \in Places : remote'[c] \in Shown
        BY <2>2, <2>3, <2>4, <2>5 DEF RowsInv, RowsTypeOK, Shown
      <3>2. remote' = [c \in Places |-> remote'[c]]
        BY <2>1 DEF Rows!Stored, Places
      <3> QED
        BY <3>1, <3>2
    <2>7. push' \in PushTypes /\ push'.batch \in {{}, push.batch}
      BY <1>2, <2>1 DEF PushTypes, Rows!NoPush
    <2>8. RowsTypeOK'
      BY <1>1, <2>6, <2>7 DEF RowsInv, RowsTypeOK, PushTypes
    <2>9. BatchAsRead'
      BY <1>1, <2>4, <2>7 DEF RowsInv, BatchAsRead
    <2>10. RowsHaveValues' /\ RefreshesApart'
      BY <1>1 DEF RowsInv, RowsHaveValues, RefreshesApart, InTransaction
    <2>11. RefreshedIsRead'
      BY <1>1 DEF RowsInv, RefreshedIsRead, Rows!RefreshedIsRead, Rows!Read
    <2>12. PushedAreThere'
      <3> SUFFICES ASSUME NEW c \in Places, rows[c].pushed
                   PROVE  remote'[c] # Rows!None /\ (remote'[c] = rows[c].value \/ c \in changed)
        BY <1>1 DEF PushedAreThere, Rows!PushedAreThere, Places
      <3>1. remote[c] # Rows!None /\ (remote[c] = rows[c].value \/ c \in changed)
        BY DEF RowsInv, PushedAreThere, Rows!PushedAreThere, Places
      <3> QED
        BY <2>1, <2>5, <3>1
    <2> QED
      BY <2>8, <2>9, <2>10, <2>11, <2>12 DEF RowsInv
  <1> QED
    BY <1>3, <1>4

\* UpdateIsPushed.
LEMMA RowsMark ==
  ASSUME RowsInv, Rows!Mark
  PROVE  RowsInv'
  <1> DEFINE keys == Rows!InBatch
  <1>1. /\ UNCHANGED <<refreshing, latest, remote, columns, changed>> /\ push.pc = "mark"
        /\ rows' = [c \in Places |-> IF c \in keys /\ rows[c] # NoRow THEN [rows[c] EXCEPT !.pushed = TRUE] ELSE rows[c]]
        /\ push' = [push EXCEPT !.pc = "fetch", !.batch = {}]
    BY DEF Rows!Mark, Rows!Marked, Places, NoRow
  <1>2. keys = {b[1] : b \in push.batch}
    BY DEF Rows!InBatch
  <1> HIDE DEF keys
  <1>3. push \in PushTypes
    BY DEF RowsInv, RowsTypeOK, PushTypes
  <1>4. ASSUME NEW c \in Places
        PROVE  /\ rows'[c] \in [value : Shown, pushed : BOOLEAN] /\ rows'[c].value = rows[c].value
               /\ rows'[c] # NoRow <=> rows[c] # NoRow
               /\ rows'[c].pushed => rows[c].pushed \/ (c \in keys /\ rows[c] # NoRow)
    <2>1. rows[c] \in [value : Shown, pushed : BOOLEAN]
      BY DEF RowsInv, RowsTypeOK
    <2>2. CASE c \in keys /\ rows[c] # NoRow
      <3>1. rows'[c] = [rows[c] EXCEPT !.pushed = TRUE]
        BY <1>1, <2>2
      <3>2. rows'[c].value = rows[c].value /\ rows'[c].pushed = TRUE
            /\ rows'[c] \in [value : Shown, pushed : BOOLEAN]
        BY <2>1, <3>1
      <3>3. rows'[c] # NoRow
        BY <3>2, RowTypes
      <3> QED
        BY <2>2, <3>2, <3>3
    <2>3. CASE ~(c \in keys /\ rows[c] # NoRow)
      <3>1. rows'[c] = rows[c]
        BY <1>1, <2>3
      <3> QED
        BY <2>1, <3>1
    <2> QED
      BY <2>2, <2>3
  <1>5. RowsTypeOK'
    <2>1. rows' = [c \in Places |-> rows'[c]]
      BY <1>1
    <2>2. rows' \in [Places -> [value : Shown, pushed : BOOLEAN]]
      BY <1>4, <2>1
    <2>3. push' \in PushTypes
      BY <1>1, <1>3 DEF PushTypes
    <2> QED
      BY <1>1, <2>2, <2>3 DEF RowsInv, RowsTypeOK, PushTypes
  <1>6. RowsHaveValues' /\ RefreshesApart'
    BY <1>1, <1>4 DEF RowsInv, RowsHaveValues, RefreshesApart, InTransaction, NoRow
  <1>7. BatchAsRead'
    <2>1. push'.batch = {} /\ push'.pc # "mark"
      BY <1>1, <1>3 DEF PushTypes
    <2> QED
      BY <2>1 DEF BatchAsRead
  <1>8. RefreshedIsRead'
    <2>1. \A f \in Prints : Rows!Read(f)' = Rows!Read(f)
      BY <1>4, <1>5, RowTypes, ReadKept DEF RowsInv
    <2> QED
      BY <1>1, <2>1 DEF RowsInv, RefreshedIsRead, Rows!RefreshedIsRead
  <1>9. PushedAreThere'
    <2> SUFFICES ASSUME NEW c \in Places, rows'[c].pushed
                 PROVE  remote[c] # Rows!None /\ (remote[c] = rows'[c].value \/ c \in changed)
      BY <1>1 DEF PushedAreThere, Rows!PushedAreThere, Places
    <2>1. CASE rows[c].pushed
      BY <1>4, <2>1 DEF RowsInv, PushedAreThere, Rows!PushedAreThere, Places
    <2>2. CASE c \in keys
      <3>1. PICK b \in push.batch : b[1] = c
        BY <1>2, <2>2
      <3>2. b[2] \in Values /\ remote[c] = b[2] /\ (rows[c].value = b[2] \/ c \in changed)
        BY <1>1, <1>3, <3>1 DEF RowsInv, BatchAsRead, PushTypes
      <3> QED
        BY <1>4, <3>2, RowTypes
    <2> QED
      BY <1>4, <2>1, <2>2
  <1> QED
    BY <1>5, <1>6, <1>7, <1>8, <1>9 DEF RowsInv

LEMMA RowsStep == RowsInv /\ [Rows!Next]_tableRows => RowsInv'
  <1> SUFFICES ASSUME RowsInv, [Rows!Next]_tableRows PROVE RowsInv'
    OBVIOUS
  <1>1. CASE UNCHANGED tableRows
    <2>1. UNCHANGED <<columns, rows, refreshing, latest, remote, push, changed>>
      BY <1>1 DEF tableRows
    <2>2. RowsTypeOK' /\ RefreshesApart'
      BY <2>1 DEF RowsInv, RowsTypeOK, RefreshesApart, InTransaction
    <2> QED
      BY <2>1, <2>2, RowsUnchanged
  <1>2. ASSUME NEW p \in Refreshers, Rows!Stage(p) \/ Rows!Upsert(p) \/ Rows!DeleteStale(p) \/ Rows!Commit(p) \/ Rows!Abort(p)
        PROVE  RowsInv'
    BY <1>2, RowsStage, RowsGo, RowsCommit, RowsAbort
  <1>3. CASE \E answered \in BOOLEAN : Rows!Push(answered)
    BY <1>3, RowsPush
  <1>4. CASE Rows!Recreate \/ Rows!Fetch \/ Rows!Mark
    BY <1>4, RowsRecreate, RowsFetch, RowsMark
  <1>5. CASE Rows!ChangeView \/ Rows!ListViews \/ Rows!ListExpires \/ Rows!MatchColumns \/ Rows!Refused
    BY <1>5, RowsNotPushed
  <1> QED
    BY <1>1, <1>2, <1>3, <1>4, <1>5 DEF Rows!Next

\* InsertViewRows and ReadViewTable: a request reads what the last refresh of its
\* fingerprint staged, whatever refreshes of other fingerprints, failures and recreations of
\* the table come between, unless two of its own overlapped - for any keys, fingerprints,
\* values and refreshers.
THEOREM Refreshed == Rows!Spec => []RefreshedIsRead
  <1>1. RowsInv => RefreshedIsRead
    BY DEF RowsInv
  <1> QED
    BY <1>1, RowsInit, RowsStep, PTL DEF Rows!Spec, tableRows, Rows!vars

\* reconcileTable over a generated table: a row that is marked as pushed is on the upstream,
\* as it was read unless it changed since, whatever refreshes and lost answers come between.
THEOREM PushedReached == Rows!Spec => []PushedAreThere
  <1>1. RowsInv => PushedAreThere
    BY DEF RowsInv
  <1> QED
    BY <1>1, RowsInit, RowsStep, PTL DEF Rows!Spec, tableRows, Rows!vars

-----------------------------------------------------------------------------
(* Playbook runs.                                                          *)

RunStatuses == Book!PlaybookRunStatusFinalStates \union {"scheduled", "running", "waiting", "sleeping", "retrying"}
ActionStatuses == Book!PlaybookActionFinalStates \union {"scheduled", "waiting", "running", "waiting_children"}
NoCall == Book!NoCall
\* Whoever ends a run knows how.
Calls == [pc : {"update", "notify", "fallback", "resume"}, status : Book!PlaybookRunStatusFinalStates]

BookTypeOK ==
  /\ runs \in [Runs -> RunStatuses]
  /\ actions \in [Runs -> Seq(ActionStatuses)]
  /\ ends \in [Runs -> [Book!Callers -> Calls \union {NoCall}]]
  /\ sends \in [Runs -> [status : {"pending_playbook_completion", "error", "sent"}, fallbacks : Nat, lost : BOOLEAN]]

\* An action that waits for children that have all ended is one that somebody is about to
\* resume, if it is not known why nobody will.
SomeoneResumes ==
  \A r \in Runs :
    runs[r] = "running" /\ Book!Current(r) = "waiting_children" /\ (\A k \in Book!Children(r) : Book!Ended(k))
    => r \in missed \/ \E k \in Book!Children(r), c \in Book!Callers : ends[k][c] # NoCall

\* A notification that is in error has fallen back, or whoever wrote that is about to.
SomeoneFallsBack ==
  \A r \in Notified :
    Fallback /\ sends[r].status = "error" /\ ~sends[r].lost
    => \/ sends[r].fallbacks > 0
       \/ \E c \in Book!Callers :
            ends[r][c].pc = "fallback" /\ ends[r][c].status \in Book!UnsuccessfulPlaybookRunFinalStates

BookInv == BookTypeOK /\ SomeoneResumes /\ SomeoneFallsBack

LEMMA BookAssumed == Parent \in [Runs -> Runs \union {"none"}] /\ "none" \notin Runs /\ Notified \subseteq Runs
  BY ServerAssumption DEF ServerAssumption, Book!PlaybooksAssumption, Book!None

LEMMA ChildrenAre ==
  ASSUME NEW r \in Runs
  PROVE  Book!Children(r) \subseteq Runs /\ \A k \in Runs : k \in Book!Children(r) <=> Parent[k] = r
  BY DEF Book!Children

LEMMA CallsApart == \A call \in Calls : call # NoCall /\ call.pc # "idle"
  BY DEF Calls, NoCall, Book!NoCall

LEMMA BookInit == Book!Init => BookInv
  <1> SUFFICES ASSUME Book!Init PROVE BookInv
    OBVIOUS
  <1>1. BookTypeOK
    <2>1. actions \in [Runs -> Seq(ActionStatuses)]
      BY DEF Book!Init
    <2> QED
      BY <2>1 DEF Book!Init, BookTypeOK, RunStatuses, NoCall
  <1>2. SomeoneResumes
    BY DEF Book!Init, SomeoneResumes
  <1>3. SomeoneFallsBack
    BY BookAssumed DEF Book!Init, SomeoneFallsBack
  <1> QED
    BY <1>1, <1>2, <1>3 DEF BookInv

\* What an operation on the last action of a run does to it.
LEMMA LastIs ==
  ASSUME BookTypeOK, NEW r \in Runs
  PROVE  /\ Book!Current(r) # "none" => Len(actions[r]) \in 1..Len(actions[r])
                                        /\ Book!Current(r) = actions[r][Len(actions[r])]
         /\ actions[r] \in Seq(ActionStatuses)
  <1>1. actions[r] \in Seq(ActionStatuses)
    BY DEF BookTypeOK
  <1>2. actions[r] # << >> => Len(actions[r]) \in 1..Len(actions[r])
    BY <1>1
  <1> QED
    BY <1>1, <1>2 DEF Book!Current, Book!Last, Book!None

LEMMA SetActionDoes ==
  ASSUME BookTypeOK, NEW r \in Runs, NEW status \in ActionStatuses,
         Book!Current(r) # "none", Book!SetAction(r, status)
  PROVE  /\ actions' \in [Runs -> Seq(ActionStatuses)] /\ Book!Current(r)' = status
         /\ \A q \in Runs \ {r} : Book!Current(q)' = Book!Current(q)
  <1> DEFINE n == Len(actions[r])
             after == [actions[r] EXCEPT ![n] = status]
  <1>1. actions[r] \in Seq(ActionStatuses) /\ n \in 1..n
    BY LastIs
  <1>2. after \in Seq(ActionStatuses) /\ after[n] = status /\ Len(after) = n
    BY <1>1
  <1>3. actions' = [actions EXCEPT ![r] = after]
    BY DEF Book!SetAction
  <1> HIDE DEF after
  <1>4. actions' \in [Runs -> Seq(ActionStatuses)] /\ actions'[r] = after /\ \A q \in Runs \ {r} : actions'[q] = actions[q]
    BY <1>2, <1>3 DEF BookTypeOK
  <1>5. after # << >>
    BY <1>1, <1>2
  <1>6. Book!Current(r)' = status
    BY <1>2, <1>4, <1>5 DEF Book!Current, Book!Last
  <1>7. \A q \in Runs \ {r} : Book!Current(q)' = Book!Current(q)
    BY <1>4 DEF Book!Current
  <1> QED
    BY <1>4, <1>6, <1>7

\* The steps that leave who resumes whom as it is.
LEMMA ResumesKept ==
  ASSUME SomeoneResumes, missed \subseteq missed',
         \A r \in Runs : runs'[r] = "running" /\ Book!Current(r)' = "waiting_children" =>
           \/ r \in missed'
           \/ runs[r] = "running" /\ Book!Current(r) = "waiting_children",
         \A r \in Runs : Book!Ended(r)' => Book!Ended(r) \/ Parent[r] \in missed' \/ \E c \in Book!Callers : ends'[r][c] # NoCall,
         \A r \in Runs, c \in Book!Callers : ends[r][c] # NoCall => ends'[r][c] # NoCall \/ Parent[r] \in missed'
  PROVE  SomeoneResumes'
  <1> SUFFICES ASSUME NEW r \in Runs, runs'[r] = "running", Book!Current(r)' = "waiting_children",
                      \A k \in Book!Children(r) : Book!Ended(k)', r \notin missed'
               PROVE  \E k \in Book!Children(r), c \in Book!Callers : ends'[k][c] # NoCall
    BY DEF SomeoneResumes, Book!Children
  <1>1. runs[r] = "running" /\ Book!Current(r) = "waiting_children" /\ r \notin missed
    OBVIOUS
  <1>2. \A k \in Book!Children(r) : k \in Runs /\ Parent[k] = r
    BY ChildrenAre
  <1>3. CASE \A k \in Book!Children(r) : Book!Ended(k)
    <2>1. PICK k \in Book!Children(r), c \in Book!Callers : ends[k][c] # NoCall
      BY <1>1, <1>3 DEF SomeoneResumes
    <2> QED
      BY <1>2, <2>1
  <1>4. CASE \E k \in Book!Children(r) : ~Book!Ended(k)
    BY <1>2, <1>4
  <1> QED
    BY <1>3, <1>4

LEMMA FallsBackKept ==
  ASSUME SomeoneFallsBack,
         \A r \in Runs : sends'[r] = sends[r] \/ sends'[r].lost,
         \A r \in Runs, c \in Book!Callers : ends[r][c].pc = "fallback" => ends'[r][c] = ends[r][c] \/ sends'[r].lost
  PROVE  SomeoneFallsBack'
  BY BookAssumed DEF SomeoneFallsBack

\* StartAction, Assign.
LEMMA BookStart ==
  ASSUME BookInv, NEW r \in Runs, Book!StartAction(r)
  PROVE  BookInv'
  <1>1. PICK to \in {<<"scheduled", "running">>, <<"waiting", "waiting">>} :
          /\ actions' = [actions EXCEPT ![r] = Append(@, to[1])] /\ runs' = [runs EXCEPT ![r] = to[2]]
    BY DEF Book!StartAction, Book!SetRun
  <1>2. UNCHANGED <<ends, sends, missed>>
    BY DEF Book!StartAction
  <1> DEFINE after == Append(actions[r], to[1])
  <1>3. actions[r] \in Seq(ActionStatuses) /\ to[1] \in ActionStatuses /\ to[1] # "waiting_children" /\ to[2] \in RunStatuses
        /\ to[2] \notin Book!PlaybookRunStatusFinalStates
    BY DEF BookInv, BookTypeOK, ActionStatuses, RunStatuses, Book!PlaybookRunStatusFinalStates
  <1>4. after \in Seq(ActionStatuses) /\ after # << >> /\ after[Len(after)] = to[1]
    BY <1>3
  <1>5. actions' = [actions EXCEPT ![r] = after]
    BY <1>1
  <1> HIDE DEF after
  <1>6. BookTypeOK'
    BY <1>1, <1>2, <1>3, <1>4, <1>5 DEF BookInv, BookTypeOK
  <1>7. Book!Current(r)' = to[1] /\ \A q \in Runs \ {r} : Book!Current(q)' = Book!Current(q) /\ runs'[q] = runs[q]
    BY <1>1, <1>4, <1>5 DEF Book!Current, Book!Last, BookInv, BookTypeOK
  <1>8. runs'[r] = to[2]
    BY <1>1 DEF BookInv, BookTypeOK
  <1>9. SomeoneResumes'
    BY <1>2, <1>3, <1>7, <1>8, ResumesKept DEF BookInv, Book!Ended
  <1>10. SomeoneFallsBack'
    BY <1>2, FallsBackKept DEF BookInv
  <1> QED
    BY <1>6, <1>9, <1>10 DEF BookInv

\* Start, Complete, Skip, Fail, and the wait for the children.
LEMMA BookSetAction ==
  ASSUME BookInv, NEW r \in Runs, Book!Start(r) \/ Book!Finish(r) \/ Book!WaitForChildren(r)
  PROVE  BookInv'
  <1>1. PICK status \in ActionStatuses :
          /\ Book!SetAction(r, status) /\ Book!Current(r) # "none"
          /\ status = "waiting_children" => missed' = IF \A c \in Book!Children(r) : Book!Ended(c) THEN missed \union {r} ELSE missed
          /\ status # "waiting_children" => missed' = missed
    BY DEF Book!Start, Book!Finish, Book!WaitForChildren, ActionStatuses, Book!PlaybookActionFinalStates
  <1>2. UNCHANGED <<ends, sends>> /\ (runs' = runs \/ (runs' = [runs EXCEPT ![r] = "scheduled"]))
    BY DEF Book!Start, Book!Finish, Book!WaitForChildren, Book!SetRun
  <1>3. /\ actions' \in [Runs -> Seq(ActionStatuses)] /\ Book!Current(r)' = status
        /\ \A q \in Runs \ {r} : Book!Current(q)' = Book!Current(q)
    BY <1>1, SetActionDoes DEF BookInv
  <1>4. /\ runs' \in [Runs -> RunStatuses] /\ \A q \in Runs \ {r} : runs'[q] = runs[q]
        /\ runs'[r] = runs[r] \/ runs'[r] = "scheduled"
    BY <1>2 DEF BookInv, BookTypeOK, RunStatuses
  <1>5. BookTypeOK'
    BY <1>2, <1>3, <1>4 DEF BookInv, BookTypeOK
  <1>6. \A q \in Runs : Book!Ended(q)' => Book!Ended(q)
    BY <1>4 DEF Book!Ended, Book!PlaybookRunStatusFinalStates
  <1>7. SomeoneResumes'
    <2>1. missed \subseteq missed'
      BY <1>1
    <2>2. CASE status # "waiting_children" \/ r \in missed'
      BY <1>2, <1>3, <1>4, <1>6, <2>1, <2>2, ResumesKept DEF BookInv
    <2>3. CASE status = "waiting_children" /\ r \notin missed'
      <3>1. ~ \A c \in Book!Children(r) : Book!Ended(c)
        BY <1>1, <2>3
      <3>2. ~ \A c \in Book!Children(r) : Book!Ended(c)'
        BY <1>6, <3>1 DEF Book!Children
      <3> QED
        <4> SUFFICES ASSUME NEW q \in Runs, runs'[q] = "running", Book!Current(q)' = "waiting_children",
                            \A k \in Book!Children(q) : Book!Ended(k)'
                     PROVE  q \in missed' \/ \E k \in Book!Children(q), c \in Book!Callers : ends'[k][c] # NoCall
          BY DEF SomeoneResumes, Book!Children
        <4>1. q # r /\ runs[q] = "running" /\ Book!Current(q) = "waiting_children"
          BY <1>3, <1>4, <3>2
        <4>2. \A k \in Book!Children(q) : Book!Ended(k)
          BY <1>6, ChildrenAre
        <4> QED
          BY <1>2, <2>1, <4>1, <4>2 DEF BookInv, SomeoneResumes
    <2> QED
      BY <2>2, <2>3
  <1>8. SomeoneFallsBack'
    BY <1>2, FallsBackKept DEF BookInv
  <1> QED
    BY <1>5, <1>7, <1>8 DEF BookInv

\* Delay, and the Fail that tells nobody.
LEMMA BookSetRun ==
  ASSUME BookInv, NEW r \in Runs, Book!Delay(r) \/ Book!FailRun(r)
  PROVE  BookInv'
  <1>1. PICK status \in RunStatuses \ {"running"} :
          /\ runs' = [runs EXCEPT ![r] = status]
          /\ status \in Book!PlaybookRunStatusFinalStates => Parent[r] \in missed'
    BY DEF Book!Delay, Book!FailRun, Book!SetRun, RunStatuses, Book!PlaybookRunStatusFinalStates
  <1>2. UNCHANGED <<actions, ends>> /\ missed \subseteq missed'
        /\ (sends' = sends \/ (sends' = [sends EXCEPT ![r].lost = TRUE]))
    BY DEF Book!Delay, Book!FailRun
  <1> DEFINE Send == [status : {"pending_playbook_completion", "error", "sent"}, fallbacks : Nat, lost : BOOLEAN]
  <1>3. sends' \in [Runs -> Send] /\ \A q \in Runs : sends'[q] = sends[q] \/ sends'[q].lost
    <2>1. sends \in [Runs -> Send] /\ [sends[r] EXCEPT !.lost = TRUE] \in Send /\ [sends[r] EXCEPT !.lost = TRUE].lost
      BY DEF BookInv, BookTypeOK
    <2> HIDE DEF Send
    <2> QED
      BY <1>2, <2>1
  <1>4. runs' \in [Runs -> RunStatuses] /\ runs'[r] = status /\ \A q \in Runs \ {r} : runs'[q] = runs[q]
    BY <1>1 DEF BookInv, BookTypeOK
  <1>5. BookTypeOK'
    BY <1>2, <1>3, <1>4 DEF BookInv, BookTypeOK
  <1>6. \A q \in Runs : Book!Current(q)' = Book!Current(q)
    BY <1>2 DEF Book!Current
  <1>7. SomeoneResumes'
    BY <1>1, <1>2, <1>4, <1>6, ResumesKept DEF BookInv, Book!Ended
  <1>8. SomeoneFallsBack'
    BY <1>2, <1>3, FallsBackKept DEF BookInv
  <1> QED
    BY <1>5, <1>7, <1>8 DEF BookInv

LEMMA Final ==
  /\ Book!UnsuccessfulPlaybookRunFinalStates \subseteq Book!PlaybookRunStatusFinalStates
  /\ {"failed", "completed", "timed_out", "cancelled"} = Book!PlaybookRunStatusFinalStates
  /\ Book!PlaybookRunStatusFinalStates \subseteq RunStatuses /\ "running" \notin Book!PlaybookRunStatusFinalStates
  BY DEF Book!UnsuccessfulPlaybookRunFinalStates, Book!PlaybookRunStatusFinalStates, RunStatuses

\* End, EndAsTimedOut, Cancel.
LEMMA BookEnd ==
  ASSUME BookInv, NEW r \in Runs, NEW c \in Book!Callers,
         Book!EndAs(r, c) \/ (c = "runner" /\ Book!End(r))
  PROVE  BookInv'
  <1>1. PICK status \in Book!PlaybookRunStatusFinalStates :
          ends' = [ends EXCEPT ![r][c] = [pc |-> "update", status |-> status]]
    <2>1. CASE Book!EndAs(r, c)
      BY <2>1, Final DEF Book!EndAs
    <2>2. CASE c = "runner" /\ Book!End(r)
      BY <2>2, Final DEF Book!End
    <2> QED
      BY <2>1, <2>2
  <1>2. UNCHANGED <<runs, actions, sends, missed>> /\ ends[r][c] = NoCall
    BY DEF Book!EndAs, Book!End, Book!Free, NoCall
  <1> DEFINE call == [pc |-> "update", status |-> status]
  <1>3. call \in Calls
    BY DEF Calls
  <1> HIDE DEF call
  <1>4. ends' \in [Runs -> [Book!Callers -> Calls \union {NoCall}]]
    BY <1>1, <1>3 DEF call, BookInv, BookTypeOK
  <1>5. \A q \in Runs, d \in Book!Callers : ends[q][d] # NoCall => ends'[q][d] = ends[q][d]
    BY <1>1, <1>2 DEF BookInv, BookTypeOK
  <1>6. BookTypeOK'
    BY <1>2, <1>4 DEF BookInv, BookTypeOK
  <1>7. \A q \in Runs : Book!Current(q)' = Book!Current(q) /\ (Book!Ended(q)' => Book!Ended(q))
    BY <1>2 DEF Book!Current, Book!Ended
  <1>8. SomeoneResumes'
    BY <1>2, <1>5, <1>7, ResumesKept DEF BookInv
  <1>9. NoCall.pc = "idle"
    BY DEF NoCall, Book!NoCall
  <1>10. SomeoneFallsBack'
    BY <1>2, <1>5, <1>9, FallsBackKept DEF BookInv
  <1> QED
    BY <1>6, <1>8, <1>10 DEF BookInv

\* A call that goes on with the next statement.
LEMMA StepDoes ==
  ASSUME BookTypeOK, NEW r \in Runs, NEW c \in Book!Callers, NEW pc \in {"notify", "fallback", "resume"},
         ends[r][c].pc # "idle", Book!Step(r, c, pc)
  PROVE  /\ ends[r][c] \in Calls /\ ends' \in [Runs -> [Book!Callers -> Calls \union {NoCall}]]
         /\ ends'[r][c] # NoCall /\ ends'[r][c].pc = pc /\ ends'[r][c].status = ends[r][c].status
         /\ \A q \in Runs, d \in Book!Callers : q # r \/ d # c => ends'[q][d] = ends[q][d]
  <1>1. ends[r][c] \in Calls
    BY DEF BookTypeOK, NoCall, Book!NoCall
  <1> DEFINE after == [ends[r][c] EXCEPT !.pc = pc]
  <1>2. after \in Calls /\ after.pc = pc /\ after.status = ends[r][c].status
    BY <1>1 DEF Calls
  <1>3. ends' = [ends EXCEPT ![r][c] = after]
    BY DEF Book!Step
  <1> HIDE DEF after
  <1>4. ends'[r][c] = after /\ ends' \in [Runs -> [Book!Callers -> Calls \union {NoCall}]]
    BY <1>2, <1>3 DEF BookTypeOK
  <1>5. \A q \in Runs, d \in Book!Callers : q # r \/ d # c => ends'[q][d] = ends[q][d]
    BY <1>3 DEF BookTypeOK
  <1> QED
    BY <1>1, <1>2, <1>4, <1>5, CallsApart

\* endWithStatus: the run.
LEMMA BookEndWithStatus ==
  ASSUME BookInv, NEW r \in Runs, NEW c \in Book!Callers, Book!EndWithStatus(r, c)
  PROVE  BookInv'
  <1>1. PICK pc \in {"notify", "resume"} : ends[r][c].pc = "update" /\ Book!Step(r, c, pc)
    BY DEF Book!EndWithStatus, Book!At
  <1>2. runs' = [runs EXCEPT ![r] = ends[r][c].status] /\ UNCHANGED <<actions, sends, missed>>
    BY DEF Book!EndWithStatus, Book!SetRun
  <1>3. /\ ends[r][c] \in Calls /\ ends' \in [Runs -> [Book!Callers -> Calls \union {NoCall}]]
        /\ ends'[r][c] # NoCall
        /\ \A q \in Runs, d \in Book!Callers : q # r \/ d # c => ends'[q][d] = ends[q][d]
    BY <1>1, StepDoes DEF BookInv
  <1>4. ends[r][c].status \in Book!PlaybookRunStatusFinalStates
    BY <1>3 DEF Calls
  <1>5. /\ runs' \in [Runs -> RunStatuses] /\ runs'[r] # "running"
        /\ \A q \in Runs \ {r} : runs'[q] = runs[q]
    BY <1>2, <1>4, Final DEF BookInv, BookTypeOK
  <1>6. BookTypeOK'
    BY <1>2, <1>3, <1>5 DEF BookInv, BookTypeOK
  <1>7. \A q \in Runs : Book!Current(q)' = Book!Current(q)
    BY <1>2 DEF Book!Current
  <1>8. SomeoneResumes'
    BY <1>2, <1>3, <1>5, <1>7, ResumesKept DEF BookInv, Book!Ended
  <1>9. SomeoneFallsBack'
    BY <1>1, <1>2, <1>3, FallsBackKept DEF BookInv
  <1> QED
    BY <1>6, <1>8, <1>9 DEF BookInv

\* endWithStatus: the history of the notification, and its fallback.
LEMMA BookNotify ==
  ASSUME BookInv, NEW r \in Runs, NEW c \in Book!Callers,
         Book!UpdateHistory(r, c) \/ Book!GenerateFallbackAttempt(r, c)
  PROVE  BookInv'
  <1> DEFINE failed == ends[r][c].status \in Book!UnsuccessfulPlaybookRunFinalStates
             SendTypes == [status : {"pending_playbook_completion", "error", "sent"}, fallbacks : Nat, lost : BOOLEAN]
  <1>1. PICK pc \in {"fallback", "resume"} :
          /\ Book!Step(r, c, pc)
          /\ \/ /\ pc = "fallback" /\ ends[r][c].pc = "notify"
                /\ sends' = [sends EXCEPT ![r].status = IF failed THEN "error" ELSE "sent"]
             \/ /\ pc = "resume" /\ ends[r][c].pc = "fallback"
                /\ sends' = IF failed /\ Fallback THEN [sends EXCEPT ![r].fallbacks = @ + 1] ELSE sends
    BY DEF Book!UpdateHistory, Book!GenerateFallbackAttempt, Book!At
  <1>2. UNCHANGED <<runs, actions, missed>>
    BY DEF Book!UpdateHistory, Book!GenerateFallbackAttempt
  <1>3. /\ ends' \in [Runs -> [Book!Callers -> Calls \union {NoCall}]]
        /\ ends'[r][c] # NoCall /\ ends'[r][c].pc = pc /\ ends'[r][c].status = ends[r][c].status
        /\ \A q \in Runs, d \in Book!Callers : q # r \/ d # c => ends'[q][d] = ends[q][d]
    BY <1>1, StepDoes DEF BookInv
  <1>4. sends \in [Runs -> SendTypes] /\ sends[r] \in SendTypes
    BY DEF BookInv, BookTypeOK
  <1>5. /\ sends' \in [Runs -> SendTypes] /\ \A q \in Runs \ {r} : sends'[q] = sends[q]
        /\ \/ /\ pc = "fallback" /\ sends'[r].lost = sends[r].lost /\ sends'[r].fallbacks = sends[r].fallbacks
              /\ sends'[r].status = IF failed THEN "error" ELSE "sent"
           \/ /\ pc = "resume" /\ ends[r][c].pc = "fallback" /\ sends'[r].lost = sends[r].lost
              /\ sends'[r].status = sends[r].status
              /\ sends'[r].fallbacks = IF failed /\ Fallback THEN sends[r].fallbacks + 1 ELSE sends[r].fallbacks
    <2>1. CASE pc = "fallback"
      <3>1. sends' = [sends EXCEPT ![r].status = IF failed THEN "error" ELSE "sent"]
        BY <1>1, <2>1
      <3> QED
        BY <1>4, <2>1, <3>1
    <2>2. CASE pc = "resume"
      <3>1. ends[r][c].pc = "fallback" /\ sends' = IF failed /\ Fallback THEN [sends EXCEPT ![r].fallbacks = @ + 1] ELSE sends
        BY <1>1, <2>2
      <3> HIDE DEF failed
      <3>2. CASE failed /\ Fallback
        BY <1>4, <2>2, <3>1, <3>2
      <3>3. CASE ~(failed /\ Fallback)
        BY <1>4, <2>2, <3>1, <3>3
      <3> QED
        BY <3>2, <3>3
    <2> QED
      BY <2>1, <2>2
  <1>6. BookTypeOK'
    BY <1>2, <1>3, <1>5 DEF BookInv, BookTypeOK
  <1>7. \A q \in Runs : Book!Current(q)' = Book!Current(q) /\ (Book!Ended(q)' => Book!Ended(q))
    BY <1>2 DEF Book!Current, Book!Ended
  <1>8. SomeoneResumes'
    BY <1>2, <1>3, <1>7, ResumesKept DEF BookInv
  <1>9. SomeoneFallsBack'
    <2> SUFFICES ASSUME NEW q \in Notified, Fallback, sends'[q].status = "error", ~sends'[q].lost, ~(sends'[q].fallbacks > 0)
                 PROVE  \E d \in Book!Callers :
                          ends'[q][d].pc = "fallback" /\ ends'[q][d].status \in Book!UnsuccessfulPlaybookRunFinalStates
      BY DEF SomeoneFallsBack
    <2>1. q \in Runs
      BY BookAssumed
    <2>2. CASE q # r
      <3>1. sends'[q] = sends[q] /\ \A d \in Book!Callers : ends'[q][d] = ends[q][d]
        BY <1>3, <1>5, <2>1, <2>2
      <3> QED
        BY <3>1 DEF BookInv, SomeoneFallsBack
    <2>3. CASE q = r /\ pc = "fallback"
      BY <1>3, <1>5, <2>3
    <2>4. CASE q = r /\ pc = "resume"
      <3>1. ~failed /\ sends[r].status = "error" /\ ~sends[r].lost /\ ~(sends[r].fallbacks > 0)
        BY <1>4, <1>5, <2>4
      <3>2. PICK d \in Book!Callers : ends[r][d].pc = "fallback" /\ ends[r][d].status \in Book!UnsuccessfulPlaybookRunFinalStates
        BY <2>4, <3>1 DEF BookInv, SomeoneFallsBack
      <3>3. d # c
        BY <3>1, <3>2
      <3> QED
        BY <1>3, <2>4, <3>2, <3>3
    <2> QED
      BY <2>2, <2>3, <2>4
  <1> QED
    BY <1>6, <1>8, <1>9 DEF BookInv

\* What the end of a call does to the calls.
LEMMA HangUpDoes ==
  ASSUME BookTypeOK, NEW r \in Runs, NEW c \in Book!Callers, ends' = [ends EXCEPT ![r][c] = NoCall]
  PROVE  /\ ends' \in [Runs -> [Book!Callers -> Calls \union {NoCall}]]
         /\ \A q \in Runs, d \in Book!Callers : q # r \/ d # c => ends'[q][d] = ends[q][d]
  BY DEF BookTypeOK

\* ResumeChildrenWaitingAction: whoever ends last sees that all have ended.
LEMMA BookResume ==
  ASSUME BookInv, NEW r \in Runs, NEW c \in Book!Callers, Book!ResumeChildrenWaitingAction(r, c)
  PROVE  BookInv'
  <1> DEFINE parent == Parent[r]
             all == \A k \in Book!Children(parent) : Book!Ended(k)
             resumed(q) == [i \in DOMAIN actions[q] |-> IF actions[q][i] = "waiting_children" THEN "scheduled" ELSE actions[q][i]]
             last == runs[parent] = "running" /\ all
  <1>1. /\ ends[r][c].pc = "resume" /\ ends' = [ends EXCEPT ![r][c] = NoCall] /\ UNCHANGED <<runs, sends, missed>>
        /\ actions' = IF parent = "none" THEN actions
                      ELSE [actions EXCEPT ![parent] = IF last THEN resumed(parent) ELSE actions[parent]]
    BY DEF Book!ResumeChildrenWaitingAction, Book!Resume, Book!At, NoCall, Book!None
  <1>2. /\ ends' \in [Runs -> [Book!Callers -> Calls \union {NoCall}]]
        /\ \A q \in Runs, d \in Book!Callers : q # r \/ d # c => ends'[q][d] = ends[q][d]
    BY <1>1, HangUpDoes DEF BookInv
  <1>3. parent \in Runs \/ parent = "none"
    BY BookAssumed
  <1>4. ASSUME NEW q \in Runs
        PROVE  /\ actions[q] \in Seq(ActionStatuses) /\ resumed(q) \in Seq(ActionStatuses)
               /\ Len(resumed(q)) = Len(actions[q])
               /\ resumed(q) # << >> => resumed(q)[Len(resumed(q))] # "waiting_children"
    <2>1. actions[q] \in Seq(ActionStatuses)
      BY DEF BookInv, BookTypeOK
    <2>2. "scheduled" \in ActionStatuses
      BY DEF ActionStatuses
    <2>3. /\ \A i \in 1..Len(actions[q]) : resumed(q)[i] \in ActionStatuses /\ resumed(q)[i] # "waiting_children"
          /\ DOMAIN resumed(q) = 1..Len(actions[q])
      BY <2>1, <2>2
    <2>4. resumed(q) \in Seq(ActionStatuses) /\ Len(resumed(q)) = Len(actions[q])
      BY <2>1, <2>2
    <2> HIDE DEF resumed
    <2>5. resumed(q) # << >> => Len(resumed(q)) \in 1..Len(resumed(q))
      BY <2>4
    <2> QED
      BY <2>1, <2>3, <2>4, <2>5
  <1> HIDE DEF parent, all, resumed, last
  <1>5. /\ \A q \in Runs : actions'[q] = IF q = parent /\ last THEN resumed(q) ELSE actions[q]
        /\ actions' \in [Runs -> Seq(ActionStatuses)]
    <2>1. CASE parent = "none"
      <3>1. actions' = actions /\ \A q \in Runs : q # parent
        BY <1>1, <2>1, BookAssumed
      <3> QED
        BY <3>1 DEF BookInv, BookTypeOK
    <2>2. CASE parent \in Runs
      <3>1. parent # "none"
        BY <2>2, BookAssumed
      <3>2. actions' = [actions EXCEPT ![parent] = IF last THEN resumed(parent) ELSE actions[parent]]
        BY <1>1, <3>1
      <3>3. (IF last THEN resumed(parent) ELSE actions[parent]) \in Seq(ActionStatuses)
        BY <1>4, <2>2
      <3> QED
        BY <3>2, <3>3 DEF BookInv, BookTypeOK
    <2> QED
      BY <1>3, <2>1, <2>2
  <1>6. BookTypeOK'
    BY <1>1, <1>2, <1>5 DEF BookInv, BookTypeOK
  <1>7. \A q \in Runs : Book!Current(q)' = "waiting_children" =>
          Book!Current(q) = "waiting_children" /\ ~(q = parent /\ last)
    <2> SUFFICES ASSUME NEW q \in Runs, Book!Current(q)' = "waiting_children"
                 PROVE  Book!Current(q) = "waiting_children" /\ ~(q = parent /\ last)
      OBVIOUS
    <2>1. actions'[q] # << >> /\ actions'[q][Len(actions'[q])] = "waiting_children"
      BY DEF Book!Current, Book!Last, Book!None
    <2>2. ~(q = parent /\ last)
      BY <1>4, <1>5, <2>1
    <2> QED
      BY <1>5, <2>1, <2>2 DEF Book!Current, Book!Last
  <1>8. SomeoneResumes'
    <2> SUFFICES ASSUME NEW q \in Runs, runs[q] = "running", Book!Current(q)' = "waiting_children",
                        \A k \in Book!Children(q) : Book!Ended(k)', q \notin missed
                 PROVE  \E k \in Book!Children(q), d \in Book!Callers : ends'[k][d] # NoCall
      BY <1>1 DEF SomeoneResumes, Book!Children
    <2>1. Book!Current(q) = "waiting_children" /\ ~(q = parent /\ last) /\ \A k \in Book!Children(q) : Book!Ended(k)
      BY <1>1, <1>7 DEF Book!Ended
    <2>2. q # parent
      BY <2>1 DEF last, all
    <2>3. PICK k \in Book!Children(q), d \in Book!Callers : ends[k][d] # NoCall
      BY <2>1 DEF BookInv, SomeoneResumes
    <2>4. k \in Runs /\ k # r
      BY <2>2, ChildrenAre DEF parent
    <2> QED
      BY <1>2, <2>3, <2>4
  <1>9. SomeoneFallsBack'
    BY <1>1, <1>2, FallsBackKept DEF BookInv
  <1> QED
    BY <1>6, <1>8, <1>9 DEF BookInv

LEMMA BookCrash ==
  ASSUME BookInv, NEW r \in Runs, NEW c \in Book!Callers, Book!Crash(r, c)
  PROVE  BookInv'
  <1>1. /\ ends' = [ends EXCEPT ![r][c] = NoCall] /\ missed' = missed \union {Parent[r]}
        /\ sends' = [sends EXCEPT ![r].lost = TRUE] /\ UNCHANGED <<runs, actions>>
    BY DEF Book!Crash, NoCall
  <1>2. /\ ends' \in [Runs -> [Book!Callers -> Calls \union {NoCall}]]
        /\ \A q \in Runs, d \in Book!Callers : q # r \/ d # c => ends'[q][d] = ends[q][d]
    BY <1>1, HangUpDoes DEF BookInv
  <1>3. sends' \in [Runs -> [status : {"pending_playbook_completion", "error", "sent"}, fallbacks : Nat, lost : BOOLEAN]]
        /\ sends'[r].lost /\ \A q \in Runs \ {r} : sends'[q] = sends[q]
    BY <1>1 DEF BookInv, BookTypeOK
  <1>4. BookTypeOK'
    BY <1>1, <1>2, <1>3 DEF BookInv, BookTypeOK
  <1>5. \A q \in Runs : Book!Current(q)' = Book!Current(q) /\ (Book!Ended(q)' => Book!Ended(q))
    BY <1>1 DEF Book!Current, Book!Ended
  <1>6. SomeoneResumes'
    BY <1>1, <1>2, <1>5, ResumesKept DEF BookInv
  <1>7. SomeoneFallsBack'
    BY <1>2, <1>3, FallsBackKept DEF BookInv
  <1> QED
    BY <1>4, <1>6, <1>7 DEF BookInv

LEMMA BookStep == BookInv /\ [Book!Next]_playbooks => BookInv'
  <1> SUFFICES ASSUME BookInv, [Book!Next]_playbooks PROVE BookInv'
    OBVIOUS
  <1>1. CASE UNCHANGED playbooks
    BY <1>1 DEF playbooks, BookInv, BookTypeOK, SomeoneResumes, SomeoneFallsBack, Book!Current, Book!Ended, Book!Children
  <1>2. ASSUME NEW r \in Runs,
               \/ Book!StartAction(r) \/ Book!Start(r) \/ Book!WaitForChildren(r) \/ Book!Finish(r)
               \/ Book!Delay(r) \/ Book!FailRun(r)
        PROVE  BookInv'
    BY <1>2, BookStart, BookSetAction, BookSetRun
  <1>3. ASSUME NEW r \in Runs, Book!End(r)
        PROVE  BookInv'
    BY <1>3, BookEnd DEF Book!Callers
  <1>4. ASSUME NEW r \in Runs, NEW c \in Book!Callers,
               \/ Book!EndAs(r, c) \/ Book!EndWithStatus(r, c) \/ Book!UpdateHistory(r, c)
               \/ Book!GenerateFallbackAttempt(r, c) \/ Book!ResumeChildrenWaitingAction(r, c) \/ Book!Crash(r, c)
        PROVE  BookInv'
    BY <1>4, BookEnd, BookEndWithStatus, BookNotify, BookResume, BookCrash
  <1> QED
    BY <1>1, <1>2, <1>3, <1>4 DEF Book!Next

\* endWithStatus and ResumeChildrenWaitingAction: when all children of a run have ended and
\* their ends are through, none of their parents still waits, but for the cases in which it
\* is known why - for any runs and any tree of them, whoever ends them.
THEOREM LastResumes == Book!Spec => []LastChildResumes
  <1>1. BookInv => LastChildResumes
    <2> SUFFICES ASSUME BookInv, NEW r \in Runs, runs[r] = "running", Book!Current(r) = "waiting_children",
                        \A k \in Book!Children(r) : Book!Ended(k) /\ \A c \in Book!Callers : ends[k][c] = Book!NoCall
                 PROVE  r \in missed
      BY DEF LastChildResumes, Book!LastChildResumes
    <2> QED
      BY DEF BookInv, SomeoneResumes, NoCall
  <1> QED
    BY <1>1, BookInit, BookStep, PTL DEF Book!Spec, playbooks, Book!vars

\* endWithStatus: a notification in error has fallen back once the ends of its run are
\* through, if none was cut short and it has a fallback, though two may end the run at once.
THEOREM FallenBack == Book!Spec => []FailedFallBack
  <1>1. BookInv => FailedFallBack
    <2> SUFFICES ASSUME BookInv, NEW r \in Notified, Fallback, sends[r].status = "error", ~sends[r].lost,
                        \A c \in Book!Callers : ends[r][c] = Book!NoCall
                 PROVE  sends[r].fallbacks > 0
      BY DEF FailedFallBack, Book!FailedFallBack
    <2>1. \A c \in Book!Callers : ends[r][c].pc = "idle"
      BY DEF Book!NoCall
    <2> QED
      BY <2>1 DEF BookInv, SomeoneFallsBack
  <1> QED
    BY <1>1, BookInit, BookStep, PTL DEF Book!Spec, playbooks, Book!vars

-----------------------------------------------------------------------------
(* The upstream's handlers.                                                *)

Agent == [name : Names, live : BOOLEAN]
Message == SUBSET Server!Rows
Request ==
  [pc : {"idle", "auth", "create", "cache", "push", "rows", "delete", "ok", "conflict", "error"},
   method : {"push", "delete"}, name : Names \union {""}, agent : Nat, msg : Message, todo : Message,
   items : Message, failed : Message, retries : Nat, histories : Message, lost : Message]

ServerTypeOK ==
  /\ agents \in Seq(Agent) /\ Len(agents) <= MaxAgents
  /\ cache \in [Names -> 0 .. Len(agents)]
  /\ stored \in [Server!Rows -> {Server!Absent} \union 0 .. Len(agents)]
  /\ reqs \in [Requests -> Request]
  /\ rings \in [1 .. MaxAgents -> Seq(Server!Rows)] /\ added \in [1 .. MaxAgents -> Seq(Server!Rows)]
  /\ evicted \in Seq(Server!Rows)

AgentsCached == \A n \in Names : cache[n] # 0 => agents[cache[n]].name = n

\* A request under way is one that was sent, by the agent that it is handled for.
Sent(q) == \E c \in Pushes : c.name = reqs[q].name /\ c.method = reqs[q].method /\ c.msg = reqs[q].msg
HasAgent(q) == reqs[q].agent \in 1 .. Len(agents) /\ agents[reqs[q].agent].name = reqs[q].name
SentByAgent(q) ==
  /\ reqs[q].pc # "idle" => Sent(q)
  /\ reqs[q].pc \in {"cache", "push", "rows", "delete"} => HasAgent(q)
  /\ reqs[q].pc \in {"push", "rows", "conflict"} => reqs[q].method = "push"
  /\ reqs[q].pc = "delete" => reqs[q].method = "delete"

\* What belongs to an agent was pushed by one of its name.
PushedBy(name, r) == \E c \in Pushes : c.method = "push" /\ c.name = name /\ r \in Server!AddAgentConfig(c.msg)
OwnersPushed == \A r \in Server!Rows : stored[r] > 0 => PushedBy(agents[stored[r]].name, r)

\* The rows of a push whose statements are still to come, or failed; the others are taken.
Mine(q) == Server!AddAgentConfig(reqs[q].msg)
Open(q, r) ==
  \/ reqs[q].pc = "push" /\ r \in reqs[q].todo
  \/ /\ reqs[q].pc \in {"rows", "conflict"}
     /\ \E t \in Server!At(q) : r \in reqs[q].items \union reqs[q].failed \union Server!After(q, t)
Taken(r) == TableOf[r] = "playbook_run_actions" \/ stored[r] # Server!Absent
Settled(q) ==
  /\ reqs[q].method = "push" /\ reqs[q].pc \in {"push", "rows", "conflict", "ok"} =>
       reqs[q].todo \subseteq Mine(q) /\ \A r \in Mine(q) \ reqs[q].lost : Open(q, r) \/ Taken(r)
  /\ reqs[q].pc = "rows" => reqs[q].items \union reqs[q].failed \subseteq Mine(q)
  /\ reqs[q].pc = "conflict" => reqs[q].items = {}

\* A ring is the end of what was added to it, and what is evicted comes before that.
Passed ==
  {r \in Server!Rows : \E a \in 1 .. MaxAgents : \E n \in 1 .. Len(added[a]) :
                         r = added[a][n] /\ Len(added[a]) - n >= Retention}
RingsAreEnds ==
  /\ \A a \in 1 .. MaxAgents :
       /\ Len(rings[a]) <= Retention /\ Len(rings[a]) <= Len(added[a])
       /\ \A k \in 1 .. Len(rings[a]) : rings[a][k] = added[a][Len(added[a]) - Len(rings[a]) + k]
  /\ \A i \in 1 .. Len(evicted) : evicted[i] \in Passed

ServerInv ==
  /\ ServerTypeOK /\ AgentsCached /\ OwnersPushed /\ RingsAreEnds
  /\ \A q \in Requests : SentByAgent(q) /\ Settled(q)

LEMMA ServerAssumed ==
  /\ SaveRetries \in Nat /\ Retention \in Nat /\ MaxAgents \in Nat /\ MaxCalls \in Nat
  /\ \A c \in Pushes : c.name \in Names /\ c.method \in {"push", "delete"} /\ c.msg \in Message
  /\ \A c, d \in Pushes :
       c.method = "push" /\ d.method = "push" /\ c.name # d.name =>
         Server!AddAgentConfig(c.msg) \intersect Server!AddAgentConfig(d.msg) = {}
  BY ServerAssumption DEF ServerAssumption, Server!UpstreamServerAssumption, Message

LEMMA OrderIs ==
  /\ DOMAIN Server!InsertOrder \subseteq Nat
  /\ \A i \in DOMAIN Server!InsertOrder :
       Server!InsertOrder[i][2] = "update" => Server!InsertOrder[i][1] = "playbook_run_actions"
  BY DEF Server!InsertOrder

(* A handler is at one table.                                              *)
LEMMA OneTable ==
  ASSUME NEW q \in Requests, NEW t \in Server!At(q)
  PROVE  /\ \A u \in Server!At(q) : u = t
         /\ t[2] = "update" => t[1] = "playbook_run_actions"
  BY OrderIs DEF Server!At, Server!First

LEMMA RequestIs ==
  ASSUME ServerTypeOK, NEW q \in Requests
  PROVE  /\ reqs[q] \in Request /\ reqs[q].agent \in Nat /\ reqs[q].retries \in Nat
         /\ reqs[q].msg \in Message /\ reqs[q].todo \in Message /\ reqs[q].items \in Message
         /\ reqs[q].failed \in Message /\ reqs[q].histories \in Message /\ reqs[q].lost \in Message
         /\ reqs[q].method \in {"push", "delete"}
  BY DEF ServerTypeOK, Request

(* What a step does to the requests that it is not one of.                 *)
LEMMA OthersStay ==
  ASSUME ServerInv, NEW q \in Requests, reqs'[q] = [reqs[q] EXCEPT !.lost = reqs'[q].lost],
         reqs[q].lost \subseteq reqs'[q].lost,
         \A r \in Server!Rows : Taken(r) => Taken(r)' \/ r \in reqs'[q].lost,
         Len(agents) <= Len(agents'), Len(agents') \in Nat,
         \A a \in 1 .. Len(agents) : agents'[a].name = agents[a].name
  PROVE  SentByAgent(q)' /\ Settled(q)'
  <1>1. /\ reqs'[q].pc = reqs[q].pc /\ reqs'[q].method = reqs[q].method /\ reqs'[q].name = reqs[q].name
        /\ reqs'[q].agent = reqs[q].agent /\ reqs'[q].msg = reqs[q].msg /\ reqs'[q].todo = reqs[q].todo
        /\ reqs'[q].items = reqs[q].items /\ reqs'[q].failed = reqs[q].failed
    BY RequestIs DEF ServerInv, Request
  <1>2. SentByAgent(q)'
    <2>1. SentByAgent(q) /\ Len(agents) \in Nat /\ reqs[q].agent \in Nat
      BY RequestIs DEF ServerInv, ServerTypeOK
    <2>2. HasAgent(q) => HasAgent(q)'
      BY <1>1, <2>1 DEF HasAgent
    <2>3. Sent(q)' = Sent(q)
      BY <1>1 DEF Sent
    <2> QED
      BY <1>1, <2>1, <2>2, <2>3 DEF SentByAgent
  <1>3. Mine(q)' = Mine(q) /\ Mine(q) \subseteq Server!Rows
    BY <1>1, RequestIs DEF ServerInv, Mine, Message, Server!AddAgentConfig
  <1>4. \A r : Open(q, r)' = Open(q, r)
    <2>1. Server!At(q)' = Server!At(q)
      BY <1>1 DEF Server!At
    <2>2. \A t \in Server!At(q) : Server!After(q, t)' = Server!After(q, t)
      BY <1>1 DEF Server!After, Server!Batch
    <2> QED
      BY <1>1, <2>1, <2>2 DEF Open
  <1>5. Settled(q)'
    <2>1. Settled(q)
      BY DEF ServerInv
    <2> QED
      BY <1>1, <1>3, <1>4, <2>1 DEF Settled
  <1> QED
    BY <1>2, <1>5

(* A step of a request.                                                    *)
LEMMA RequestStep ==
  ASSUME ServerInv, NEW q \in Requests, reqs' = [reqs EXCEPT ![q] = reqs'[q]], reqs'[q] \in Request,
         SentByAgent(q)', Settled(q)',
         agents' \in Seq(Agent), Len(agents') <= MaxAgents, Len(agents) <= Len(agents'),
         \A a \in 1 .. Len(agents) : agents'[a].name = agents[a].name,
         cache' \in [Names -> 0 .. Len(agents')], AgentsCached',
         stored' \in [Server!Rows -> {Server!Absent} \union 0 .. Len(agents')], OwnersPushed',
         \A r \in Server!Rows : Taken(r) => Taken(r)',
         rings' \in [1 .. MaxAgents -> Seq(Server!Rows)], added' \in [1 .. MaxAgents -> Seq(Server!Rows)],
         evicted' \in Seq(Server!Rows), RingsAreEnds'
  PROVE  ServerInv'
  <1>1. reqs \in [Requests -> Request]
    BY DEF ServerInv, ServerTypeOK
  <1>2. reqs' \in [Requests -> Request] /\ \A p \in Requests : p # q => reqs'[p] = reqs[p]
    BY <1>1
  <1>3. ServerTypeOK'
    BY <1>2 DEF ServerTypeOK
  <1>4. ASSUME NEW p \in Requests, p # q PROVE SentByAgent(p)' /\ Settled(p)'
    <2>1. reqs'[p] = [reqs[p] EXCEPT !.lost = reqs'[p].lost] /\ reqs'[p].lost = reqs[p].lost
      BY <1>1, <1>2, <1>4 DEF Request
    <2>2. Len(agents') \in Nat
      OBVIOUS
    <2> QED
      BY <2>1, <2>2, OthersStay
  <1> QED
    BY <1>3, <1>4 DEF ServerInv

\* What changes the requests only.
Elsewhere == <<agents, cache, stored, rings, added, evicted>>

LEMMA OnlyRequests ==
  ASSUME ServerInv, NEW q \in Requests, reqs' = [reqs EXCEPT ![q] = reqs'[q]], reqs'[q] \in Request,
         SentByAgent(q)', Settled(q)', UNCHANGED Elsewhere
  PROVE  ServerInv'
  <1>1. UNCHANGED <<agents, cache, stored, rings, added, evicted>>
    BY DEF Elsewhere
  <1>2. AgentsCached' /\ OwnersPushed' /\ RingsAreEnds' /\ \A r \in Server!Rows : Taken(r)' = Taken(r)
    BY <1>1 DEF ServerInv, AgentsCached, OwnersPushed, RingsAreEnds, Passed, Taken
  <1>3. \A r \in Server!Rows : Taken(r) => Taken(r)'
    BY <1>2
  <1>4. /\ agents' \in Seq(Agent) /\ Len(agents') <= MaxAgents
        /\ Len(agents) <= Len(agents') /\ \A a \in 1 .. Len(agents) : agents'[a].name = agents[a].name
        /\ cache' \in [Names -> 0 .. Len(agents')] /\ evicted' \in Seq(Server!Rows)
        /\ stored' \in [Server!Rows -> {Server!Absent} \union 0 .. Len(agents')]
        /\ rings' \in [1 .. MaxAgents -> Seq(Server!Rows)] /\ added' \in [1 .. MaxAgents -> Seq(Server!Rows)]
    BY <1>1 DEF ServerInv, ServerTypeOK
  <1> QED
    BY <1>2, <1>3, <1>4, RequestStep

-----------------------------------------------------------------------------
(* AgentAuthMiddleware.                                                    *)

LEMMA AgentsType ==
  ASSUME ServerInv
  PROVE  /\ agents \in Seq(Agent) /\ Len(agents) \in Nat /\ Len(agents) <= MaxAgents
         /\ cache \in [Names -> 0 .. Len(agents)] /\ AgentsCached
         /\ reqs \in [Requests -> Request] /\ MaxAgents \in Nat
  BY ServerAssumed DEF ServerInv, ServerTypeOK

Stages == {"idle", "auth", "create", "cache", "push", "rows", "delete", "ok", "conflict", "error"}

LEMMA GotoIs ==
  ASSUME ServerInv, NEW q \in Requests, NEW pc \in Stages, Server!Goto(q, pc)
  PROVE  /\ reqs' = [reqs EXCEPT ![q] = reqs'[q]] /\ reqs'[q] \in Request /\ reqs'[q].pc = pc
         /\ reqs'[q].method = reqs[q].method /\ reqs'[q].name = reqs[q].name /\ reqs'[q].msg = reqs[q].msg
         /\ reqs'[q].agent = reqs[q].agent /\ reqs'[q].todo = reqs[q].todo /\ reqs'[q].items = reqs[q].items
         /\ reqs'[q].failed = reqs[q].failed /\ reqs'[q].lost = reqs[q].lost
  <1>1. reqs' = [reqs EXCEPT ![q] = [reqs[q] EXCEPT !.pc = pc]] /\ reqs \in [Requests -> Request]
    BY AgentsType DEF Server!Goto
  <1>2. reqs'[q] = [reqs[q] EXCEPT !.pc = pc] /\ reqs[q] \in Request
    BY <1>1
  <1>3. reqs' = [reqs EXCEPT ![q] = reqs'[q]]
    BY <1>1, <1>2
  <1> QED
    BY <1>2, <1>3 DEF Request, Stages

LEMMA Made ==
  ASSUME NEW pc \in {"idle", "auth"}, NEW method \in {"push", "delete"}, NEW name \in Names \union {""},
         NEW msg \in Message
  PROVE  [pc |-> pc, method |-> method, name |-> name, agent |-> 0, msg |-> msg, todo |-> {},
          items |-> {}, failed |-> {}, retries |-> 0, histories |-> {}, lost |-> {}] \in Request
  <1>1. {} \in Message
    BY DEF Message
  <1> QED
    BY <1>1 DEF Request

LEMMA CallKeeps ==
  ASSUME ServerInv, NEW q \in Requests, NEW c \in Pushes, Server!Call(q, c)
  PROVE  ServerInv'
  <1>1. reqs \in [Requests -> Request] /\ UNCHANGED Elsewhere
    BY DEF ServerInv, ServerTypeOK, Server!Call, Elsewhere
  <1>2. c.name \in Names /\ c.method \in {"push", "delete"} /\ c.msg \in Message
    BY ServerAssumed
  <1>3. /\ reqs' = [reqs EXCEPT ![q] = reqs'[q]]
        /\ reqs'[q] = [pc |-> "auth", method |-> c.method, name |-> c.name, agent |-> 0, msg |-> c.msg, todo |-> {},
                       items |-> {}, failed |-> {}, retries |-> 0, histories |-> {}, lost |-> {}]
    BY <1>1 DEF Server!Call, Server!NoRequest
  <1>4. reqs'[q] \in Request
    <2>1. c.name \in Names \union {""} /\ "auth" \in {"idle", "auth"}
      BY <1>2
    <2>2. [pc |-> "auth", method |-> c.method, name |-> c.name, agent |-> 0, msg |-> c.msg, todo |-> {},
           items |-> {}, failed |-> {}, retries |-> 0, histories |-> {}, lost |-> {}] \in Request
      BY <1>2, <2>1, Made
    <2> QED
      BY <1>3, <2>2
  <1>5. SentByAgent(q)' /\ Settled(q)'
    BY <1>3 DEF SentByAgent, Settled, Sent
  <1> QED
    BY <1>1, <1>3, <1>4, <1>5, OnlyRequests

(* PopulateAgentID, AddAgentConfig: all the rows are still to come.        *)
LEMMA Started ==
  ASSUME ServerInv, NEW q \in Requests, reqs[q].pc \in {"auth", "cache"}, UNCHANGED agents,
         NEW a \in 1 .. Len(agents), agents[a].name = reqs[q].name, Server!Authenticated(q, a)
  PROVE  /\ reqs' = [reqs EXCEPT ![q] = reqs'[q]] /\ reqs'[q] \in Request
         /\ SentByAgent(q)' /\ Settled(q)'
  <1> DEFINE mine == IF reqs[q].method = "push" THEN Server!AddAgentConfig(reqs[q].msg) ELSE reqs[q].msg
  <1>1. reqs \in [Requests -> Request] /\ a \in Nat
    BY DEF ServerInv, ServerTypeOK
  <1>2. /\ reqs' = [reqs EXCEPT ![q] = reqs'[q]]
        /\ reqs'[q] = [reqs[q] EXCEPT !.pc = reqs[q].method, !.agent = a, !.todo = mine,
                                      !.histories = {r \in mine : TableOf[r] = "job_history"}]
    BY <1>1 DEF Server!Authenticated
  <1>3. mine \in Message /\ {r \in mine : TableOf[r] = "job_history"} \in Message
    BY RequestIs DEF ServerInv, Message, Server!AddAgentConfig
  <1> HIDE DEF mine
  <1>4. reqs'[q] \in Request
    <2>1. reqs[q] \in Request /\ reqs[q].method \in {"push", "delete"}
      BY RequestIs DEF ServerInv
    <2>2. PICK pc \in {"push", "delete"}, todo \in Message, histories \in Message :
            pc = reqs[q].method /\ todo = mine /\ histories = {r \in mine : TableOf[r] = "job_history"}
      BY <1>3, <2>1
    <2>3. reqs'[q] = [reqs[q] EXCEPT !.pc = pc, !.agent = a, !.todo = todo, !.histories = histories]
      BY <1>2, <2>2
    <2> QED
      BY <1>1, <2>1, <2>3 DEF Request
  <1>5. /\ reqs'[q].pc = reqs[q].method /\ reqs'[q].method = reqs[q].method /\ reqs'[q].name = reqs[q].name
        /\ reqs'[q].msg = reqs[q].msg /\ reqs'[q].agent = a /\ reqs'[q].todo = mine
        /\ reqs[q].method \in {"push", "delete"}
    BY <1>2, RequestIs DEF ServerInv, Request
  <1>6. SentByAgent(q)'
    BY <1>5 DEF ServerInv, SentByAgent, Sent, HasAgent
  <1>7. Settled(q)'
    BY <1>5 DEF Settled, Open, Mine, mine
  <1> QED
    BY <1>2, <1>4, <1>6, <1>7

LEMMA CachedAgentKeeps ==
  ASSUME ServerInv, NEW q \in Requests, Server!CachedAgent(q)
  PROVE  ServerInv'
  <1>1. /\ UNCHANGED Elsewhere /\ UNCHANGED agents /\ reqs[q].pc = "auth" /\ cache[reqs[q].name] # 0
        /\ Server!Authenticated(q, cache[reqs[q].name])
    BY DEF Server!CachedAgent, Elsewhere
  <1>2. reqs[q].name \in Names
    BY <1>1, ServerAssumed DEF ServerInv, SentByAgent, Sent
  <1>3. cache[reqs[q].name] \in 1 .. Len(agents) /\ agents[cache[reqs[q].name]].name = reqs[q].name
    BY <1>1, <1>2 DEF ServerInv, ServerTypeOK, AgentsCached
  <1> QED
    BY <1>1, <1>3, Started, OnlyRequests

LEMMA FetchAgentKeeps ==
  ASSUME ServerInv, NEW q \in Requests, Server!FetchAgent(q)
  PROVE  ServerInv'
  <1>1. /\ reqs \in [Requests -> Request] /\ UNCHANGED Elsewhere /\ UNCHANGED agents
        /\ reqs[q].pc = "auth" /\ agents \in Seq(Agent)
    BY DEF ServerInv, ServerTypeOK, Server!FetchAgent, Elsewhere
  <1>2. \/ Server!Goto(q, "create")
        \/ \E a \in 1 .. Len(agents) :
             agents[a].name = reqs[q].name /\ reqs' = [reqs EXCEPT ![q].pc = "cache", ![q].agent = a]
    <2>1. \/ Server!Goto(q, "create")
          \/ \E a \in Server!LiveAgents(reqs[q].name) : reqs' = [reqs EXCEPT ![q].pc = "cache", ![q].agent = a]
      BY DEF Server!FetchAgent
    <2>2. \A a \in Server!LiveAgents(reqs[q].name) : a \in 1 .. Len(agents) /\ agents[a].name = reqs[q].name
      BY <1>1 DEF Server!LiveAgents
    <2> QED
      BY <2>1, <2>2
  <1>3. /\ reqs' = [reqs EXCEPT ![q] = reqs'[q]] /\ reqs'[q] \in Request
        /\ reqs'[q].method = reqs[q].method /\ reqs'[q].name = reqs[q].name /\ reqs'[q].msg = reqs[q].msg
        /\ \/ reqs'[q].pc = "create"
           \/ /\ reqs'[q].pc = "cache" /\ reqs'[q].agent \in 1 .. Len(agents)
              /\ agents[reqs'[q].agent].name = reqs[q].name
    <2>1. CASE Server!Goto(q, "create")
      BY <2>1, GotoIs DEF Stages
    <2>2. ASSUME NEW a \in 1 .. Len(agents), agents[a].name = reqs[q].name,
                 reqs' = [reqs EXCEPT ![q].pc = "cache", ![q].agent = a]
          PROVE  /\ reqs' = [reqs EXCEPT ![q] = reqs'[q]] /\ reqs'[q] \in Request
                 /\ reqs'[q].method = reqs[q].method /\ reqs'[q].name = reqs[q].name /\ reqs'[q].msg = reqs[q].msg
                 /\ reqs'[q].pc = "cache" /\ reqs'[q].agent = a
      <3>1. a \in Nat
        OBVIOUS
      <3>2. reqs' = [reqs EXCEPT ![q] = [reqs[q] EXCEPT !.pc = "cache", !.agent = a]]
        BY <2>2
      <3>3. reqs'[q] = [reqs[q] EXCEPT !.pc = "cache", !.agent = a] /\ reqs[q] \in Request
        BY <1>1, <3>2
      <3>4. reqs' = [reqs EXCEPT ![q] = reqs'[q]]
        BY <3>2, <3>3
      <3> QED
        BY <3>1, <3>3, <3>4 DEF Request
    <2> QED
      BY <1>2, <2>1, <2>2
  <1>4. SentByAgent(q)' /\ Settled(q)'
    BY <1>1, <1>3 DEF ServerInv, SentByAgent, Sent, HasAgent, Settled
  <1> QED
    BY <1>1, <1>3, <1>4, OnlyRequests

(* What does not depend on the request whose step it is.                   *)
LEMMA StoredStays ==
  ASSUME ServerInv, UNCHANGED stored, Len(agents) <= Len(agents'), Len(agents') \in Nat,
         \A a \in 1 .. Len(agents) : agents'[a].name = agents[a].name
  PROVE  /\ stored' \in [Server!Rows -> {Server!Absent} \union 0 .. Len(agents')]
         /\ OwnersPushed' /\ \A r \in Server!Rows : Taken(r) => Taken(r)'
  <1>1. stored \in [Server!Rows -> {Server!Absent} \union 0 .. Len(agents)] /\ Len(agents) \in Nat /\ OwnersPushed
    BY DEF ServerInv, ServerTypeOK
  <1>2. stored' \in [Server!Rows -> {Server!Absent} \union 0 .. Len(agents')]
    BY <1>1
  <1>3. ASSUME NEW r \in Server!Rows, stored'[r] > 0 PROVE PushedBy(agents'[stored'[r]].name, r)
    <2>1. stored[r] \in 1 .. Len(agents)
      BY <1>1, <1>3 DEF Server!Absent
    <2> QED
      BY <1>1, <1>3, <2>1 DEF OwnersPushed
  <1> QED
    BY <1>2, <1>3 DEF OwnersPushed, PushedBy, Taken

LEMMA RingsStay ==
  ASSUME ServerInv, UNCHANGED <<rings, added, evicted>>
  PROVE  /\ rings' \in [1 .. MaxAgents -> Seq(Server!Rows)] /\ added' \in [1 .. MaxAgents -> Seq(Server!Rows)]
         /\ evicted' \in Seq(Server!Rows) /\ RingsAreEnds'
  BY DEF ServerInv, ServerTypeOK, RingsAreEnds, Passed

LEMMA CacheStays ==
  ASSUME ServerInv, UNCHANGED cache, Len(agents) <= Len(agents'), Len(agents') \in Nat,
         \A a \in 1 .. Len(agents) : agents'[a].name = agents[a].name
  PROVE  cache' \in [Names -> 0 .. Len(agents')] /\ AgentsCached'
  <1>1. cache \in [Names -> 0 .. Len(agents)] /\ Len(agents) \in Nat
    BY DEF ServerInv, ServerTypeOK
  <1> QED
    BY <1>1 DEF ServerInv, AgentsCached

LEMMA CreateAgentKeeps ==
  ASSUME ServerInv, NEW q \in Requests, Server!CreateAgent(q)
  PROVE  ServerInv'
  <1>1. reqs[q].pc = "create" /\ UNCHANGED <<cache, stored, rings, added, evicted>>
    BY DEF Server!CreateAgent
  <1>2. Sent(q) /\ reqs[q].name \in Names
    BY <1>1, ServerAssumed DEF ServerInv, SentByAgent, Sent
  <1>3. CASE Server!Goto(q, "error") /\ UNCHANGED agents
    <2>1. /\ reqs' = [reqs EXCEPT ![q] = reqs'[q]] /\ reqs'[q] \in Request
          /\ reqs'[q].method = reqs[q].method /\ reqs'[q].name = reqs[q].name /\ reqs'[q].msg = reqs[q].msg
          /\ reqs'[q].pc = "error"
      BY <1>3, GotoIs DEF Stages
    <2>2. SentByAgent(q)' /\ Settled(q)'
      BY <1>2, <2>1 DEF SentByAgent, Sent, Settled
    <2> QED
      BY <1>1, <1>3, <2>1, <2>2, OnlyRequests DEF Elsewhere
  <1>4. CASE /\ Len(agents) < MaxAgents
             /\ agents' = Append(agents, [name |-> reqs[q].name, live |-> TRUE])
             /\ reqs' = [reqs EXCEPT ![q].pc = "cache", ![q].agent = Len(agents) + 1]
    <2>1. /\ agents' \in Seq(Agent) /\ Len(agents') = Len(agents) + 1
          /\ \A a \in 1 .. Len(agents) : agents'[a].name = agents[a].name
          /\ agents'[Len(agents')].name = reqs[q].name
      <3>1. PICK agent : agent = [name |-> reqs[q].name, live |-> TRUE]
        OBVIOUS
      <3>2. agent \in Agent /\ agent.name = reqs[q].name
        BY <1>2, <3>1 DEF Agent
      <3> QED
        BY <1>4, <3>1, <3>2, AgentsType
    <2>2. Len(agents') \in Nat /\ Len(agents') <= MaxAgents /\ Len(agents) <= Len(agents')
      BY <1>4, <2>1, AgentsType
    <2>3. /\ reqs' = [reqs EXCEPT ![q] = reqs'[q]] /\ reqs'[q] \in Request
          /\ reqs'[q].method = reqs[q].method /\ reqs'[q].name = reqs[q].name /\ reqs'[q].msg = reqs[q].msg
          /\ reqs'[q].pc = "cache" /\ reqs'[q].agent = Len(agents')
      <3>1. Len(agents) + 1 \in Nat
        BY AgentsType
      <3>2. PICK n \in Nat : n = Len(agents) + 1
        BY <3>1
      <3>3. reqs' = [reqs EXCEPT ![q].pc = "cache", ![q].agent = n] /\ reqs \in [Requests -> Request]
        BY <1>4, <3>2, AgentsType
      <3>4. /\ reqs' = [reqs EXCEPT ![q] = reqs'[q]] /\ reqs'[q] \in Request
            /\ reqs'[q].method = reqs[q].method /\ reqs'[q].name = reqs[q].name /\ reqs'[q].msg = reqs[q].msg
            /\ reqs'[q].pc = "cache" /\ reqs'[q].agent = n
        <4>1. reqs' = [reqs EXCEPT ![q] = [reqs[q] EXCEPT !.pc = "cache", !.agent = n]]
          BY <3>3
        <4>2. reqs'[q] = [reqs[q] EXCEPT !.pc = "cache", !.agent = n] /\ reqs[q] \in Request
          BY <3>3, <4>1
        <4>3. reqs' = [reqs EXCEPT ![q] = reqs'[q]]
          BY <4>1, <4>2
        <4> QED
          BY <4>2, <4>3 DEF Request
      <3> QED
        BY <2>1, <3>2, <3>4
    <2>4. HasAgent(q)'
      BY <2>1, <2>2, <2>3, AgentsType DEF HasAgent
    <2>5. SentByAgent(q)' /\ Settled(q)'
      BY <1>2, <2>3, <2>4 DEF SentByAgent, Sent, Settled
    <2> QED
      BY <1>1, <2>1, <2>2, <2>3, <2>5, StoredStays, RingsStay, CacheStays, RequestStep
  <1> QED
    BY <1>3, <1>4 DEF Server!CreateAgent

LEMMA SetCacheKeeps ==
  ASSUME ServerInv, NEW q \in Requests, Server!SetCache(q)
  PROVE  ServerInv'
  <1>1. /\ reqs[q].pc = "cache" /\ UNCHANGED <<agents, stored, rings, added, evicted>> /\ UNCHANGED agents
        /\ cache' = [cache EXCEPT ![reqs[q].name] = reqs[q].agent] /\ Server!Authenticated(q, reqs[q].agent)
    BY DEF Server!SetCache
  <1>2. reqs[q].name \in Names /\ reqs[q].agent \in 1 .. Len(agents) /\ agents[reqs[q].agent].name = reqs[q].name
    BY <1>1, ServerAssumed DEF ServerInv, SentByAgent, Sent, HasAgent
  <1>3. cache' \in [Names -> 0 .. Len(agents')] /\ AgentsCached'
    BY <1>1, <1>2, AgentsType DEF AgentsCached
  <1>4. /\ reqs' = [reqs EXCEPT ![q] = reqs'[q]] /\ reqs'[q] \in Request
        /\ SentByAgent(q)' /\ Settled(q)'
    BY <1>1, <1>2, Started
  <1>5. /\ agents' \in Seq(Agent) /\ Len(agents') \in Nat /\ Len(agents') <= MaxAgents
        /\ Len(agents) <= Len(agents') /\ \A a \in 1 .. Len(agents) : agents'[a].name = agents[a].name
    BY <1>1, AgentsType
  <1> QED
    BY <1>1, <1>3, <1>4, <1>5, StoredStays, RingsStay, RequestStep

(* No request makes a step.                                                *)
LEMMA NoRequestStep ==
  ASSUME ServerInv, reqs' \in [Requests -> Request],
         \A q \in Requests :
           /\ reqs'[q] = [reqs[q] EXCEPT !.lost = reqs'[q].lost] /\ reqs[q].lost \subseteq reqs'[q].lost
           /\ \A r \in Server!Rows : Taken(r) => Taken(r)' \/ r \in reqs'[q].lost,
         agents' \in Seq(Agent), Len(agents') <= MaxAgents, Len(agents) <= Len(agents'),
         \A a \in 1 .. Len(agents) : agents'[a].name = agents[a].name,
         cache' \in [Names -> 0 .. Len(agents')], AgentsCached',
         stored' \in [Server!Rows -> {Server!Absent} \union 0 .. Len(agents')], OwnersPushed',
         rings' \in [1 .. MaxAgents -> Seq(Server!Rows)], added' \in [1 .. MaxAgents -> Seq(Server!Rows)],
         evicted' \in Seq(Server!Rows), RingsAreEnds'
  PROVE  ServerInv'
  <1>1. ServerTypeOK'
    BY DEF ServerTypeOK
  <1>2. ASSUME NEW q \in Requests PROVE SentByAgent(q)' /\ Settled(q)'
    <2>1. Len(agents') \in Nat
      OBVIOUS
    <2> QED
      BY <2>1, OthersStay
  <1> QED
    BY <1>1, <1>2 DEF ServerInv

LEMMA SameRequests ==
  ASSUME ServerInv, UNCHANGED <<reqs, stored>>
  PROVE  /\ reqs' \in [Requests -> Request]
         /\ \A q \in Requests :
              /\ reqs'[q] = [reqs[q] EXCEPT !.lost = reqs'[q].lost] /\ reqs[q].lost \subseteq reqs'[q].lost
              /\ \A r \in Server!Rows : Taken(r) => Taken(r)' \/ r \in reqs'[q].lost
  <1>1. UNCHANGED reqs /\ UNCHANGED stored /\ reqs \in [Requests -> Request]
    BY AgentsType
  <1>2. ASSUME NEW q \in Requests PROVE reqs[q] = [reqs[q] EXCEPT !.lost = reqs[q].lost]
    BY <1>1 DEF Request
  <1> QED
    BY <1>1, <1>2 DEF Taken

LEMMA DeleteAgentKeeps ==
  ASSUME ServerInv, NEW a \in 1 .. MaxAgents, Server!DeleteAgent(a)
  PROVE  ServerInv'
  <1>1. /\ a \in DOMAIN agents /\ agents' = [agents EXCEPT ![a].live = FALSE] /\ UNCHANGED cache /\ UNCHANGED stored
        /\ UNCHANGED <<reqs, stored>> /\ UNCHANGED <<rings, added, evicted>>
    BY DEF Server!DeleteAgent
  <1>2. /\ agents' \in Seq(Agent) /\ Len(agents') = Len(agents)
        /\ \A b \in 1 .. Len(agents) : agents'[b].name = agents[b].name
    <2>1. agents \in Seq(Agent) /\ a \in 1 .. Len(agents)
      BY <1>1, AgentsType
    <2>2. agents[a] \in Agent
      BY <2>1
    <2>3. PICK agent : agent = [agents[a] EXCEPT !.live = FALSE]
      OBVIOUS
    <2>4. agent \in Agent /\ agent.name = agents[a].name
      BY <2>2, <2>3 DEF Agent
    <2>5. agents' = [agents EXCEPT ![a] = agent]
      BY <1>1, <2>3
    <2> QED
      BY <2>1, <2>4, <2>5, ExceptSeq
  <1>3. Len(agents') \in Nat /\ Len(agents') <= MaxAgents /\ Len(agents) <= Len(agents')
    BY <1>2, AgentsType
  <1> QED
    BY <1>1, <1>2, <1>3, StoredStays, RingsStay, CacheStays, SameRequests, NoRequestStep

LEMMA ExpireKeeps ==
  ASSUME ServerInv, NEW name \in Names, Server!Expire(name)
  PROVE  ServerInv'
  <1>1. /\ cache' = [cache EXCEPT ![name] = 0] /\ UNCHANGED agents /\ UNCHANGED stored
        /\ UNCHANGED <<reqs, stored>> /\ UNCHANGED <<rings, added, evicted>>
    BY DEF Server!Expire
  <1>2. cache' \in [Names -> 0 .. Len(agents')] /\ AgentsCached'
    BY <1>1, AgentsType DEF AgentsCached
  <1>3. /\ agents' \in Seq(Agent) /\ Len(agents') \in Nat /\ Len(agents') <= MaxAgents
        /\ Len(agents) <= Len(agents') /\ \A b \in 1 .. Len(agents) : agents'[b].name = agents[b].name
    BY <1>1, AgentsType
  <1> QED
    BY <1>1, <1>2, <1>3, StoredStays, RingsStay, SameRequests, NoRequestStep

-----------------------------------------------------------------------------
(* NewPushHandler.                                                         *)

LEMMA Ended ==
  ASSUME ServerInv, NEW q \in Requests, reqs[q].pc # "idle", UNCHANGED agents, Server!Goto(q, "error")
  PROVE  /\ reqs' = [reqs EXCEPT ![q] = reqs'[q]] /\ reqs'[q] \in Request /\ SentByAgent(q)' /\ Settled(q)'
  <1>1. /\ reqs' = [reqs EXCEPT ![q] = reqs'[q]] /\ reqs'[q] \in Request /\ reqs'[q].pc = "error"
        /\ reqs'[q].method = reqs[q].method /\ reqs'[q].name = reqs[q].name /\ reqs'[q].msg = reqs[q].msg
    BY GotoIs DEF Stages
  <1>2. Sent(q)
    BY DEF ServerInv, SentByAgent
  <1> QED
    BY <1>1, <1>2 DEF SentByAgent, Sent, Settled

(* A request at a table.                                                   *)
LEMMA Pushing ==
  ASSUME ServerInv, NEW q \in Requests, reqs[q].pc \in {"push", "rows"}
  PROVE  /\ reqs[q].method = "push" /\ Sent(q) /\ HasAgent(q) /\ Mine(q) \in Message
         /\ reqs[q].todo \subseteq Mine(q) /\ \A r \in Mine(q) \ reqs[q].lost : Open(q, r) \/ Taken(r)
         /\ reqs[q].pc = "rows" => reqs[q].items \union reqs[q].failed \subseteq Mine(q)
  BY RequestIs DEF ServerInv, SentByAgent, Settled, Mine, Message, Server!AddAgentConfig

LEMMA Storing ==
  ASSUME ServerInv, NEW q \in Requests, reqs[q].pc \in {"push", "rows"}, UNCHANGED agents,
         NEW mine \in SUBSET Mine(q), Server!Store(q, mine)
  PROVE  /\ stored' \in [Server!Rows -> {Server!Absent} \union 0 .. Len(agents')] /\ OwnersPushed'
         /\ \A r \in Server!Rows : Taken(r) => Taken(r)'
         /\ \A r \in mine : Taken(r)'
  <1>1. /\ Sent(q) /\ HasAgent(q) /\ reqs[q].method = "push" /\ mine \subseteq Server!Rows
        /\ stored \in [Server!Rows -> {Server!Absent} \union 0 .. Len(agents)] /\ Len(agents) \in Nat /\ OwnersPushed
    BY Pushing DEF Message, ServerInv, ServerTypeOK
  <1>2. reqs[q].agent \in 1 .. Len(agents) /\ reqs[q].agent > 0 /\ agents[reqs[q].agent].name = reqs[q].name
    BY <1>1 DEF HasAgent
  <1>3. stored' = [r \in Server!Rows |-> IF r \notin mine THEN stored[r]
                                         ELSE IF TableOf[r] \in Server!Owned THEN reqs[q].agent ELSE 0]
    BY DEF Server!Store
  <1>4. stored' \in [Server!Rows -> {Server!Absent} \union 0 .. Len(agents')]
    BY <1>1, <1>2, <1>3
  <1>5. ASSUME NEW r \in Server!Rows, stored'[r] > 0 PROVE PushedBy(agents'[stored'[r]].name, r)
    <2>1. CASE r \notin mine
      <3>1. stored[r] > 0 /\ stored'[r] = stored[r] /\ agents' = agents
        BY <1>3, <1>5, <2>1
      <3> QED
        BY <1>1, <3>1 DEF OwnersPushed
    <2>2. CASE r \in mine
      <3>1. stored'[r] = reqs[q].agent
        BY <1>3, <1>5, <2>2
      <3>2. PICK c \in Pushes : c.name = reqs[q].name /\ c.method = "push" /\ c.msg = reqs[q].msg
        BY <1>1 DEF Sent
      <3> QED
        BY <1>2, <2>2, <3>1, <3>2 DEF PushedBy, Mine
    <2> QED
      BY <2>1, <2>2
  <1>6. \A r \in Server!Rows : Taken(r) => Taken(r)'
    BY <1>1, <1>2, <1>3 DEF Taken, Server!Absent
  <1>7. \A r \in mine : Taken(r)'
    BY <1>1, <1>2, <1>3 DEF Taken, Server!Absent
  <1> QED
    BY <1>4, <1>5, <1>6, <1>7 DEF OwnersPushed, PushedBy

(* On to the next table: nothing of this one is open.                      *)
LEMMA Onwards ==
  ASSUME ServerInv, NEW q \in Requests, reqs[q].pc \in {"push", "rows"}, UNCHANGED agents,
         NEW t \in Server!At(q), Server!NextTable(q, t),
         \A r \in Mine(q) \ reqs[q].lost : r \in Server!After(q, t) \/ Taken(r)'
  PROVE  /\ reqs' = [reqs EXCEPT ![q] = reqs'[q]] /\ reqs'[q] \in Request /\ SentByAgent(q)' /\ Settled(q)'
  <1>1. reqs[q].method = "push" /\ Sent(q) /\ HasAgent(q) /\ reqs[q].todo \subseteq Mine(q) /\ Mine(q) \in Message
    BY Pushing
  <1>2. Server!After(q, t) \in Message /\ Server!After(q, t) \subseteq Mine(q)
    BY <1>1 DEF Server!After, Message
  <1>3. PICK after \in Message : after = Server!After(q, t)
    BY <1>2
  <1>4. reqs' = [reqs EXCEPT ![q].pc = "push", ![q].todo = after] /\ reqs \in [Requests -> Request]
    BY <1>3, AgentsType DEF Server!NextTable
  <1>5. /\ reqs' = [reqs EXCEPT ![q] = reqs'[q]] /\ reqs'[q] \in Request /\ reqs'[q].pc = "push"
        /\ reqs'[q].method = reqs[q].method /\ reqs'[q].name = reqs[q].name /\ reqs'[q].msg = reqs[q].msg
        /\ reqs'[q].agent = reqs[q].agent /\ reqs'[q].todo = after /\ reqs'[q].lost = reqs[q].lost
    <2>1. reqs' = [reqs EXCEPT ![q] = [reqs[q] EXCEPT !.pc = "push", !.todo = after]]
      BY <1>4
    <2>2. reqs'[q] = [reqs[q] EXCEPT !.pc = "push", !.todo = after] /\ reqs[q] \in Request
      BY <1>4, <2>1
    <2>3. reqs' = [reqs EXCEPT ![q] = reqs'[q]]
      BY <2>1, <2>2
    <2> QED
      BY <2>2, <2>3 DEF Request
  <1>6. SentByAgent(q)'
    BY <1>1, <1>5 DEF SentByAgent, Sent, HasAgent
  <1>7. Settled(q)'
    BY <1>2, <1>3, <1>5 DEF Settled, Open, Mine
  <1> QED
    BY <1>5, <1>6, <1>7

(* The rows of a table one by one: all of it is open still.                *)
LEMMA ByRow ==
  ASSUME ServerInv, NEW q \in Requests, reqs[q].pc = "push", UNCHANGED agents, UNCHANGED stored,
         NEW t \in Server!At(q), Server!OneByOne(q, Server!Batch(q, t))
  PROVE  /\ reqs' = [reqs EXCEPT ![q] = reqs'[q]] /\ reqs'[q] \in Request /\ SentByAgent(q)' /\ Settled(q)'
  <1>1. /\ reqs[q].method = "push" /\ Sent(q) /\ HasAgent(q) /\ reqs[q].todo \subseteq Mine(q) /\ Mine(q) \in Message
        /\ \A r \in Mine(q) \ reqs[q].lost : Open(q, r) \/ Taken(r)
    BY Pushing
  <1>2. PICK batch \in Message : batch = Server!Batch(q, t)
    BY <1>1 DEF Server!Batch, Message
  <1>3. /\ reqs' = [reqs EXCEPT ![q].pc = "rows", ![q].items = batch, ![q].failed = {}, ![q].retries = 0]
        /\ reqs \in [Requests -> Request] /\ {} \in Message
    BY <1>2, AgentsType DEF Server!OneByOne, Message
  <1>4. /\ reqs' = [reqs EXCEPT ![q] = reqs'[q]] /\ reqs'[q] \in Request /\ reqs'[q].pc = "rows"
        /\ reqs'[q].method = reqs[q].method /\ reqs'[q].name = reqs[q].name /\ reqs'[q].msg = reqs[q].msg
        /\ reqs'[q].agent = reqs[q].agent /\ reqs'[q].todo = reqs[q].todo /\ reqs'[q].lost = reqs[q].lost
        /\ reqs'[q].items = batch /\ reqs'[q].failed = {}
    <2>1. reqs' = [reqs EXCEPT ![q] = [reqs[q] EXCEPT !.pc = "rows", !.items = batch, !.failed = {}, !.retries = 0]]
      BY <1>3
    <2>2. reqs'[q] = [reqs[q] EXCEPT !.pc = "rows", !.items = batch, !.failed = {}, !.retries = 0] /\ reqs[q] \in Request
      BY <1>3, <2>1
    <2>3. reqs' = [reqs EXCEPT ![q] = reqs'[q]]
      BY <2>1, <2>2
    <2> QED
      BY <1>3, <2>2, <2>3 DEF Request
  <1>5. SentByAgent(q)'
    BY <1>1, <1>4 DEF SentByAgent, Sent, HasAgent
  <1>6. t \in Server!At(q)' /\ Server!After(q, t)' = Server!After(q, t)
    BY <1>4 DEF Server!At, Server!After, Server!Batch
  <1>7. \A r : Open(q, r) => Open(q, r)'
    BY <1>2, <1>4, <1>6 DEF Open, Server!After
  <1>8. \A r : Taken(r)' = Taken(r)
    BY DEF Taken
  <1>9. batch \subseteq Mine(q)
    BY <1>1, <1>2 DEF Server!Batch
  <1> QED
    BY <1>1, <1>4, <1>5, <1>7, <1>8, <1>9 DEF Settled, Mine

LEMMA PushStep ==
  ASSUME ServerInv, NEW q \in Requests, UNCHANGED <<agents, cache, rings, added, evicted>>,
         reqs' = [reqs EXCEPT ![q] = reqs'[q]], reqs'[q] \in Request, SentByAgent(q)', Settled(q)',
         stored' \in [Server!Rows -> {Server!Absent} \union 0 .. Len(agents')], OwnersPushed',
         \A r \in Server!Rows : Taken(r) => Taken(r)'
  PROVE  ServerInv'
  <1>1. UNCHANGED agents /\ UNCHANGED cache /\ UNCHANGED <<rings, added, evicted>>
    OBVIOUS
  <1>2. /\ agents' \in Seq(Agent) /\ Len(agents') \in Nat /\ Len(agents') <= MaxAgents
        /\ Len(agents) <= Len(agents') /\ \A b \in 1 .. Len(agents) : agents'[b].name = agents[b].name
    BY <1>1, AgentsType
  <1> QED
    BY <1>1, <1>2, RingsStay, CacheStays, RequestStep

LEMMA InsertBatchKeeps ==
  ASSUME ServerInv, NEW q \in Requests, Server!InsertBatch(q)
  PROVE  ServerInv'
  <1>1. /\ reqs[q].pc = "push" /\ UNCHANGED <<agents, cache, rings, added, evicted>> /\ UNCHANGED agents
        /\ Len(agents) <= Len(agents') /\ Len(agents') \in Nat
        /\ \A b \in 1 .. Len(agents) : agents'[b].name = agents[b].name
    BY AgentsType DEF Server!InsertBatch
  <1>2. PICK t \in Server!At(q) :
          \/ t[2] = "update" /\ UNCHANGED stored /\ Server!NextTable(q, t)
          \/ Server!Store(q, Server!Batch(q, t)) /\ Server!NextTable(q, t)
          \/ UNCHANGED stored /\ Server!OneByOne(q, Server!Batch(q, t))
          \/ UNCHANGED stored /\ Server!Goto(q, "error")
    BY DEF Server!InsertBatch
  <1>3. /\ reqs[q].todo \subseteq Mine(q) /\ Mine(q) \in Message
        /\ \A r \in Mine(q) \ reqs[q].lost : r \in reqs[q].todo \/ Taken(r)
    BY <1>1, Pushing DEF Open
  <1>4. \A r \in reqs[q].todo : r \in Server!After(q, t) \/ r \in Server!Batch(q, t)
    BY DEF Server!After
  <1>5. Server!Batch(q, t) \in SUBSET Mine(q)
    BY <1>3 DEF Server!Batch
  <1>6. CASE t[2] = "update" /\ UNCHANGED stored /\ Server!NextTable(q, t)
    <2>1. \A r \in Server!Batch(q, t) : Taken(r)'
      BY <1>6, OneTable DEF Server!Batch, Taken
    <2>2. \A r \in Mine(q) \ reqs[q].lost : r \in Server!After(q, t) \/ Taken(r)'
      BY <1>3, <1>4, <1>6, <2>1 DEF Taken
    <2> QED
      BY <1>1, <1>6, <2>2, StoredStays, Onwards, PushStep
  <1>7. CASE Server!Store(q, Server!Batch(q, t)) /\ Server!NextTable(q, t)
    <2>1. /\ stored' \in [Server!Rows -> {Server!Absent} \union 0 .. Len(agents')] /\ OwnersPushed'
          /\ \A r \in Server!Rows : Taken(r) => Taken(r)'
          /\ \A r \in Server!Batch(q, t) : Taken(r)'
      BY <1>1, <1>5, <1>7, Storing
    <2>2. \A r \in Mine(q) \ reqs[q].lost : r \in Server!After(q, t) \/ Taken(r)'
      BY <1>3, <1>4, <2>1 DEF Message
    <2> QED
      BY <1>1, <1>7, <2>1, <2>2, Onwards, PushStep
  <1>8. CASE UNCHANGED stored /\ Server!OneByOne(q, Server!Batch(q, t))
    BY <1>1, <1>8, StoredStays, ByRow, PushStep
  <1>9. CASE UNCHANGED stored /\ Server!Goto(q, "error")
    BY <1>1, <1>9, StoredStays, Ended, PushStep
  <1> QED
    BY <1>2, <1>6, <1>7, <1>8, <1>9

LEMMA InsertEachKeeps ==
  ASSUME ServerInv, NEW q \in Requests, Server!InsertEach(q)
  PROVE  ServerInv'
  <1>1. /\ reqs[q].pc = "push" /\ UNCHANGED agents /\ UNCHANGED stored /\ UNCHANGED Elsewhere
        /\ \E t \in Server!At(q) : Server!OneByOne(q, Server!Batch(q, t))
    BY DEF Server!InsertEach, Elsewhere
  <1> QED
    BY <1>1, ByRow, OnlyRequests

LEMMA InsertRowKeeps ==
  ASSUME ServerInv, NEW q \in Requests, Server!InsertRow(q)
  PROVE  ServerInv'
  <1>1. /\ reqs[q].pc = "rows" /\ UNCHANGED <<agents, cache, rings, added, evicted>> /\ UNCHANGED agents
        /\ Len(agents) <= Len(agents') /\ Len(agents') \in Nat
        /\ \A b \in 1 .. Len(agents) : agents'[b].name = agents[b].name
    BY AgentsType DEF Server!InsertRow
  <1>2. PICK t \in Server!At(q), r \in reqs[q].items :
          \/ Server!Store(q, {r}) /\ reqs' = [reqs EXCEPT ![q].items = @ \ {r}]
          \/ UNCHANGED stored /\ reqs' = [reqs EXCEPT ![q].items = @ \ {r}, ![q].failed = @ \union {r}]
          \/ UNCHANGED stored /\ Server!Goto(q, "error")
    BY DEF Server!InsertRow
  <1>3. /\ Sent(q) /\ HasAgent(q) /\ reqs[q].method = "push" /\ reqs[q].todo \subseteq Mine(q) /\ Mine(q) \in Message
        /\ \A s \in Mine(q) \ reqs[q].lost : Open(q, s) \/ Taken(s)
        /\ reqs[q].items \union reqs[q].failed \subseteq Mine(q)
    BY <1>1, Pushing
  <1>4. ASSUME NEW items \in Message, items = reqs[q].items \ {r}, NEW failed \in Message,
               failed = reqs[q].failed \union {r} \/ (failed = reqs[q].failed /\ Taken(r)'),
               reqs' = [reqs EXCEPT ![q].items = items, ![q].failed = failed],
               \A s \in Server!Rows : Taken(s) => Taken(s)'
        PROVE  reqs' = [reqs EXCEPT ![q] = reqs'[q]] /\ reqs'[q] \in Request /\ SentByAgent(q)' /\ Settled(q)'
    <2>1. /\ reqs' = [reqs EXCEPT ![q] = reqs'[q]] /\ reqs'[q] \in Request /\ reqs'[q].pc = "rows"
          /\ reqs'[q].method = reqs[q].method /\ reqs'[q].name = reqs[q].name /\ reqs'[q].msg = reqs[q].msg
          /\ reqs'[q].agent = reqs[q].agent /\ reqs'[q].todo = reqs[q].todo /\ reqs'[q].lost = reqs[q].lost
          /\ reqs'[q].items = items /\ reqs'[q].failed = failed
      <3>1. reqs' = [reqs EXCEPT ![q] = [reqs[q] EXCEPT !.items = items, !.failed = failed]]
        BY <1>4, AgentsType
      <3>2. reqs'[q] = [reqs[q] EXCEPT !.items = items, !.failed = failed] /\ reqs[q] \in Request
        BY <1>4, AgentsType, <3>1
      <3>3. reqs' = [reqs EXCEPT ![q] = reqs'[q]]
        BY <3>1, <3>2
      <3> QED
        BY <1>1, <3>2, <3>3 DEF Request
    <2>2. SentByAgent(q)'
      BY <1>1, <1>3, <2>1 DEF SentByAgent, Sent, HasAgent
    <2>3. t \in Server!At(q)' /\ Server!After(q, t)' = Server!After(q, t)
      BY <2>1 DEF Server!At, Server!After, Server!Batch
    <2>4. ASSUME NEW s \in Mine(q) \ reqs[q].lost PROVE Open(q, s)' \/ Taken(s)'
      <3>1. CASE Open(q, s)
        <4>1. s \in reqs[q].items \union reqs[q].failed \union Server!After(q, t)
          BY <1>1, <3>1, OneTable DEF Open
        <4>2. (s = r /\ Taken(r)') \/ s \in items \union failed \union Server!After(q, t)
          BY <1>4, <4>1
        <4> QED
          BY <1>4, <2>1, <2>3, <4>2 DEF Open
      <3>2. CASE Taken(s)
        BY <1>3, <1>4, <3>2 DEF Message
      <3> QED
        BY <1>3, <3>1, <3>2
    <2>5. items \union failed \subseteq Mine(q)
      BY <1>3, <1>4
    <2> QED
      BY <1>3, <2>1, <2>2, <2>4, <2>5 DEF Settled, Mine
  <1>5. /\ reqs[q].items \ {r} \in Message /\ reqs[q].failed \in Message
        /\ reqs[q].failed \union {r} \in Message
    BY RequestIs DEF ServerInv, Message
  <1>6. CASE Server!Store(q, {r}) /\ reqs' = [reqs EXCEPT ![q].items = @ \ {r}]
    <2>1. {r} \in SUBSET Mine(q)
      BY <1>3
    <2>2. /\ stored' \in [Server!Rows -> {Server!Absent} \union 0 .. Len(agents')] /\ OwnersPushed'
          /\ \A s \in Server!Rows : Taken(s) => Taken(s)'
          /\ Taken(r)'
      BY <1>1, <1>6, <2>1, Storing
    <2>3. reqs' = [reqs EXCEPT ![q].items = reqs[q].items \ {r}, ![q].failed = reqs[q].failed]
      BY <1>6, AgentsType DEF Request
    <2> QED
      BY <1>1, <1>4, <1>5, <2>2, <2>3, PushStep
  <1>7. CASE UNCHANGED stored /\ reqs' = [reqs EXCEPT ![q].items = @ \ {r}, ![q].failed = @ \union {r}]
    <2>1. reqs' = [reqs EXCEPT ![q].items = reqs[q].items \ {r}, ![q].failed = reqs[q].failed \union {r}]
      BY <1>7, AgentsType
    <2> QED
      BY <1>1, <1>4, <1>5, <1>7, <2>1, StoredStays, PushStep
  <1>8. CASE UNCHANGED stored /\ Server!Goto(q, "error")
    BY <1>1, <1>8, StoredStays, Ended, PushStep
  <1> QED
    BY <1>2, <1>6, <1>7, <1>8

(* RowsDone: every row of the table was tried.                             *)
LEMMA RowsDoneKeeps ==
  ASSUME ServerInv, NEW q \in Requests, Server!RowsDone(q)
  PROVE  ServerInv'
  <1>1. /\ reqs[q].pc = "rows" /\ reqs[q].items = {} /\ UNCHANGED agents /\ UNCHANGED stored
        /\ UNCHANGED Elsewhere
    BY DEF Server!RowsDone, Elsewhere
  <1>2. PICK t \in Server!At(q) :
          \/ Server!Retry(q)
          \/ Server!Goto(q, "conflict")
          \/ reqs[q].failed = {} /\ Server!NextTable(q, t)
    BY DEF Server!RowsDone
  <1>3. /\ Sent(q) /\ HasAgent(q) /\ reqs[q].method = "push" /\ reqs[q].todo \subseteq Mine(q) /\ Mine(q) \in Message
        /\ \A s \in Mine(q) \ reqs[q].lost : Open(q, s) \/ Taken(s)
        /\ reqs[q].failed \subseteq Mine(q)
    BY <1>1, Pushing
  <1>4. \A s : Taken(s)' = Taken(s)
    BY <1>1 DEF Taken
  <1>5. CASE Server!Retry(q)
    <2>1. reqs[q].retries + 1 \in Nat /\ reqs[q].failed \in Message /\ {} \in Message
      BY RequestIs DEF ServerInv, Message
    <2>2. PICK n \in Nat, failed \in Message : n = reqs[q].retries + 1 /\ failed = reqs[q].failed
      BY <2>1
    <2>3. /\ reqs' = [reqs EXCEPT ![q].items = failed, ![q].failed = {}, ![q].retries = n]
          /\ reqs \in [Requests -> Request]
      BY <1>5, <2>2, AgentsType DEF Server!Retry
    <2>4. /\ reqs' = [reqs EXCEPT ![q] = reqs'[q]] /\ reqs'[q] \in Request /\ reqs'[q].pc = "rows"
          /\ reqs'[q].method = reqs[q].method /\ reqs'[q].name = reqs[q].name /\ reqs'[q].msg = reqs[q].msg
          /\ reqs'[q].agent = reqs[q].agent /\ reqs'[q].todo = reqs[q].todo /\ reqs'[q].lost = reqs[q].lost
          /\ reqs'[q].items = failed /\ reqs'[q].failed = {}
      <3>1. reqs' = [reqs EXCEPT ![q] = [reqs[q] EXCEPT !.items = failed, !.failed = {}, !.retries = n]]
        BY <2>3
      <3>2. reqs'[q] = [reqs[q] EXCEPT !.items = failed, !.failed = {}, !.retries = n] /\ reqs[q] \in Request
        BY <2>3, <3>1
      <3>3. reqs' = [reqs EXCEPT ![q] = reqs'[q]]
        BY <3>1, <3>2
      <3> QED
        BY <1>1, <2>1, <3>2, <3>3 DEF Request
    <2>5. SentByAgent(q)'
      BY <1>1, <1>3, <2>4 DEF SentByAgent, Sent, HasAgent
    <2>6. Server!At(q)' = Server!At(q)
      BY <2>4 DEF Server!At
    <2>7. \A u \in Server!At(q) : Server!After(q, u)' = Server!After(q, u)
      BY <2>4 DEF Server!After, Server!Batch
    <2>8. \A s : Open(q, s) => Open(q, s)'
      BY <1>1, <2>2, <2>4, <2>6, <2>7 DEF Open
    <2>9. Settled(q)'
      BY <1>3, <1>4, <2>2, <2>4, <2>8 DEF Settled, Mine
    <2> QED
      BY <1>1, <2>4, <2>5, <2>9, OnlyRequests
  <1>6. CASE Server!Goto(q, "conflict")
    <2>1. /\ reqs' = [reqs EXCEPT ![q] = reqs'[q]] /\ reqs'[q] \in Request /\ reqs'[q].pc = "conflict"
          /\ reqs'[q].method = reqs[q].method /\ reqs'[q].name = reqs[q].name /\ reqs'[q].msg = reqs[q].msg
          /\ reqs'[q].agent = reqs[q].agent /\ reqs'[q].todo = reqs[q].todo /\ reqs'[q].items = reqs[q].items
          /\ reqs'[q].failed = reqs[q].failed /\ reqs'[q].lost = reqs[q].lost
      BY <1>6, GotoIs DEF Stages
    <2>2. SentByAgent(q)'
      BY <1>1, <1>3, <2>1 DEF SentByAgent, Sent
    <2>3. Server!At(q)' = Server!At(q)
      BY <2>1 DEF Server!At
    <2>4. \A u \in Server!At(q) : Server!After(q, u)' = Server!After(q, u)
      BY <2>1 DEF Server!After, Server!Batch
    <2>5. \A s : Open(q, s) => Open(q, s)'
      BY <1>1, <2>1, <2>3, <2>4 DEF Open
    <2>6. Settled(q)'
      BY <1>1, <1>3, <1>4, <2>1, <2>5 DEF Settled, Mine
    <2> QED
      BY <1>1, <2>1, <2>2, <2>6, OnlyRequests
  <1>7. CASE reqs[q].failed = {} /\ Server!NextTable(q, t)
    <2>1. \A r \in Mine(q) \ reqs[q].lost : r \in Server!After(q, t) \/ Taken(r)'
      BY <1>1, <1>3, <1>4, <1>7, OneTable DEF Open
    <2> QED
      BY <1>1, <1>7, <2>1, Onwards, OnlyRequests
  <1> QED
    BY <1>2, <1>5, <1>6, <1>7

LEMMA AnswerPushKeeps ==
  ASSUME ServerInv, NEW q \in Requests, Server!AnswerPush(q)
  PROVE  ServerInv'
  <1>1. /\ reqs[q].pc = "push" /\ reqs[q].todo = {} /\ Server!Goto(q, "ok") /\ UNCHANGED stored
        /\ UNCHANGED Elsewhere
    BY DEF Server!AnswerPush, Elsewhere
  <1>2. /\ Sent(q) /\ reqs[q].todo \subseteq Mine(q)
        /\ \A s \in Mine(q) \ reqs[q].lost : Open(q, s) \/ Taken(s)
    BY <1>1, Pushing
  <1>3. /\ reqs' = [reqs EXCEPT ![q] = reqs'[q]] /\ reqs'[q] \in Request /\ reqs'[q].pc = "ok"
        /\ reqs'[q].method = reqs[q].method /\ reqs'[q].name = reqs[q].name /\ reqs'[q].msg = reqs[q].msg
        /\ reqs'[q].todo = reqs[q].todo /\ reqs'[q].lost = reqs[q].lost
    BY <1>1, GotoIs DEF Stages
  <1>4. SentByAgent(q)'
    BY <1>2, <1>3 DEF SentByAgent, Sent
  <1>5. \A s \in Mine(q) \ reqs[q].lost : Taken(s)'
    BY <1>1, <1>2 DEF Open, Taken
  <1>6. Settled(q)'
    BY <1>2, <1>3, <1>5 DEF Settled, Mine
  <1> QED
    BY <1>1, <1>3, <1>4, <1>6, OnlyRequests

-----------------------------------------------------------------------------
(* addJobHistoryToRing.                                                    *)

(* StatusRing.Add, for one agent.                                          *)
LEMMA RingStep ==
  ASSUME ServerInv, NEW a \in 1 .. MaxAgents, NEW h \in Server!Rows, NEW ring, ring = Append(rings[a], h),
         rings' = [rings EXCEPT ![a] = IF Len(ring) > Retention THEN Tail(ring) ELSE ring],
         evicted' = IF Len(ring) > Retention THEN Append(evicted, Head(ring)) ELSE evicted,
         added' = [added EXCEPT ![a] = Append(added[a], h)]
  PROVE  /\ rings' \in [1 .. MaxAgents -> Seq(Server!Rows)] /\ added' \in [1 .. MaxAgents -> Seq(Server!Rows)]
         /\ evicted' \in Seq(Server!Rows) /\ RingsAreEnds'
  <1> DEFINE n == Len(rings[a])
             m == Len(added[a])
  <1>1. /\ rings \in [1 .. MaxAgents -> Seq(Server!Rows)] /\ added \in [1 .. MaxAgents -> Seq(Server!Rows)]
        /\ evicted \in Seq(Server!Rows) /\ Len(evicted) \in Nat /\ Retention \in Nat
        /\ rings[a] \in Seq(Server!Rows) /\ added[a] \in Seq(Server!Rows) /\ n \in Nat /\ m \in Nat
    <2>1. /\ rings \in [1 .. MaxAgents -> Seq(Server!Rows)] /\ added \in [1 .. MaxAgents -> Seq(Server!Rows)]
          /\ evicted \in Seq(Server!Rows)
      BY DEF ServerInv, ServerTypeOK
    <2>2. rings[a] \in Seq(Server!Rows) /\ added[a] \in Seq(Server!Rows)
      BY <2>1
    <2> QED
      BY <2>1, <2>2, ServerAssumed
  <1>2. /\ n <= Retention /\ n <= m /\ \A k \in 1 .. n : rings[a][k] = added[a][m - n + k]
    BY DEF ServerInv, RingsAreEnds
  <1>3. /\ ring \in Seq(Server!Rows) /\ Len(ring) = n + 1
        /\ \A k \in 1 .. n + 1 : ring[k] = IF k <= n THEN rings[a][k] ELSE h
    BY <1>1
  <1>4. /\ added' \in [1 .. MaxAgents -> Seq(Server!Rows)] /\ Len(added'[a]) = m + 1
        /\ \A k \in 1 .. m + 1 : added'[a][k] = IF k <= m THEN added[a][k] ELSE h
        /\ \A b \in 1 .. MaxAgents : b # a => added'[b] = added[b]
    BY <1>1
  <1> HIDE DEF n, m
  <1>5. \A k \in 1 .. n + 1 : ring[k] = added'[a][m - n + k]
    <2> SUFFICES ASSUME NEW k \in 1 .. n + 1 PROVE ring[k] = added'[a][m - n + k]
      OBVIOUS
    <2>1. m - n + k \in 1 .. m + 1 /\ (m - n + k <= m <=> k <= n)
      BY <1>1, <1>2
    <2>2. added'[a][m - n + k] = IF k <= n THEN added[a][m - n + k] ELSE h
      BY <1>4, <2>1
    <2>3. k <= n => k \in 1 .. n
      OBVIOUS
    <2> QED
      BY <1>2, <1>3, <2>2, <2>3
  <1>6. rings'[a] = (IF Len(ring) > Retention THEN Tail(ring) ELSE ring) /\ \A b \in 1 .. MaxAgents : b # a => rings'[b] = rings[b]
    BY <1>1
  <1>7. /\ rings'[a] \in Seq(Server!Rows) /\ Len(rings'[a]) <= Retention /\ Len(rings'[a]) <= m + 1
        /\ \A k \in 1 .. Len(rings'[a]) : rings'[a][k] = added'[a][m + 1 - Len(rings'[a]) + k]
    <2>1. CASE Len(ring) > Retention
      <3>1. /\ Tail(ring) \in Seq(Server!Rows) /\ Len(Tail(ring)) = n
            /\ \A k \in 1 .. n : Tail(ring)[k] = ring[k + 1]
        BY <1>1, <1>3
      <3>2. rings'[a] = Tail(ring)
        BY <1>6, <2>1
      <3>3. ASSUME NEW k \in 1 .. n PROVE Tail(ring)[k] = added'[a][m + 1 - n + k]
        <4>1. k + 1 \in 1 .. n + 1 /\ m - n + (k + 1) = m + 1 - n + k
          BY <1>1
        <4> QED
          BY <1>5, <3>1, <4>1
      <3>4. n <= Retention /\ n <= m + 1
        BY <1>1, <1>2
      <3>5. \A k \in 1 .. n : rings'[a][k] = added'[a][m + 1 - n + k]
        BY <3>2, <3>3
      <3>6. Len(rings'[a]) = n /\ rings'[a] \in Seq(Server!Rows)
        BY <3>1, <3>2
      <3> QED
        BY <3>4, <3>5, <3>6
    <2>2. CASE ~(Len(ring) > Retention)
      <3>1. rings'[a] = ring
        BY <1>6, <2>2
      <3>2. ASSUME NEW k \in 1 .. n + 1 PROVE ring[k] = added'[a][m + 1 - (n + 1) + k]
        <4>1. m + 1 - (n + 1) + k = m - n + k
          BY <1>1
        <4> QED
          BY <1>5, <4>1
      <3>3. Len(rings'[a]) = n + 1 /\ n + 1 <= Retention /\ n + 1 <= m + 1 /\ rings'[a] \in Seq(Server!Rows)
        BY <1>1, <1>2, <1>3, <2>2, <3>1
      <3>4. \A k \in 1 .. n + 1 : rings'[a][k] = added'[a][m + 1 - (n + 1) + k]
        BY <3>1, <3>2
      <3> QED
        BY <3>3, <3>4
    <2> QED
      BY <2>1, <2>2
  <1>8. rings' \in [1 .. MaxAgents -> Seq(Server!Rows)]
    <2>1. (IF Len(ring) > Retention THEN Tail(ring) ELSE ring) \in Seq(Server!Rows)
      BY <1>6, <1>7
    <2> QED
      BY <1>1, <2>1
  <1>9. ASSUME NEW x \in Passed PROVE x \in Passed'
    <2>1. x \in Server!Rows /\ \E b \in 1 .. MaxAgents : \E k \in 1 .. Len(added[b]) :
            x = added[b][k] /\ Len(added[b]) - k >= Retention
      BY DEF Passed
    <2>2. PICK b \in 1 .. MaxAgents : \E k \in 1 .. Len(added[b]) : x = added[b][k] /\ Len(added[b]) - k >= Retention
      BY <2>1
    <2>3. PICK k \in 1 .. Len(added[b]) : x = added[b][k] /\ Len(added[b]) - k >= Retention
      BY <2>2
    <2>4. CASE b = a
      <3>1. k \in 1 .. m + 1 /\ k <= m /\ m + 1 - k >= Retention
        BY <1>1, <2>3, <2>4 DEF m
      <3>2. added'[a][k] = added[a][k] /\ Len(added'[a]) = m + 1
        BY <1>4, <3>1
      <3>3. x = added'[a][k]
        BY <2>3, <2>4, <3>2
      <3>4. k \in 1 .. Len(added'[a]) /\ Len(added'[a]) - k >= Retention
        BY <1>1, <3>1, <3>2
      <3> QED
        BY <2>1, <3>3, <3>4 DEF Passed
    <2>5. CASE b # a
      <3>1. added'[b] = added[b]
        BY <1>4, <2>5
      <3> QED
        BY <2>1, <2>3, <3>1 DEF Passed
    <2> QED
      BY <2>4, <2>5
  <1>10. evicted' \in Seq(Server!Rows) /\ \A i \in 1 .. Len(evicted') : evicted'[i] \in Passed'
    <2>1. \A i \in 1 .. Len(evicted) : evicted[i] \in Passed'
      BY <1>9 DEF ServerInv, RingsAreEnds
    <2>2. CASE Len(ring) > Retention
      <3>1. Head(ring) = ring[1] /\ Head(ring) \in Server!Rows /\ 1 \in 1 .. n + 1
        BY <1>1, <1>3
      <3>2. m - n + 1 \in 1 .. m + 1 /\ (m + 1) - (m - n + 1) >= Retention
        BY <1>1, <1>2, <1>3, <2>2
      <3>3. /\ Head(ring) = added'[a][m - n + 1] /\ m - n + 1 \in 1 .. Len(added'[a])
            /\ Len(added'[a]) - (m - n + 1) >= Retention
        BY <1>4, <1>5, <3>1, <3>2
      <3>4. Head(ring) \in Passed'
        BY <3>1, <3>3 DEF Passed
      <3>5. evicted' = Append(evicted, Head(ring))
        BY <2>2
      <3>6. /\ evicted' \in Seq(Server!Rows) /\ Len(evicted') = Len(evicted) + 1
            /\ \A i \in 1 .. Len(evicted) + 1 : evicted'[i] = IF i <= Len(evicted) THEN evicted[i] ELSE Head(ring)
        BY <1>1, <3>1, <3>5
      <3>7. ASSUME NEW i \in 1 .. Len(evicted') PROVE evicted'[i] \in Passed'
        <4>1. CASE i <= Len(evicted)
          <5>1. i \in 1 .. Len(evicted) /\ evicted'[i] = evicted[i]
            BY <1>1, <3>6, <4>1
          <5> QED
            BY <2>1, <5>1
        <4>2. CASE ~(i <= Len(evicted))
          <5>1. evicted'[i] = Head(ring)
            BY <1>1, <3>6, <4>2
          <5> QED
            BY <3>4, <5>1
        <4> QED
          BY <4>1, <4>2
      <3> QED
        BY <3>6, <3>7
    <2>3. CASE ~(Len(ring) > Retention)
      <3>1. evicted' = evicted
        BY <2>3
      <3> QED
        BY <1>1, <2>1, <3>1
    <2> QED
      BY <2>2, <2>3
  <1>11. ASSUME NEW b \in 1 .. MaxAgents
         PROVE  /\ Len(rings'[b]) <= Retention /\ Len(rings'[b]) <= Len(added'[b])
                /\ \A k \in 1 .. Len(rings'[b]) : rings'[b][k] = added'[b][Len(added'[b]) - Len(rings'[b]) + k]
    <2>1. CASE b = a
      <3>1. PICK kept, all : kept = rings'[b] /\ all = added'[b]
        OBVIOUS
      <3>2. Len(all) = m + 1
        BY <1>4, <2>1, <3>1
      <3>3. /\ Len(kept) <= Retention /\ Len(kept) <= m + 1
            /\ \A k \in 1 .. Len(kept) : kept[k] = all[m + 1 - Len(kept) + k]
        BY <1>7, <2>1, <3>1
      <3>4. /\ Len(kept) <= Retention /\ Len(kept) <= Len(all)
            /\ \A k \in 1 .. Len(kept) : kept[k] = all[Len(all) - Len(kept) + k]
        <4>1. m \in Nat
          BY <1>1
        <4>2. Len(kept) \in Nat
          BY <1>7, <2>1, <3>1
        <4>3. \A k \in 1 .. Len(kept) : m + 1 - Len(kept) + k = Len(all) - Len(kept) + k
          BY <3>2, <4>1, <4>2
        <4> QED
          BY <3>2, <3>3, <4>1, <4>2, <4>3
      <3> QED
        BY <3>1, <3>4
    <2>2. CASE b # a
      <3>1. rings'[b] = rings[b] /\ added'[b] = added[b]
        BY <1>4, <1>6, <2>2
      <3> QED
        BY <3>1 DEF ServerInv, RingsAreEnds
    <2> QED
      BY <2>1, <2>2
  <1> QED
    BY <1>4, <1>8, <1>10, <1>11 DEF RingsAreEnds

LEMMA AddHistoryKeeps ==
  ASSUME ServerInv, NEW q \in Requests, Server!AddHistory(q)
  PROVE  ServerInv'
  <1>1. reqs[q].pc = "push" /\ reqs[q].todo = {} /\ UNCHANGED agents /\ UNCHANGED cache /\ UNCHANGED stored
    BY DEF Server!AddHistory
  <1>2. PICK h \in reqs[q].histories :
          /\ rings' = [rings EXCEPT ![reqs[q].agent] =
                         IF Len(Append(rings[reqs[q].agent], h)) > Retention
                         THEN Tail(Append(rings[reqs[q].agent], h)) ELSE Append(rings[reqs[q].agent], h)]
          /\ evicted' = IF Len(Append(rings[reqs[q].agent], h)) > Retention
                        THEN Append(evicted, Head(Append(rings[reqs[q].agent], h))) ELSE evicted
          /\ added' = [added EXCEPT ![reqs[q].agent] = Append(@, h)]
          /\ reqs' = [reqs EXCEPT ![q].histories = @ \ {h}]
    BY DEF Server!AddHistory
  <1>3. /\ reqs[q].agent \in 1 .. MaxAgents /\ h \in Server!Rows /\ reqs[q].histories \ {h} \in Message
        /\ Sent(q) /\ HasAgent(q) /\ reqs[q].method = "push" /\ reqs[q].todo \subseteq Mine(q)
        /\ \A s \in Mine(q) \ reqs[q].lost : Open(q, s) \/ Taken(s)
    BY <1>1, Pushing, RequestIs, AgentsType DEF ServerInv, HasAgent, Message
  <1>4. added' = [added EXCEPT ![reqs[q].agent] = Append(added[reqs[q].agent], h)]
    BY <1>2
  <1>5. /\ rings' \in [1 .. MaxAgents -> Seq(Server!Rows)] /\ added' \in [1 .. MaxAgents -> Seq(Server!Rows)]
        /\ evicted' \in Seq(Server!Rows) /\ RingsAreEnds'
    BY <1>2, <1>3, <1>4, RingStep
  <1>6. PICK histories \in Message : histories = reqs[q].histories \ {h}
    BY <1>3
  <1>7. reqs' = [reqs EXCEPT ![q].histories = histories] /\ reqs \in [Requests -> Request]
    BY <1>2, <1>6, AgentsType
  <1>8. /\ reqs' = [reqs EXCEPT ![q] = reqs'[q]] /\ reqs'[q] \in Request /\ reqs'[q].pc = "push"
        /\ reqs'[q].method = reqs[q].method /\ reqs'[q].name = reqs[q].name /\ reqs'[q].msg = reqs[q].msg
        /\ reqs'[q].agent = reqs[q].agent /\ reqs'[q].todo = reqs[q].todo /\ reqs'[q].lost = reqs[q].lost
    BY <1>1, <1>7 DEF Request
  <1>9. SentByAgent(q)'
    BY <1>1, <1>3, <1>8 DEF SentByAgent, Sent, HasAgent
  <1>10. \A s : Open(q, s) => Open(q, s)'
    BY <1>1, <1>8 DEF Open
  <1>11. Settled(q)'
    BY <1>1, <1>3, <1>8, <1>10 DEF Settled, Mine, Taken
  <1>12. /\ agents' \in Seq(Agent) /\ Len(agents') \in Nat /\ Len(agents') <= MaxAgents
         /\ Len(agents) <= Len(agents') /\ \A b \in 1 .. Len(agents) : agents'[b].name = agents[b].name
    BY <1>1, AgentsType
  <1> QED
    BY <1>1, <1>5, <1>8, <1>9, <1>11, <1>12, StoredStays, CacheStays, RequestStep

-----------------------------------------------------------------------------
(* What deletes rows.                                                      *)

LEMMA Vanishing ==
  ASSUME ServerInv, UNCHANGED agents, NEW gone \in Message,
         stored' = [r \in Server!Rows |-> IF r \in gone THEN Server!Absent ELSE stored[r]]
  PROVE  /\ stored' \in [Server!Rows -> {Server!Absent} \union 0 .. Len(agents')] /\ OwnersPushed'
         /\ \A r \in Server!Rows : Taken(r) => Taken(r)' \/ r \in gone
  <1>1. stored \in [Server!Rows -> {Server!Absent} \union 0 .. Len(agents)] /\ OwnersPushed
    BY DEF ServerInv, ServerTypeOK
  <1>2. \A r \in Server!Rows : stored'[r] = IF r \in gone THEN Server!Absent ELSE stored[r]
    OBVIOUS
  <1>3. ~(Server!Absent > 0)
    BY DEF Server!Absent
  <1> QED
    BY <1>1, <1>2, <1>3 DEF OwnersPushed, PushedBy, Taken

LEMMA SameAgents ==
  ASSUME ServerInv, UNCHANGED agents
  PROVE  /\ agents' \in Seq(Agent) /\ Len(agents') \in Nat /\ Len(agents') <= MaxAgents
         /\ Len(agents) <= Len(agents') /\ \A b \in 1 .. Len(agents) : agents'[b].name = agents[b].name
  BY AgentsType

(* deleteEvictedJobs.                                                      *)
LEMMA EvictKeeps ==
  ASSUME ServerInv, Server!Evict
  PROVE  ServerInv'
  <1>1. /\ evicted # << >> /\ evicted' = Tail(evicted) /\ UNCHANGED agents /\ UNCHANGED cache /\ UNCHANGED rings
        /\ UNCHANGED added /\ Server!Vanish({Head(evicted)}, reqs)
    BY DEF Server!Evict
  <1>2. /\ evicted \in Seq(Server!Rows) /\ Len(evicted) \in Nat /\ Len(evicted) # 0 /\ Head(evicted) = evicted[1]
        /\ Head(evicted) \in Server!Rows
    BY <1>1 DEF ServerInv, ServerTypeOK
  <1>3. PICK gone \in Message : gone = {Head(evicted)}
    BY <1>2 DEF Message
  <1>4. /\ stored' = [r \in Server!Rows |-> IF r \in gone THEN Server!Absent ELSE stored[r]]
        /\ reqs' = [q \in Requests |-> [reqs[q] EXCEPT !.lost = reqs[q].lost \union gone]]
    BY <1>1, <1>3 DEF Server!Vanish
  <1>5. /\ stored' \in [Server!Rows -> {Server!Absent} \union 0 .. Len(agents')] /\ OwnersPushed'
        /\ \A r \in Server!Rows : Taken(r) => Taken(r)' \/ r \in gone
    BY <1>1, <1>4, Vanishing
  <1>6. ASSUME NEW q \in Requests
        PROVE  /\ reqs'[q] = [reqs[q] EXCEPT !.lost = reqs'[q].lost] /\ reqs[q].lost \subseteq reqs'[q].lost
               /\ reqs'[q] \in Request /\ gone \subseteq reqs'[q].lost
    <2>1. reqs[q].lost \union gone \in Message /\ reqs[q] \in Request
      BY RequestIs DEF ServerInv, Message
    <2>2. PICK lost \in Message : lost = reqs[q].lost \union gone
      BY <2>1
    <2>3. reqs'[q] = [reqs[q] EXCEPT !.lost = lost]
      BY <1>4, <2>2
    <2>4. reqs'[q] \in Request /\ reqs'[q].lost = lost
      BY <2>1, <2>3 DEF Request
    <2> QED
      BY <2>2, <2>3, <2>4
  <1>7. reqs' \in [Requests -> Request]
    BY <1>4, <1>6
  <1>8. evicted' \in Seq(Server!Rows) /\ Len(evicted') = Len(evicted) - 1
        /\ \A i \in 1 .. Len(evicted') : evicted'[i] = evicted[i + 1] /\ i + 1 \in 1 .. Len(evicted)
    BY <1>1, <1>2
  <1>9. /\ rings' \in [1 .. MaxAgents -> Seq(Server!Rows)] /\ added' \in [1 .. MaxAgents -> Seq(Server!Rows)]
        /\ RingsAreEnds'
    <2>1. /\ rings' = rings /\ added' = added /\ RingsAreEnds
          /\ rings \in [1 .. MaxAgents -> Seq(Server!Rows)] /\ added \in [1 .. MaxAgents -> Seq(Server!Rows)]
      BY <1>1 DEF ServerInv, ServerTypeOK
    <2>2. ASSUME NEW i \in 1 .. Len(evicted')
          PROVE  evicted'[i] \in Passed
      <3>1. evicted'[i] = evicted[i + 1] /\ i + 1 \in 1 .. Len(evicted)
        BY <1>8
      <3> QED
        BY <2>1, <3>1 DEF RingsAreEnds
    <2>3. Passed' = Passed
      BY <2>1 DEF Passed
    <2> QED
      BY <2>1, <2>2, <2>3 DEF RingsAreEnds
  <1>10. \A q \in Requests :
           /\ reqs'[q] = [reqs[q] EXCEPT !.lost = reqs'[q].lost] /\ reqs[q].lost \subseteq reqs'[q].lost
           /\ \A r \in Server!Rows : Taken(r) => Taken(r)' \/ r \in reqs'[q].lost
    BY <1>5, <1>6
  <1> QED
    BY <1>1, <1>5, <1>7, <1>8, <1>9, <1>10, SameAgents, CacheStays, NoRequestStep

LEMMA DeleteRowsKeeps ==
  ASSUME ServerInv, NEW q \in Requests, Server!DeleteRows(q)
  PROVE  ServerInv'
  <1>1. /\ reqs[q].pc = "delete" /\ UNCHANGED agents /\ UNCHANGED cache /\ UNCHANGED <<rings, added, evicted>>
    BY DEF Server!DeleteRows
  <1>2. PICK t : \/ /\ Server!Vanish({r \in reqs[q].todo : TableOf[r] = t[1]},
                                     [reqs EXCEPT ![q].todo = @ \ {r \in reqs[q].todo : TableOf[r] = t[1]}])
                 \/ /\ reqs' = [reqs EXCEPT ![q].todo = @ \ {r \in reqs[q].todo : TableOf[r] = t[1]}]
                    /\ UNCHANGED stored
                 \/ Server!Goto(q, "error") /\ UNCHANGED stored
    BY DEF Server!DeleteRows
  <1>3. /\ reqs[q].method = "delete" /\ Sent(q) /\ HasAgent(q) /\ reqs[q] \in Request
        /\ reqs[q].todo \in Message /\ reqs[q].lost \in Message /\ reqs \in [Requests -> Request]
    BY <1>1, RequestIs, AgentsType DEF ServerInv, SentByAgent
  <1>4. PICK gone \in Message : gone = {r \in reqs[q].todo : TableOf[r] = t[1]}
    BY <1>3 DEF Message
  <1>5. PICK todo \in Message : todo = reqs[q].todo \ gone
    BY <1>3 DEF Message
  <1>6. ASSUME NEW lost \in Message, reqs'[q] = [reqs[q] EXCEPT !.todo = todo, !.lost = lost]
        PROVE  reqs'[q] \in Request /\ SentByAgent(q)' /\ Settled(q)'
    <2>1. /\ reqs'[q] \in Request /\ reqs'[q].pc = "delete" /\ reqs'[q].method = "delete"
          /\ reqs'[q].name = reqs[q].name /\ reqs'[q].msg = reqs[q].msg /\ reqs'[q].agent = reqs[q].agent
      BY <1>1, <1>3, <1>6 DEF Request
    <2>2. SentByAgent(q)'
      BY <1>1, <1>3, <2>1 DEF SentByAgent, Sent, HasAgent
    <2> QED
      BY <2>1, <2>2 DEF Settled
  <1>7. CASE Server!Vanish({r \in reqs[q].todo : TableOf[r] = t[1]},
                           [reqs EXCEPT ![q].todo = @ \ {r \in reqs[q].todo : TableOf[r] = t[1]}])
    <2>1. /\ stored' = [r \in Server!Rows |-> IF r \in gone THEN Server!Absent ELSE stored[r]]
          /\ reqs' = [p \in Requests |-> [[reqs EXCEPT ![q].todo = todo][p] EXCEPT !.lost = @ \union gone]]
      BY <1>4, <1>5, <1>7 DEF Server!Vanish
    <2>2. /\ stored' \in [Server!Rows -> {Server!Absent} \union 0 .. Len(agents')] /\ OwnersPushed'
          /\ \A r \in Server!Rows : Taken(r) => Taken(r)' \/ r \in gone
      BY <1>1, <2>1, Vanishing
    <2>3. reqs'[q] \in Request /\ SentByAgent(q)' /\ Settled(q)'
      <3>1. PICK lost \in Message : lost = reqs[q].lost \union gone
        BY <1>3 DEF Message
      <3>2. [reqs EXCEPT ![q].todo = todo][q] = [reqs[q] EXCEPT !.todo = todo]
        BY <1>3
      <3>3. reqs'[q] = [[reqs[q] EXCEPT !.todo = todo] EXCEPT !.lost = reqs[q].lost \union gone]
        BY <1>3, <2>1, <3>2 DEF Request
      <3>4. reqs'[q] = [reqs[q] EXCEPT !.todo = todo, !.lost = lost]
        BY <1>3, <3>1, <3>3 DEF Request
      <3> QED
        BY <1>6, <3>4
    <2>4. ASSUME NEW p \in Requests, p # q
          PROVE  reqs'[p] \in Request /\ SentByAgent(p)' /\ Settled(p)'
      <3>1. reqs[p].lost \union gone \in Message /\ reqs[p] \in Request
        BY RequestIs DEF ServerInv, Message
      <3>2. PICK lost \in Message : lost = reqs[p].lost \union gone
        BY <3>1
      <3>3. [reqs EXCEPT ![q].todo = todo][p] = reqs[p]
        BY <1>3, <2>4
      <3>4. reqs'[p] = [reqs[p] EXCEPT !.lost = lost]
        BY <2>1, <3>2, <3>3
      <3>5. reqs'[p] \in Request /\ reqs'[p].lost = lost
        BY <3>1, <3>4 DEF Request
      <3>6. \A r \in Server!Rows : Taken(r) => Taken(r)' \/ r \in reqs'[p].lost
        BY <2>2, <3>2, <3>5
      <3>7. reqs'[p] = [reqs[p] EXCEPT !.lost = reqs'[p].lost] /\ reqs[p].lost \subseteq reqs'[p].lost
        BY <3>2, <3>4, <3>5
      <3> QED
        BY <1>1, <3>5, <3>6, <3>7, SameAgents, OthersStay
    <2>5. reqs' \in [Requests -> Request]
      BY <2>1, <2>3, <2>4
    <2>6. ServerTypeOK' /\ AgentsCached' /\ RingsAreEnds'
      BY <1>1, <2>2, <2>5, SameAgents, CacheStays, RingsStay DEF ServerTypeOK
    <2> QED
      BY <2>2, <2>3, <2>4, <2>6 DEF ServerInv
  <1>8. CASE /\ reqs' = [reqs EXCEPT ![q].todo = @ \ {r \in reqs[q].todo : TableOf[r] = t[1]}]
             /\ UNCHANGED stored
    <2>1. reqs' = [reqs EXCEPT ![q].todo = todo]
      BY <1>3, <1>4, <1>5, <1>8
    <2>2. reqs' = [reqs EXCEPT ![q] = reqs'[q]] /\ reqs'[q] = [reqs[q] EXCEPT !.todo = todo, !.lost = reqs[q].lost]
      BY <1>3, <2>1 DEF Request
    <2> QED
      BY <1>1, <1>3, <1>6, <1>8, <2>2, OnlyRequests DEF Elsewhere
  <1>9. CASE Server!Goto(q, "error") /\ UNCHANGED stored
    BY <1>1, <1>9, Ended, OnlyRequests DEF Elsewhere
  <1> QED
    BY <1>2, <1>7, <1>8, <1>9

LEMMA AnswerDeleteKeeps ==
  ASSUME ServerInv, NEW q \in Requests, Server!AnswerDelete(q)
  PROVE  ServerInv'
  <1>1. reqs[q].pc = "delete" /\ Server!Goto(q, "ok") /\ UNCHANGED Elsewhere
    BY DEF Server!AnswerDelete, Elsewhere
  <1>2. Sent(q) /\ reqs[q].method = "delete"
    BY <1>1 DEF ServerInv, SentByAgent
  <1>3. /\ reqs' = [reqs EXCEPT ![q] = reqs'[q]] /\ reqs'[q] \in Request /\ reqs'[q].pc = "ok"
        /\ reqs'[q].method = reqs[q].method /\ reqs'[q].name = reqs[q].name /\ reqs'[q].msg = reqs[q].msg
    BY <1>1, GotoIs DEF Stages
  <1>4. SentByAgent(q)' /\ Settled(q)'
    BY <1>2, <1>3 DEF SentByAgent, Sent, Settled
  <1> QED
    BY <1>1, <1>3, <1>4, OnlyRequests

(* A server that starts: nothing is under way.                             *)
LEMMA NoRequestIs == Server!NoRequest \in Request /\ Server!NoRequest.pc = "idle"
  <1>1. {} \in Message /\ "idle" \in {"idle", "auth"} /\ "push" \in {"push", "delete"} /\ "" \in Names \union {""}
    BY DEF Message
  <1> QED
    BY <1>1, Made DEF Server!NoRequest

LEMMA RestartKeeps ==
  ASSUME ServerInv, Server!Restart
  PROVE  ServerInv'
  <1>1. /\ UNCHANGED agents /\ UNCHANGED stored /\ cache' = [n \in Names |-> 0]
        /\ reqs' = [q \in Requests |-> Server!NoRequest]
        /\ rings' = [a \in 1 .. MaxAgents |-> << >>] /\ added' = [a \in 1 .. MaxAgents |-> << >>] /\ evicted' = << >>
    BY DEF Server!Restart
  <1>2. /\ reqs' \in [Requests -> Request] /\ \A q \in Requests : SentByAgent(q)' /\ Settled(q)'
        /\ rings' \in [1 .. MaxAgents -> Seq(Server!Rows)] /\ added' \in [1 .. MaxAgents -> Seq(Server!Rows)]
        /\ evicted' \in Seq(Server!Rows) /\ RingsAreEnds'
    <2>1. reqs' \in [Requests -> Request] /\ \A q \in Requests : reqs'[q].pc = "idle"
      BY <1>1, NoRequestIs
    <2>2. \A q \in Requests : SentByAgent(q)' /\ Settled(q)'
      BY <2>1 DEF SentByAgent, Settled
    <2>3. RingsAreEnds'
      BY <1>1, ServerAssumed DEF RingsAreEnds
    <2> QED
      BY <1>1, <2>1, <2>2, <2>3
  <1>3. cache' \in [Names -> 0 .. Len(agents')] /\ AgentsCached'
    BY <1>1, SameAgents DEF AgentsCached
  <1> QED
    BY <1>1, <1>2, <1>3, SameAgents, StoredStays DEF ServerInv, ServerTypeOK

LEMMA ServerInit ==
  ASSUME Server!Init
  PROVE  ServerInv
  <1>1. /\ agents = << >> /\ cache = [n \in Names |-> 0] /\ stored = [r \in Server!Rows |-> Server!Absent]
        /\ reqs = [q \in Requests |-> Server!NoRequest]
        /\ rings = [a \in 1 .. MaxAgents |-> << >>] /\ added = [a \in 1 .. MaxAgents |-> << >>] /\ evicted = << >>
    BY DEF Server!Init
  <1>2. agents \in Seq(Agent) /\ Len(agents) = 0 /\ Len(agents) <= MaxAgents
    BY <1>1, ServerAssumed
  <1>3. cache \in [Names -> 0 .. Len(agents)] /\ AgentsCached
    BY <1>1, <1>2 DEF AgentsCached
  <1>4. stored \in [Server!Rows -> {Server!Absent} \union 0 .. Len(agents)] /\ OwnersPushed
    BY <1>1 DEF OwnersPushed, Server!Absent
  <1>5. reqs \in [Requests -> Request] /\ \A q \in Requests : SentByAgent(q) /\ Settled(q)
    <2>1. reqs \in [Requests -> Request] /\ \A q \in Requests : reqs[q].pc = "idle"
      BY <1>1, NoRequestIs
    <2> QED
      BY <2>1 DEF SentByAgent, Settled
  <1>6. RingsAreEnds
    BY <1>1, ServerAssumed DEF RingsAreEnds
  <1> QED
    BY <1>1, <1>2, <1>3, <1>4, <1>5, <1>6 DEF ServerInv, ServerTypeOK

LEMMA ServerStutter ==
  ASSUME ServerInv, UNCHANGED server
  PROVE  ServerInv'
  <1>1. UNCHANGED agents /\ UNCHANGED cache /\ UNCHANGED stored /\ UNCHANGED <<reqs, stored>> /\ UNCHANGED <<rings, added, evicted>>
    BY DEF server
  <1> QED
    BY <1>1, SameAgents, StoredStays, CacheStays, RingsStay, SameRequests, NoRequestStep

LEMMA ServerNext ==
  ASSUME ServerInv, [Server!Next]_server
  PROVE  ServerInv'
  <1>1. ASSUME NEW q \in Requests, NEW c \in Pushes, Server!Call(q, c) PROVE ServerInv'
    BY <1>1, CallKeeps
  <1>2. ASSUME NEW q \in Requests, Server!Handle(q) PROVE ServerInv'
    BY <1>2, CachedAgentKeeps, FetchAgentKeeps, CreateAgentKeeps, SetCacheKeeps, InsertBatchKeeps, InsertEachKeeps,
       InsertRowKeeps, RowsDoneKeeps, AddHistoryKeeps, AnswerPushKeeps, DeleteRowsKeeps, AnswerDeleteKeeps
       DEF Server!Handle
  <1>3. ASSUME NEW a \in 1 .. MaxAgents, Server!DeleteAgent(a) PROVE ServerInv'
    BY <1>3, DeleteAgentKeeps
  <1>4. ASSUME NEW name \in Names, Server!Expire(name) PROVE ServerInv'
    BY <1>4, ExpireKeeps
  <1> QED
    BY <1>1, <1>2, <1>3, <1>4, EvictKeeps, RestartKeeps, ServerStutter DEF Server!Next

LEMMA ServerAlways == Server!Spec => []ServerInv
  <1>1. Server!Init => ServerInv
    BY ServerInit
  <1>2. ServerInv /\ [Server!Next]_server => ServerInv'
    BY ServerNext
  <1> QED
    BY <1>1, <1>2, PTL DEF Server!Spec, Server!vars, server

\* NewPushHandler, InsertUpstreamMsg: what an answer promises is stored, for an agent of the
\* name that pushed it, unless it was deleted since: whatever is pushed, by however many
\* requests at once, in whatever order, while agents are deleted and the server restarts.
THEOREM Stored == Server!Spec => []AnsweredAreStored
  <1>1. ASSUME ServerInv, NEW q \in Requests, NEW r \in Server!Promised(q) \ reqs[q].lost
        PROVE  /\ TableOf[r] # "playbook_run_actions" => stored[r] # Server!Absent
               /\ stored[r] > 0 => agents[stored[r]].name = reqs[q].name
    <2>1. /\ reqs[q].method = "push" /\ reqs[q].pc \in {"ok", "conflict"} /\ r \in Mine(q)
          /\ reqs[q].pc = "conflict" =>
               r \notin UNION {reqs[q].failed \union Server!After(q, t) : t \in Server!At(q)}
      BY <1>1 DEF Server!Promised, Mine
    <2>2. r \in Server!Rows /\ Sent(q) /\ Settled(q)
      BY <1>1, <2>1, RequestIs DEF ServerInv, SentByAgent, Mine, Message, Server!AddAgentConfig
    <2>3. ~Open(q, r)
      BY <2>1, <2>2 DEF Open, Settled
    <2>4. Taken(r)
      BY <1>1, <2>1, <2>2, <2>3 DEF Settled
    <2>5. ASSUME stored[r] > 0 PROVE agents[stored[r]].name = reqs[q].name
      <3>1. PICK c \in Pushes : /\ c.method = "push" /\ c.name = agents[stored[r]].name
                                /\ r \in Server!AddAgentConfig(c.msg)
        BY <1>1, <2>2, <2>5 DEF ServerInv, OwnersPushed, PushedBy
      <3>2. PICK d \in Pushes : d.method = "push" /\ d.name = reqs[q].name /\ r \in Server!AddAgentConfig(d.msg)
        BY <2>1, <2>2 DEF Sent, Mine
      <3> QED
        BY <3>1, <3>2, ServerAssumed
    <2> QED
      BY <2>4, <2>5 DEF Taken
  <1>2. ServerInv => AnsweredAreStored
    BY <1>1 DEF AnsweredAreStored, Server!AnsweredAreStored
  <1> QED
    BY <1>2, ServerAlways, PTL

\* StatusRing.Add: a history that is about to be deleted has as many newer ones of its agent
\* as are to be kept, whatever their number, unless one was pushed more than once.
THEOREM EvictedOld == Server!Spec => []EvictedAreOld
  <1>1. ASSUME ServerInv, Server!AddedOnce, NEW i \in DOMAIN evicted, NEW a \in DOMAIN added, NEW n \in DOMAIN added[a],
               evicted[i] = added[a][n]
        PROVE  Len(added[a]) - n >= Retention
    <2>1. /\ evicted \in Seq(Server!Rows) /\ added \in [1 .. MaxAgents -> Seq(Server!Rows)]
      BY <1>1 DEF ServerInv, ServerTypeOK
    <2>2. i \in 1 .. Len(evicted)
      BY <1>1, <2>1
    <2>3. PICK b \in 1 .. MaxAgents : \E m \in 1 .. Len(added[b]) :
                 evicted[i] = added[b][m] /\ Len(added[b]) - m >= Retention
      BY <1>1, <2>2 DEF ServerInv, RingsAreEnds, Passed
    <2>4. PICK m \in 1 .. Len(added[b]) : evicted[i] = added[b][m] /\ Len(added[b]) - m >= Retention
      BY <2>3
    <2>5. added[b] \in Seq(Server!Rows) /\ b \in DOMAIN added /\ m \in DOMAIN added[b]
      BY <2>1, <2>4
    <2>6. a = b /\ n = m
      <3>1. \A c, d \in DOMAIN added : \A k \in DOMAIN added[c], l \in DOMAIN added[d] :
                added[c][k] = added[d][l] => c = d /\ k = l
        BY <1>1 DEF Server!AddedOnce
      <3>2. added[a][n] = added[b][m]
        BY <1>1, <2>4
      <3>3. a \in DOMAIN added /\ n \in DOMAIN added[a]
        BY <1>1
      <3>4. \A l \in DOMAIN added[b] : added[a][n] = added[b][l] => a = b /\ n = l
        BY <2>5, <3>1, <3>3
      <3> QED
        BY <2>5, <3>2, <3>4
    <2> QED
      BY <2>4, <2>6
  <1>2. ServerInv => EvictedAreOld
    BY <1>1 DEF EvictedAreOld, Server!EvictedAreOld
  <1> QED
    BY <1>2, ServerAlways, PTL
=============================================================================
