------------------------------ MODULE CacheProofs ------------------------------
(***************************************************************************)
(* Proofs about values that a process keeps in memory: the properties of   *)
(* PropertyCache and the policies and answers of Enforcer, for any number  *)
(* of callers, replicas and subjects, and any expiry.                      *)
(***************************************************************************)
EXTENDS PropertyCache, Enforcer, TLAPS

(* The inductive invariant of the property cache.                          *)
CacheInv == TypeOK /\ EntriesAge /\ CacheFollowsUpdates /\ ChainsByName

\* What Properties() has returned and its caller has not yet read.
ReturnedInv ==
  \A c \in Callers : Returned(c) =>
    /\ out[c].version # NoRows => outdated[out[c].version] < 2 * TTL
    /\ out[c].version # NoRows /\ ~raced => out[c].version >= began[c]
    /\ object[c] = NoObject => out[c].object = NoObject
    /\ object[c] # NoObject =>
         out[c].object \in Objects /\ Name[out[c].object] = Name[object[c]]

IndInv == CacheInv /\ ReturnedInv

LEMMA InitInv ==
  ASSUME PropertyCacheAssumption, Init
  PROVE  IndInv
  <1> USE DEF Init, PropertyCacheAssumption, NoRows
  <1>1. TypeOK
    <2>1. db \in 0 .. MaxVersion /\ published \in 0 .. db /\ faults \in 0 .. MaxFaults
      OBVIOUS
    <2>2. outdated \in [0 .. MaxVersion -> Nat]
      OBVIOUS
    <2>3. global \subseteq [version : 0 .. db, age : 0 .. TTL - 1]
      OBVIOUS
    <2>4. chains \in [CacheKeys -> SUBSET [object : Objects, version : NoRows .. db, age : 0 .. TTL - 1]]
      OBVIOUS
    <2>5. out \in [Callers -> [object : Objects \union {NoObject}, version : NoRows .. db]]
      OBVIOUS
    <2>6. got \in [Callers -> NoRows .. db] /\ began \in [Callers -> 0 .. published]
      OBVIOUS
    <2> QED
      BY <2>1, <2>2, <2>3, <2>4, <2>5, <2>6 DEF TypeOK
  <1>2. EntriesAge /\ CacheFollowsUpdates /\ ChainsByName
    BY DEF EntriesAge, CacheFollowsUpdates, ChainsByName, InFlight
  <1>3. ReturnedInv
    BY DEF ReturnedInv, Returned
  <1> QED
    BY <1>1, <1>2, <1>3 DEF IndInv, CacheInv

\* Properties() up to the end of globalProperties' read.
LEMMA CallInv ==
  ASSUME PropertyCacheAssumption, IndInv, NEW c \in Callers,
         NEW o \in Objects \union {NoObject}, NEW v \in NoRows .. db, NEW l,
         Call(c, o, v, l), faults' \in 0 .. MaxFaults,
         v # NoRows /\ ~raced => v >= published,
         \/ l = "store" /\ v # NoRows /\ outdated[v] = 0
         \/ l = "resolve" /\ (v # NoRows => outdated[v] < TTL)
  PROVE  IndInv'
  <1> USE DEF PropertyCacheAssumption, NoRows
  <1>1. UNCHANGED <<db, outdated, global, chains, out, published, raced>>
    BY DEF Call
  <1>2. /\ pc[c] = "idle" /\ pc' = [pc EXCEPT ![c] = l]
        /\ object' = [object EXCEPT ![c] = o]
        /\ began' = [began EXCEPT ![c] = published]
        /\ got' = [got EXCEPT ![c] = v]
    BY DEF Call, Goto
  <1>3. TypeOK'
    <2>1. TypeOK
      BY DEF IndInv, CacheInv
    <2>2. pc' \in [Callers -> {"idle", "store", "resolve", "done", "clear"}]
      BY <1>2, <2>1 DEF TypeOK
    <2>3. object' \in [Callers -> Objects \union {NoObject}]
      BY <1>2, <2>1 DEF TypeOK
    <2>4. began' \in [Callers -> 0 .. published]
      BY <1>2, <2>1 DEF TypeOK
    <2>5. got' \in [Callers -> NoRows .. db]
      BY <1>2, <2>1 DEF TypeOK
    <2> QED
      BY <1>1, <2>1, <2>2, <2>3, <2>4, <2>5 DEF TypeOK
  <1>4. \A d \in Callers : d # c => pc'[d] = pc[d] /\ got'[d] = got[d] /\ object'[d] = object[d]
                                    /\ began'[d] = began[d]
    BY <1>2 DEF IndInv, CacheInv, TypeOK
  <1>5. pc'[c] = l /\ got'[c] = v
    BY <1>2 DEF IndInv, CacheInv, TypeOK
  <1>6. EntriesAge'
    BY <1>1, <1>4, <1>5 DEF IndInv, CacheInv, EntriesAge
  <1>7. CacheFollowsUpdates' /\ ChainsByName'
    BY <1>1, <1>4, <1>5 DEF IndInv, CacheInv, CacheFollowsUpdates, ChainsByName, InFlight
  <1>8. ReturnedInv'
    BY <1>1, <1>4, <1>5 DEF IndInv, ReturnedInv, Returned
  <1> QED
    BY <1>3, <1>6, <1>7, <1>8 DEF IndInv, CacheInv

LEMMA ReadGlobalInv ==
  ASSUME PropertyCacheAssumption, IndInv, NEW c \in Callers, NEW o \in Objects \union {NoObject},
         HitGlobal(c, o) \/ QueryRows(c, o) \/ QueryFails(c, o)
  PROVE  IndInv'
  <1> USE DEF PropertyCacheAssumption, NoRows
  <1>1. faults' \in 0 .. MaxFaults
    <2>1. faults \in 0 .. MaxFaults
      BY DEF IndInv, CacheInv, TypeOK
    <2> QED
      BY <2>1 DEF HitGlobal, QueryRows, QueryFails, Fault
  <1>2. CASE HitGlobal(c, o)
    <2>1. PICK e \in global : Call(c, o, e.version, "resolve")
      BY <1>2 DEF HitGlobal
    <2>2. e.version \in 0 .. db /\ e.age \in 0 .. TTL - 1 /\ outdated[e.version] <= e.age
      BY DEF IndInv, CacheInv, TypeOK, EntriesAge
    <2>3. outdated[e.version] < TTL
      BY <2>2 DEF IndInv, CacheInv, TypeOK
    <2>4. ~raced => e.version >= published
      BY DEF IndInv, CacheInv, CacheFollowsUpdates
    <2> QED
      BY <1>1, <2>1, <2>2, <2>3, <2>4, CallInv
  <1>3. CASE QueryRows(c, o)
    <2>1. outdated[db] = 0 /\ db \in 0 .. db /\ db >= published
      BY DEF IndInv, CacheInv, TypeOK, EntriesAge
    <2> QED
      BY <1>1, <1>3, <2>1, CallInv DEF QueryRows
  <1>4. CASE QueryFails(c, o)
    <2>1. NoRows \in NoRows .. db
      BY DEF IndInv, CacheInv, TypeOK
    <2> QED
      BY <1>1, <1>4, <2>1, CallInv DEF QueryFails
  <1> QED
    BY <1>2, <1>3, <1>4

LEMMA SetGlobalInv ==
  ASSUME PropertyCacheAssumption, IndInv, NEW c \in Callers, SetGlobal(c)
  PROVE  IndInv'
  <1> USE DEF PropertyCacheAssumption, NoRows
  <1>1. UNCHANGED <<db, outdated, chains, published, raced, faults, object, got, out, began>>
    BY DEF SetGlobal, calls
  <1>2. got[c] \in 0 .. db /\ outdated[got[c]] = 0 /\ (~raced => got[c] >= published)
    BY DEF SetGlobal, IndInv, CacheInv, TypeOK, EntriesAge, CacheFollowsUpdates, InFlight
  <1>3. global' = {[version |-> got[c], age |-> 0]}
    BY DEF SetGlobal
  <1>4. \A d \in Callers : pc'[d] = IF d = c THEN "resolve" ELSE pc[d]
    BY DEF SetGlobal, Goto, IndInv, CacheInv, TypeOK
  <1>5. TypeOK'
    BY <1>1, <1>2, <1>3 DEF SetGlobal, Goto, IndInv, CacheInv, TypeOK
  <1>6. EntriesAge'
    BY <1>1, <1>2, <1>3, <1>4 DEF IndInv, CacheInv, EntriesAge
  <1>7. CacheFollowsUpdates' /\ ChainsByName'
    BY <1>1, <1>2, <1>3, <1>4 DEF IndInv, CacheInv, CacheFollowsUpdates, ChainsByName, InFlight,
       SetGlobal
  <1>8. ReturnedInv'
    BY <1>1, <1>4 DEF IndInv, ReturnedInv, Returned, SetGlobal
  <1> QED
    BY <1>5, <1>6, <1>7, <1>8 DEF IndInv, CacheInv

\* What Properties() returns, and that it may be cached as the chain of its object.
LEMMA ResolvedInv ==
  ASSUME PropertyCacheAssumption, IndInv, NEW c \in Callers, pc[c] = "resolve"
  PROVE  /\ Resolved(c) \in [object : Objects \union {NoObject}, version : NoRows .. db]
         /\ LET v == Resolved(c).version IN
              v # NoRows => outdated[v] < 2 * TTL /\ (~raced => v >= began[c])
         /\ object[c] = NoObject => Resolved(c).object = NoObject
         /\ object[c] # NoObject => /\ Resolved(c).object \in Objects
                                    /\ Name[Resolved(c).object] = Name[object[c]]
  <1> USE DEF PropertyCacheAssumption, NoRows
  <1>1. /\ got[c] \in NoRows .. db /\ began[c] \in 0 .. published /\ published \in 0 .. db
        /\ object[c] \in Objects \union {NoObject} /\ db \in 0 .. MaxVersion
        /\ outdated \in [0 .. MaxVersion -> Nat]
    BY DEF IndInv, CacheInv, TypeOK
  <1>2. got[c] # NoRows => outdated[got[c]] < 2 * TTL /\ (~raced => got[c] >= began[c])
    <2>1. got[c] # NoRows => outdated[got[c]] < TTL /\ (~raced => got[c] >= published)
      BY DEF IndInv, CacheInv, EntriesAge, CacheFollowsUpdates, InFlight
    <2> QED
      BY <1>1, <2>1
  <1>3. CASE object[c] = NoObject \/ chains[Name[object[c]]] = {}
    <2>1. Resolved(c) = [object |-> object[c], version |-> got[c]]
      BY <1>3 DEF Resolved, CacheKey
    <2> QED
      BY <1>1, <1>2, <2>1
  <1>4. CASE object[c] # NoObject /\ chains[Name[object[c]]] # {}
    <2>1. PICK e \in chains[Name[object[c]]] : Resolved(c) = [object |-> e.object, version |-> e.version]
      BY <1>4 DEF Resolved, CacheKey
    <2>2. Name[object[c]] \in CacheKeys
      BY <1>1, <1>4 DEF CacheKeys
    <2>3. e.object \in Objects /\ e.version \in NoRows .. db /\ e.age \in 0 .. TTL - 1
      BY <2>2 DEF IndInv, CacheInv, TypeOK
    <2>4. Name[e.object] = Name[object[c]]
      BY <2>2 DEF IndInv, CacheInv, ChainsByName
    <2>5. e.version # NoRows => outdated[e.version] < TTL + e.age /\ (~raced => e.version >= published)
      BY <2>2 DEF IndInv, CacheInv, EntriesAge, CacheFollowsUpdates
    <2>6. e.version # NoRows => outdated[e.version] < 2 * TTL /\ (~raced => e.version >= began[c])
      <3> SUFFICES ASSUME e.version # NoRows
                   PROVE  outdated[e.version] < 2 * TTL /\ (~raced => e.version >= began[c])
        OBVIOUS
      <3>1. e.version \in 0 .. MaxVersion
        BY <1>1, <2>3
      <3>2. outdated[e.version] \in Nat
        BY <1>1, <3>1
      <3>3. outdated[e.version] < 2 * TTL
        BY <2>3, <2>5, <3>2
      <3> QED
        BY <1>1, <2>5, <3>1, <3>3
    <2> QED
      BY <1>4, <2>1, <2>3, <2>4, <2>6
  <1> QED
    BY <1>3, <1>4

LEMMA ResolveInv ==
  ASSUME PropertyCacheAssumption, IndInv, NEW c \in Callers, Resolve(c)
  PROVE  IndInv'
  <1> USE DEF PropertyCacheAssumption, NoRows
  <1>1. UNCHANGED <<db, outdated, global, object, got, began, published, raced, faults>>
    BY DEF Resolve
  <1>2. pc[c] = "resolve" /\ out' = [out EXCEPT ![c] = Resolved(c)]
    BY DEF Resolve
  <1>3. \A d \in Callers : pc'[d] = IF d = c THEN "done" ELSE pc[d]
    BY DEF Resolve, Goto, IndInv, CacheInv, TypeOK
  <1>4. \A d \in Callers : out'[d] = IF d = c THEN Resolved(c) ELSE out[d]
    BY <1>2 DEF IndInv, CacheInv, TypeOK
  <1> DEFINE new == [object |-> object[c], version |-> got[c], age |-> 0]
  <1>5. \/ UNCHANGED chains
        \/ /\ object[c] \in Objects
           /\ chains' = [chains EXCEPT ![Name[object[c]]] = {new}]
    BY DEF Resolve, CacheKey, IndInv, CacheInv, TypeOK
  <1>6. chains' \in [CacheKeys -> SUBSET [object : Objects, version : NoRows .. db, age : 0 .. TTL - 1]]
    <2>1. chains \in [CacheKeys -> SUBSET [object : Objects, version : NoRows .. db, age : 0 .. TTL - 1]]
      BY DEF IndInv, CacheInv, TypeOK
    <2>2. object[c] \in Objects => new \in [object : Objects, version : NoRows .. db, age : 0 .. TTL - 1]
      BY DEF IndInv, CacheInv, TypeOK
    <2> HIDE DEF new
    <2> QED
      BY <1>5, <2>1, <2>2
  <1>7. \A k \in CacheKeys : \A e \in chains'[k] :
          e \in chains[k] \/ (e = new /\ k = Name[object[c]] /\ object[c] \in Objects)
    <2>1. chains \in [CacheKeys -> SUBSET [object : Objects, version : NoRows .. db, age : 0 .. TTL - 1]]
      BY DEF IndInv, CacheInv, TypeOK
    <2> HIDE DEF new
    <2> QED
      BY <1>5, <2>1
  <1>8. TypeOK'
    <2>1. out' \in [Callers -> [object : Objects \union {NoObject}, version : NoRows .. db]]
      BY <1>2, ResolvedInv DEF IndInv, CacheInv, TypeOK
    <2>2. pc' \in [Callers -> {"idle", "store", "resolve", "done", "clear"}]
      BY DEF Resolve, Goto, IndInv, CacheInv, TypeOK
    <2> QED
      BY <1>1, <1>6, <2>1, <2>2 DEF IndInv, CacheInv, TypeOK
  <1>9. EntriesAge'
    <2>1. got[c] # NoRows => outdated[got[c]] < TTL + 0
      BY <1>2 DEF IndInv, CacheInv, EntriesAge
    <2>2. \A k \in CacheKeys : \A e \in chains'[k] : e.version # NoRows => outdated[e.version] < TTL + e.age
      BY <1>7, <2>1 DEF IndInv, CacheInv, EntriesAge
    <2> QED
      BY <1>1, <1>3, <2>2 DEF IndInv, CacheInv, EntriesAge
  <1>10. CacheFollowsUpdates'
    <2>1. ~raced /\ got[c] # NoRows => got[c] >= published
      BY <1>2 DEF IndInv, CacheInv, CacheFollowsUpdates, InFlight
    <2>2. ~raced => \A k \in CacheKeys : \A e \in chains'[k] : e.version # NoRows => e.version >= published
      BY <1>7, <2>1 DEF IndInv, CacheInv, CacheFollowsUpdates
    <2> QED
      BY <1>1, <1>3, <2>2 DEF IndInv, CacheInv, CacheFollowsUpdates, InFlight
  <1>11. ChainsByName'
    BY <1>7 DEF IndInv, CacheInv, ChainsByName
  <1>12. ReturnedInv'
    <2> SUFFICES ASSUME NEW d \in Callers, pc'[d] = "done"
                 PROVE  /\ out'[d].version # NoRows => outdated[out'[d].version] < 2 * TTL
                        /\ out'[d].version # NoRows /\ ~raced => out'[d].version >= began[d]
                        /\ object[d] = NoObject => out'[d].object = NoObject
                        /\ object[d] # NoObject =>
                             out'[d].object \in Objects /\ Name[out'[d].object] = Name[object[d]]
      BY <1>1 DEF ReturnedInv, Returned
    <2>1. CASE d = c
      BY <1>2, <1>4, <2>1, ResolvedInv
    <2>2. CASE d # c
      BY <1>3, <1>4, <2>2 DEF IndInv, ReturnedInv, Returned
    <2> QED
      BY <2>1, <2>2
  <1> QED
    BY <1>8, <1>9, <1>10, <1>11, <1>12 DEF IndInv, CacheInv

LEMMA ReturnInv ==
  ASSUME PropertyCacheAssumption, IndInv, NEW c \in Callers, Return(c)
  PROVE  IndInv'
  <1> USE DEF PropertyCacheAssumption, NoRows
  <1>1. UNCHANGED <<db, outdated, global, chains, published, raced, faults>>
    BY DEF Return
  <1>2. \A d \in Callers : pc'[d] = IF d = c THEN "idle" ELSE pc[d]
    BY DEF Return, Goto, IndInv, CacheInv, TypeOK
  <1>3. \A d \in Callers : d # c => got'[d] = got[d] /\ object'[d] = object[d]
                                    /\ began'[d] = began[d] /\ out'[d] = out[d]
    BY DEF Return, IndInv, CacheInv, TypeOK
  <1>4. TypeOK'
    <2>1. /\ pc' \in [Callers -> {"idle", "store", "resolve", "done", "clear"}]
          /\ object' \in [Callers -> Objects \union {NoObject}]
      BY DEF Return, Goto, IndInv, CacheInv, TypeOK
    <2>2. got' \in [Callers -> NoRows .. db] /\ began' \in [Callers -> 0 .. published]
      BY DEF Return, IndInv, CacheInv, TypeOK
    <2>3. out' \in [Callers -> [object : Objects \union {NoObject}, version : NoRows .. db]]
      <3> DEFINE none == [object |-> NoObject, version |-> 0]
      <3>1. none \in [object : Objects \union {NoObject}, version : NoRows .. db]
        BY DEF IndInv, CacheInv, TypeOK
      <3>2. out' = [out EXCEPT ![c] = none]
        BY DEF Return
      <3> HIDE DEF none
      <3> QED
        BY <3>1, <3>2 DEF IndInv, CacheInv, TypeOK
    <2> QED
      BY <1>1, <2>1, <2>2, <2>3 DEF IndInv, CacheInv, TypeOK
  <1>5. EntriesAge'
    BY <1>1, <1>2, <1>3 DEF IndInv, CacheInv, EntriesAge
  <1>6. CacheFollowsUpdates' /\ ChainsByName'
    BY <1>1, <1>2, <1>3 DEF IndInv, CacheInv, CacheFollowsUpdates, ChainsByName, InFlight
  <1>7. ReturnedInv'
    BY <1>1, <1>2, <1>3 DEF IndInv, ReturnedInv, Returned
  <1> QED
    BY <1>4, <1>5, <1>6, <1>7 DEF IndInv, CacheInv

\* A write of the table makes rows outdated from now on.
LEMMA WriteInv ==
  ASSUME PropertyCacheAssumption, IndInv,
         \/ UpdateElsewhere
         \/ \E c \in Callers : Update(c) \/ UpdateFails(c)
  PROVE  IndInv'
  <1> USE DEF PropertyCacheAssumption, NoRows
  <1>1. UNCHANGED <<outdated, global, chains, published, raced, object, got, out, began>>
    BY DEF UpdateElsewhere, Update, UpdateFails, calls
  <1>2. db' \in db .. MaxVersion /\ faults' \in 0 .. MaxFaults
    BY DEF UpdateElsewhere, Update, UpdateFails, Fault, IndInv, CacheInv, TypeOK
  <1>3. /\ pc' \in [Callers -> {"idle", "store", "resolve", "done", "clear"}]
        /\ \A d \in Callers : pc'[d] # pc[d] => pc'[d] = "clear"
    BY DEF UpdateElsewhere, Update, UpdateFails, Goto, IndInv, CacheInv, TypeOK
  <1>4. TypeOK'
    <2>1. NoRows .. db \subseteq NoRows .. db' /\ 0 .. db \subseteq 0 .. db' /\ db \in 0 .. MaxVersion
      BY <1>2 DEF IndInv, CacheInv, TypeOK
    <2>2. global \subseteq [version : 0 .. db', age : 0 .. TTL - 1]
      BY <2>1 DEF IndInv, CacheInv, TypeOK
    <2>3. chains \in [CacheKeys -> SUBSET [object : Objects, version : NoRows .. db', age : 0 .. TTL - 1]]
      BY <2>1 DEF IndInv, CacheInv, TypeOK
    <2>4. got \in [Callers -> NoRows .. db']
      BY <2>1 DEF IndInv, CacheInv, TypeOK
    <2>5. out \in [Callers -> [object : Objects \union {NoObject}, version : NoRows .. db']]
      BY <2>1 DEF IndInv, CacheInv, TypeOK
    <2>6. db' \in 0 .. MaxVersion /\ published \in 0 .. db'
      BY <1>2, <2>1 DEF IndInv, CacheInv, TypeOK
    <2> QED
      BY <1>1, <1>2, <1>3, <2>2, <2>3, <2>4, <2>5, <2>6 DEF IndInv, CacheInv, TypeOK
  <1>5. EntriesAge'
    BY <1>1, <1>2, <1>3 DEF IndInv, CacheInv, EntriesAge, TypeOK
  <1>6. CacheFollowsUpdates' /\ ChainsByName'
    BY <1>1, <1>3 DEF IndInv, CacheInv, CacheFollowsUpdates, ChainsByName, InFlight
  <1>7. ReturnedInv'
    BY <1>1, <1>3 DEF IndInv, ReturnedInv, Returned
  <1> QED
    BY <1>4, <1>5, <1>6, <1>7 DEF IndInv, CacheInv

\* Unless a call holds rows from before, nothing is left that is older than the update.
LEMMA ClearCacheInv ==
  ASSUME PropertyCacheAssumption, IndInv, NEW c \in Callers, ClearCache(c)
  PROVE  IndInv'
  <1> USE DEF PropertyCacheAssumption, NoRows
  <1>1. UNCHANGED <<db, outdated, faults, object, got, out, began>>
    BY DEF ClearCache, calls
  <1>2. global' = {} /\ chains' = [k \in CacheKeys |-> {}] /\ published' = db
    BY DEF ClearCache
  <1>3. \A d \in Callers : pc'[d] = IF d = c THEN "idle" ELSE pc[d]
    BY DEF ClearCache, Goto, IndInv, CacheInv, TypeOK
  <1>4. /\ raced' \in BOOLEAN
        /\ ~raced' => ~raced /\ \A d \in Callers : InFlight(d) => got[d] = db
    BY DEF ClearCache, IndInv, CacheInv, TypeOK
  <1>5. TypeOK'
    <2>1. pc' \in [Callers -> {"idle", "store", "resolve", "done", "clear"}]
      BY DEF ClearCache, Goto, IndInv, CacheInv, TypeOK
    <2>2. began' \in [Callers -> 0 .. published'] /\ published' \in 0 .. db'
      BY <1>1, <1>2 DEF IndInv, CacheInv, TypeOK
    <2> QED
      BY <1>1, <1>2, <1>4, <2>1, <2>2 DEF IndInv, CacheInv, TypeOK
  <1>6. EntriesAge'
    BY <1>1, <1>2, <1>3 DEF IndInv, CacheInv, EntriesAge
  <1>7. CacheFollowsUpdates' /\ ChainsByName'
    <2>1. ~raced' => \A d \in Callers : InFlight(d)' => got'[d] >= published'
      <3>1. \A d \in Callers : InFlight(d)' => InFlight(d)
        BY <1>3 DEF InFlight
      <3>2. db \in Nat
        BY DEF IndInv, CacheInv, TypeOK
      <3> QED
        BY <1>1, <1>2, <1>4, <3>1, <3>2
    <2> QED
      BY <1>2, <2>1 DEF CacheFollowsUpdates, ChainsByName
  <1>8. ReturnedInv'
    BY <1>1, <1>3, <1>4 DEF IndInv, ReturnedInv, Returned
  <1> QED
    BY <1>5, <1>6, <1>7, <1>8 DEF IndInv, CacheInv

\* What Tick makes of the entries of one key.
LEMMA AgedEntries ==
  ASSUME PropertyCacheAssumption,
         NEW S \in SUBSET [object : Objects, version : NoRows .. db, age : 0 .. TTL - 1]
  PROVE  /\ Aged(S) \subseteq [object : Objects, version : NoRows .. db, age : 0 .. TTL - 1]
         /\ \A e \in Aged(S) : \E x \in S : /\ e.object = x.object
                                            /\ e.version = x.version /\ e.age = x.age + 1
  <1> SUFFICES ASSUME NEW e \in Aged(S)
               PROVE  /\ e \in [object : Objects, version : NoRows .. db, age : 0 .. TTL - 1]
                      /\ \E x \in S : e.object = x.object /\ e.version = x.version /\ e.age = x.age + 1
    OBVIOUS
  <1>1. PICK x \in S : x.age + 1 < TTL /\ e = [x EXCEPT !.age = @ + 1]
    BY DEF Aged
  <1>2. x = [object |-> x.object, version |-> x.version, age |-> x.age]
        /\ x.object \in Objects /\ x.version \in NoRows .. db /\ x.age \in 0 .. TTL - 1
    OBVIOUS
  <1>3. e = [object |-> x.object, version |-> x.version, age |-> x.age + 1]
    BY <1>1, <1>2
  <1>4. x.age + 1 \in 0 .. TTL - 1
    BY <1>1, <1>2 DEF PropertyCacheAssumption
  <1> QED
    BY <1>2, <1>3, <1>4

LEMMA AgedGlobal ==
  ASSUME PropertyCacheAssumption, NEW S \in SUBSET [version : 0 .. db, age : 0 .. TTL - 1]
  PROVE  /\ Aged(S) \subseteq [version : 0 .. db, age : 0 .. TTL - 1]
         /\ \A e \in Aged(S) : \E x \in S : e.version = x.version /\ e.age = x.age + 1
  <1> SUFFICES ASSUME NEW e \in Aged(S)
               PROVE  /\ e \in [version : 0 .. db, age : 0 .. TTL - 1]
                      /\ \E x \in S : e.version = x.version /\ e.age = x.age + 1
    OBVIOUS
  <1>1. PICK x \in S : x.age + 1 < TTL /\ e = [x EXCEPT !.age = @ + 1]
    BY DEF Aged
  <1>2. x = [version |-> x.version, age |-> x.age] /\ x.version \in 0 .. db /\ x.age \in 0 .. TTL - 1
    OBVIOUS
  <1>3. e = [version |-> x.version, age |-> x.age + 1]
    BY <1>1, <1>2
  <1>4. x.age + 1 \in 0 .. TTL - 1
    BY <1>1, <1>2 DEF PropertyCacheAssumption
  <1> QED
    BY <1>2, <1>3, <1>4

\* Rows become outdated no faster than the entries that hold them age.
LEMMA TickInv ==
  ASSUME PropertyCacheAssumption, IndInv, Tick
  PROVE  IndInv'
  <1> USE DEF PropertyCacheAssumption, NoRows
  <1>1. UNCHANGED <<db, pc, published, raced, faults, object, got, out, began>>
    BY DEF Tick, calls
  <1>2. \A d \in Callers : pc[d] = "idle"
    BY DEF Tick
  <1>3. /\ outdated' \in [0 .. MaxVersion -> Nat]
        /\ \A v \in 0 .. MaxVersion :
             outdated'[v] <= outdated[v] + 1 /\ (v >= db => outdated'[v] = outdated[v])
    BY DEF Tick, IndInv, CacheInv, TypeOK
  <1>4. /\ global' \subseteq [version : 0 .. db, age : 0 .. TTL - 1]
        /\ \A e \in global' : \E x \in global : e.version = x.version /\ e.age = x.age + 1
    <2>1. global \in SUBSET [version : 0 .. db, age : 0 .. TTL - 1]
      BY DEF IndInv, CacheInv, TypeOK
    <2>2. global' = Aged(global)
      BY DEF Tick
    <2> QED
      BY <2>1, <2>2, AgedGlobal
  <1>5. \A k \in CacheKeys :
          /\ chains'[k] \subseteq [object : Objects, version : NoRows .. db, age : 0 .. TTL - 1]
          /\ \A e \in chains'[k] : \E x \in chains[k] :
               e.object = x.object /\ e.version = x.version /\ e.age = x.age + 1
    <2> SUFFICES ASSUME NEW k \in CacheKeys
                 PROVE  /\ Aged(chains[k]) \subseteq [object : Objects, version : NoRows .. db, age : 0 .. TTL - 1]
                        /\ \A e \in Aged(chains[k]) : \E x \in chains[k] :
                             e.object = x.object /\ e.version = x.version /\ e.age = x.age + 1
      BY DEF Tick
    <2>1. chains[k] \in SUBSET [object : Objects, version : NoRows .. db, age : 0 .. TTL - 1]
      BY DEF IndInv, CacheInv, TypeOK
    <2> QED
      BY <2>1, AgedEntries
  <1>6. chains' \in [CacheKeys -> SUBSET [object : Objects, version : NoRows .. db, age : 0 .. TTL - 1]]
    BY <1>5 DEF Tick
  <1>7. TypeOK'
    BY <1>1, <1>3, <1>4, <1>6 DEF IndInv, CacheInv, TypeOK
  <1>8. EntriesAge'
    <2>1. \A v \in db .. MaxVersion : outdated'[v] = 0
      BY <1>3 DEF IndInv, CacheInv, EntriesAge, TypeOK
    <2>2. \A e \in global' : outdated'[e.version] <= e.age
      <3> SUFFICES ASSUME NEW e \in global' PROVE outdated'[e.version] <= e.age
        OBVIOUS
      <3>1. PICK x \in global : e.version = x.version /\ e.age = x.age + 1
        BY <1>4
      <3>2. x.version \in 0 .. db /\ x.age \in Nat /\ outdated[x.version] <= x.age /\ db \in 0 .. MaxVersion
        BY DEF IndInv, CacheInv, TypeOK, EntriesAge
      <3>3. x.version \in 0 .. MaxVersion /\ outdated[x.version] \in Nat /\ outdated'[x.version] \in Nat
        BY <1>3, <3>2 DEF IndInv, CacheInv, TypeOK
      <3> QED
        BY <1>3, <3>1, <3>2, <3>3
    <2>3. \A k \in CacheKeys : \A e \in chains'[k] : e.version # NoRows => outdated'[e.version] < TTL + e.age
      <3> SUFFICES ASSUME NEW k \in CacheKeys, NEW e \in chains'[k], e.version # NoRows
                   PROVE  outdated'[e.version] < TTL + e.age
        OBVIOUS
      <3>1. PICK x \in chains[k] : e.version = x.version /\ e.age = x.age + 1
        BY <1>5
      <3>2. /\ x.version \in NoRows .. db /\ x.age \in Nat /\ db \in 0 .. MaxVersion
            /\ outdated[x.version] < TTL + x.age
        BY <3>1 DEF IndInv, CacheInv, TypeOK, EntriesAge
      <3>3. x.version \in 0 .. MaxVersion
        BY <3>1, <3>2
      <3>4. outdated[x.version] \in Nat /\ outdated'[x.version] \in Nat
        BY <1>3, <3>3 DEF IndInv, CacheInv, TypeOK
      <3>5. outdated'[x.version] <= outdated[x.version] + 1
        BY <1>3, <3>3
      <3>6. TTL \in Nat
        OBVIOUS
      <3> QED
        <4> HIDE DEF PropertyCacheAssumption
        <4>1. e.age = x.age + 1 /\ outdated[x.version] < TTL + x.age /\ x.age \in Nat
          BY <3>1, <3>2
        <4>2. outdated'[x.version] < TTL + e.age
          BY <3>4, <3>5, <3>6, <4>1
        <4> QED
          BY <3>1, <4>2
    <2> QED
      BY <1>1, <1>2, <2>1, <2>2, <2>3 DEF EntriesAge
  <1>9. CacheFollowsUpdates'
    <2>1. ~raced => \A e \in global' : e.version >= published
      BY <1>4 DEF IndInv, CacheInv, CacheFollowsUpdates
    <2>2. ~raced => \A k \in CacheKeys : \A e \in chains'[k] : e.version # NoRows => e.version >= published
      BY <1>5 DEF IndInv, CacheInv, CacheFollowsUpdates
    <2> QED
      BY <1>1, <1>2, <2>1, <2>2 DEF CacheFollowsUpdates, InFlight
  <1>10. ChainsByName'
    BY <1>5 DEF IndInv, CacheInv, ChainsByName
  <1>11. ReturnedInv'
    BY <1>1, <1>2 DEF ReturnedInv, Returned
  <1> QED
    BY <1>7, <1>8, <1>9, <1>10, <1>11 DEF IndInv, CacheInv

LEMMA StepInv ==
  ASSUME PropertyCacheAssumption, IndInv, [Next]_vars
  PROVE  IndInv'
  <1>1. CASE UNCHANGED vars
    BY <1>1 DEF vars, IndInv, CacheInv, TypeOK, EntriesAge, CacheFollowsUpdates, ChainsByName,
       ReturnedInv, Returned, InFlight
  <1>2. CASE Next
    BY <1>2, ReadGlobalInv, SetGlobalInv, ResolveInv, ReturnInv, WriteInv, ClearCacheInv, TickInv
    DEF Next
  <1> QED
    BY <1>1, <1>2

(* IndInv is an invariant of the property cache.                           *)
THEOREM CacheInvariance ==
  ASSUME PropertyCacheAssumption
  PROVE  Spec => []IndInv
  <1>1. Init => IndInv
    BY InitInv
  <1>2. IndInv /\ [Next]_vars => IndInv'
    BY StepInv
  <1> QED
    BY <1>1, <1>2, PTL DEF Spec

(* Properties() never returns rows replaced two expiries ago, though a chain   *)
(* is cached with rows that were cached before.                               *)
THEOREM NeverOlder ==
  ASSUME PropertyCacheAssumption
  PROVE  Spec => []OutdatedForTwoTTLs
  <1>1. IndInv => OutdatedForTwoTTLs
    BY DEF IndInv, CacheInv, ReturnedInv, OutdatedForTwoTTLs, RowsExpire, Current
  <1> QED
    BY <1>1, CacheInvariance, PTL

\* Objects that differ in namespace or name keep their annotations apart.
LEMMA AnnotationsApart == IndInv => OwnAnnotations
  <1>1. IndInv => \A c \in Callers : object[c] # NoObject => object[c] \in Objects
    BY DEF IndInv, CacheInv, TypeOK
  <1> QED
    BY <1>1 DEF IndInv, ReturnedInv, OwnAnnotations

(* A process sees its own UpdateProperty, unless a call overtook the clearing  *)
(* of the cache with rows from before; and an object gets no annotations of    *)
(* one with another namespace or name.                                         *)
THEOREM UpdatesSeen ==
  ASSUME PropertyCacheAssumption
  PROVE  Spec => []OwnUpdatesSeen
  <1>1. IndInv => LatestIsSeen
    BY DEF IndInv, ReturnedInv, LatestIsSeen, Current
  <1>2. IndInv => OwnUpdatesSeen
    BY <1>1, AnnotationsApart DEF IndInv, CacheInv, OwnUpdatesSeen
  <1> QED
    BY <1>2, CacheInvariance, PTL

-----------------------------------------------------------------------------
(* rbac: the policies that replicas have in memory, and cached answers.    *)

(* The inductive invariant of the enforcer.                                *)
EnforcerInv == PolicyTypeOK /\ MemoryAges /\ RightBefore

\* Failed loads only add to what is allowed for.
LEMMA MoreFailures ==
  ASSUME EnforcerAssumption, NEW m \in Nat, NEW n \in Nat, m <= n
  PROVE  /\ Reload * m \in Nat /\ Reload * n \in Nat
         /\ Reload * m <= Reload * n
         /\ Reload * (m + 1) = Reload * m + Reload
  BY DEF EnforcerAssumption

(* What the types say of the numbers of a state.                           *)
LEMMA EnforcerTypes ==
  ASSUME EnforcerAssumption, EnforcerInv
  PROVE  /\ now \in Nat /\ failures \in Nat /\ answer.age \in Nat
         /\ last \in [Subjects -> [BOOLEAN -> 0 .. now]]
         /\ loaded \in [Replicas -> 0 .. now]
         /\ \A r \in Replicas : loaded[r] \in Nat
         /\ \A s \in Subjects, b \in BOOLEAN : last[s][b] \in Nat
         /\ \A r \in Replicas : cached[r] \subseteq [sub : Subjects, allowed : BOOLEAN, at : 0 .. now]
         /\ \A r \in Replicas : \A e \in cached[r] :
              e.sub \in Subjects /\ e.allowed \in BOOLEAN /\ e.at \in Nat
         /\ Reload \in Nat /\ Expiry \in Nat /\ Reload * failures \in Nat
  <1>1. now \in Nat
    BY DEF EnforcerInv, PolicyTypeOK
  <1>2. failures \in 0 .. MaxFailures
    BY DEF EnforcerInv, PolicyTypeOK
  <1>3. Reload \in Nat /\ Expiry \in Nat /\ MaxFailures \in Nat
    BY DEF EnforcerAssumption
  <1>4. failures \in Nat /\ Reload * failures \in Nat
    BY <1>2, <1>3
  <1>5. answer.age \in Nat
    <2>1. answer \in [sub : Subjects \union {""}, age : Nat]
      BY DEF EnforcerInv, PolicyTypeOK
    <2> QED
      BY <2>1
  <1>6. last \in [Subjects -> [BOOLEAN -> 0 .. now]]
    BY DEF EnforcerInv, PolicyTypeOK
  <1>7. \A s \in Subjects, b \in BOOLEAN : last[s][b] \in Nat
    <2>1. \A s \in Subjects : last[s] \in [BOOLEAN -> 0 .. now]
      BY <1>6
    <2>2. \A s \in Subjects, b \in BOOLEAN : last[s][b] \in 0 .. now
      BY <2>1
    <2> QED
      BY <2>2
  <1>8. loaded \in [Replicas -> 0 .. now]
    BY DEF EnforcerInv, PolicyTypeOK
  <1>9. \A r \in Replicas : loaded[r] \in Nat
    BY <1>1, <1>8
  <1>10. cached \in [Replicas -> SUBSET [sub : Subjects, allowed : BOOLEAN, at : 0 .. now]]
    BY DEF EnforcerInv, PolicyTypeOK
  <1>11. \A r \in Replicas : cached[r] \subseteq [sub : Subjects, allowed : BOOLEAN, at : 0 .. now]
    BY <1>10
  <1>12. \A r \in Replicas : \A e \in cached[r] :
           e.sub \in Subjects /\ e.allowed \in BOOLEAN /\ e.at \in Nat
    <2>1. ASSUME NEW e \in [sub : Subjects, allowed : BOOLEAN, at : 0 .. now]
          PROVE  e.sub \in Subjects /\ e.allowed \in BOOLEAN /\ e.at \in 0 .. now
      OBVIOUS
    <2> QED
      BY <1>1, <1>11, <2>1
  <1> QED
    BY <1>1, <1>3, <1>4, <1>5, <1>6, <1>7, <1>8, <1>9, <1>11, <1>12

LEMMA EnforcerInit ==
  ASSUME EnforcerAssumption, PolicyInit
  PROVE  EnforcerInv
  <1>1. PolicyTypeOK
    <2>1. groups \subseteq Subjects \X {Role, "everyone"}
      BY DEF PolicyInit
    <2>2. /\ policy \in [Replicas -> SUBSET (Subjects \X {Role, "everyone"})]
          /\ now \in Nat /\ loaded \in [Replicas -> 0 .. now]
          /\ cached \in [Replicas -> SUBSET [sub : Subjects, allowed : BOOLEAN, at : 0 .. now]]
      BY <2>1 DEF PolicyInit
    <2>3. last \in [Subjects -> [BOOLEAN -> 0 .. now]]
      BY DEF PolicyInit
    <2>4. answer \in [sub : Subjects \union {""}, age : Nat]
      BY DEF PolicyInit, NoAnswer
    <2>5. changes \in Nat /\ failures \in 0 .. MaxFailures
      BY DEF PolicyInit, EnforcerAssumption
    <2> QED
      BY <2>1, <2>2, <2>3, <2>4, <2>5 DEF PolicyTypeOK
  <1>2. MemoryAges
    <2>1. \A s \in Subjects, b \in BOOLEAN : last[s][b] = 0
      BY DEF PolicyInit
    <2>2. \A rows, s : Allowed(rows, s) \in BOOLEAN
      BY DEF Allowed
    <2>3. now = 0 /\ failures = 0 /\ \A r \in Replicas : loaded[r] = 0 /\ cached[r] = {}
      BY DEF PolicyInit
    <2> QED
      BY <2>1, <2>2, <2>3 DEF MemoryAges, EnforcerAssumption
  <1>3. RightBefore
    <2>1. answer.age = 0 /\ failures = 0
      BY DEF PolicyInit, NoAnswer
    <2> QED
      BY <2>1 DEF RightBefore, EnforcerAssumption
  <1> QED
    BY <1>1, <1>2, <1>3 DEF EnforcerInv

\* What Note records, time going on or not.
LEMMA Noted ==
  ASSUME EnforcerAssumption, EnforcerInv, NEW rows, Note(rows),
         now' \in Nat, now <= now'
  PROVE  /\ last' \in [Subjects -> [BOOLEAN -> 0 .. now']]
         /\ \A s \in Subjects : last'[s][Allowed(rows, s)] = now'
         /\ \A s \in Subjects, b \in BOOLEAN : last[s][b] <= last'[s][b]
         /\ \A s \in Subjects, b \in BOOLEAN : last'[s][b] \in Nat
  <1>1. last \in [Subjects -> [BOOLEAN -> 0 .. now]] /\ now \in Nat
    BY EnforcerTypes
  <1>2. \A s \in Subjects : Allowed(rows, s) \in BOOLEAN
    BY DEF Allowed
  <1>3. \A s \in Subjects : last'[s] = [last[s] EXCEPT ![Allowed(rows, s)] = now']
    BY DEF Note
  <1>4. \A s \in Subjects : last[s] \in [BOOLEAN -> 0 .. now]
    BY <1>1
  <1>5. \A s \in Subjects, b \in BOOLEAN :
          last'[s][b] = IF b = Allowed(rows, s) THEN now' ELSE last[s][b]
    BY <1>2, <1>3, <1>4
  <1>6. \A s \in Subjects, b \in BOOLEAN : last[s][b] \in 0 .. now
    BY <1>4
  <1>7. \A s \in Subjects, b \in BOOLEAN : last'[s][b] \in 0 .. now' /\ last[s][b] <= last'[s][b]
    BY <1>1, <1>5, <1>6
  <1>8. \A s \in Subjects : last'[s] \in [BOOLEAN -> 0 .. now']
    <2> TAKE s \in Subjects
    <2>1. last'[s] = [b \in BOOLEAN |-> last'[s][b]]
      BY <1>3, <1>4
    <2> QED
      BY <1>7, <2>1
  <1>9. last' \in [Subjects -> [BOOLEAN -> 0 .. now']]
    BY <1>8 DEF Note
  <1> QED
    BY <1>2, <1>5, <1>7, <1>9

\* The ages only move with time, loads and roles.
LEMMA EnforcerTick ==
  ASSUME EnforcerAssumption, EnforcerInv, PolicyTick
  PROVE  EnforcerInv'
  <1>1. /\ now' = now + 1 /\ Note(groups)
        /\ UNCHANGED <<groups, policy, loaded, cached, answer, changes, failures>>
        /\ \A r \in Replicas : now - loaded[r] < Reload
    BY DEF PolicyTick
  <1>2. /\ last' \in [Subjects -> [BOOLEAN -> 0 .. now']]
        /\ \A s \in Subjects : last'[s][Allowed(groups, s)] = now'
        /\ \A s \in Subjects, b \in BOOLEAN : last[s][b] <= last'[s][b]
        /\ \A s \in Subjects, b \in BOOLEAN : last'[s][b] \in Nat
    BY <1>1, EnforcerTypes, Noted
  <1>3. 0 .. now \subseteq 0 .. now' /\ now' \in Nat
    BY <1>1, EnforcerTypes
  <1>4. PolicyTypeOK'
    <2>1. loaded' \in [Replicas -> 0 .. now']
      BY <1>1, <1>3, EnforcerTypes
    <2>2. cached' \in [Replicas -> SUBSET [sub : Subjects, allowed : BOOLEAN, at : 0 .. now']]
      <3>1. [sub : Subjects, allowed : BOOLEAN, at : 0 .. now]
              \subseteq [sub : Subjects, allowed : BOOLEAN, at : 0 .. now']
        BY <1>3
      <3>2. cached \in [Replicas -> SUBSET [sub : Subjects, allowed : BOOLEAN, at : 0 .. now]]
        BY DEF EnforcerInv, PolicyTypeOK
      <3> QED
        BY <1>1, <3>1, <3>2
    <2> QED
      BY <1>1, <1>2, <1>3, <2>1, <2>2 DEF EnforcerInv, PolicyTypeOK
  <1> DEFINE late == Reload * failures
  <1>5. late \in Nat
    BY EnforcerTypes
  <1>6. MemoryAges'
    <2>1. \A r \in Replicas : now' <= loaded[r] + Reload
      BY <1>1, EnforcerTypes
    <2>2. ASSUME NEW r \in Replicas, NEW s \in Subjects
          PROVE  loaded[r] <= last'[s][Allowed(policy[r], s)] + late
      <3>1. loaded[r] <= last[s][Allowed(policy[r], s)] + late
        BY DEF EnforcerInv, MemoryAges
      <3>2. Allowed(policy[r], s) \in BOOLEAN
        BY DEF Allowed
      <3> HIDE DEF late
      <3> QED
        BY <1>2, <1>5, <3>1, <3>2, EnforcerTypes
    <2>3. ASSUME NEW r \in Replicas, NEW e \in cached[r]
          PROVE  e.at <= last'[e.sub][e.allowed] + late + Reload
      <3>1. e.at <= last[e.sub][e.allowed] + late + Reload
        BY DEF EnforcerInv, MemoryAges
      <3> HIDE DEF late
      <3> QED
        BY <1>2, <1>5, <3>1, EnforcerTypes
    <2> QED
      BY <1>1, <1>2, <2>1, <2>2, <2>3 DEF MemoryAges, Allowed
  <1>7. RightBefore'
    BY <1>1 DEF EnforcerInv, RightBefore
  <1> QED
    BY <1>4, <1>6, <1>7 DEF EnforcerInv

\* A failed load is one more interval in which the policy was not renewed.
LEMMA EnforcerLoad ==
  ASSUME EnforcerAssumption, EnforcerInv, NEW r \in Replicas,
         UNCHANGED <<groups, now, last, answer, changes>>,
         \/ /\ loaded' = [loaded EXCEPT ![r] = now] /\ policy' = [policy EXCEPT ![r] = groups]
            /\ UNCHANGED <<cached, failures>>
         \/ /\ loaded' = [loaded EXCEPT ![r] = now] /\ now - loaded[r] = Reload
            /\ failures < MaxFailures /\ failures' = failures + 1 /\ UNCHANGED <<cached, policy>>
         \/ /\ policy' = [policy EXCEPT ![r] = groups] /\ cached' = [cached EXCEPT ![r] = {}]
            /\ UNCHANGED <<loaded, failures>>
  PROVE  EnforcerInv'
  <1>1. /\ now \in Nat /\ failures \in Nat /\ Reload \in Nat /\ Reload * failures \in Nat
        /\ \A q \in Replicas : loaded[q] \in Nat
        /\ \A s \in Subjects, b \in BOOLEAN : last[s][b] \in Nat
      BY EnforcerTypes
  <1>2. failures' \in 0 .. MaxFailures
    <2>1. failures \in 0 .. MaxFailures
      BY DEF EnforcerInv, PolicyTypeOK
    <2> QED
      BY <2>1 DEF EnforcerAssumption
  <1>3. PolicyTypeOK'
    <2>1. loaded' \in [Replicas -> 0 .. now]
      BY <1>1, EnforcerTypes
    <2>2. policy' \in [Replicas -> SUBSET (Subjects \X {Role, "everyone"})]
      BY DEF EnforcerInv, PolicyTypeOK
    <2>3. cached' \in [Replicas -> SUBSET [sub : Subjects, allowed : BOOLEAN, at : 0 .. now]]
      <3>1. cached \in [Replicas -> SUBSET [sub : Subjects, allowed : BOOLEAN, at : 0 .. now]]
        BY DEF EnforcerInv, PolicyTypeOK
      <3> QED
        BY <3>1
    <2> QED
      BY <1>2, <2>1, <2>2, <2>3 DEF EnforcerInv, PolicyTypeOK
  <1> DEFINE late == Reload * failures
  <1>4. /\ late \in Nat /\ (Reload * failures)' \in Nat /\ late <= (Reload * failures)'
        /\ failures' = failures + 1 => (Reload * failures)' = late + Reload
        /\ (Reload * (1 + failures)) = late + Reload
        /\ (Reload * (1 + failures))' = (Reload * failures)' + Reload
    <2>1. late \in Nat /\ Reload * (1 + failures) = late + Reload
      BY <1>1
    <2>2. CASE failures' = failures
      BY <1>1, <2>1, <2>2
    <2>3. CASE failures' = failures + 1
      <3>1. /\ Reload * (failures + 1) = Reload * failures + Reload
            /\ Reload * (1 + (failures + 1)) = Reload * (failures + 1) + Reload
        BY <1>1
      <3>2. Reload * (failures + 1) \in Nat
        BY <1>1, <3>1
      <3>3. late <= late + Reload
        BY <1>1
      <3> QED
        BY <2>1, <2>3, <3>1, <3>2, <3>3
    <2> QED
      BY <2>2, <2>3
  <1>5. MemoryAges'
    <2>1. \A q \in Replicas : now <= loaded'[q] + Reload
      <3>1. \A q \in Replicas : now <= loaded[q] + Reload
        BY DEF EnforcerInv, MemoryAges
      <3> QED
        BY <1>1, <3>1, EnforcerTypes
    <2>2. ASSUME NEW q \in Replicas, NEW s \in Subjects
          PROVE  loaded'[q] <= last[s][Allowed(policy'[q], s)] + (Reload * failures)'
      <3>1. loaded[q] <= last[s][Allowed(policy[q], s)] + late
        BY DEF EnforcerInv, MemoryAges
      <3>2. last[s][Allowed(groups, s)] = now
        BY DEF EnforcerInv, MemoryAges
      <3>3. loaded[q] <= now
        BY <1>1, EnforcerTypes
      <3>4. Allowed(policy[q], s) \in BOOLEAN
        BY DEF Allowed
      <3>5. last[s][Allowed(policy[q], s)] \in Nat
        BY <1>1, <3>4
      <3> HIDE DEF late
      <3>6. CASE policy'[q] = groups /\ loaded'[q] \in {loaded[q], now}
        BY <1>1, <1>4, <3>2, <3>3, <3>6
      <3>7. CASE policy'[q] = policy[q] /\ loaded'[q] = loaded[q]
        BY <1>1, <1>4, <3>1, <3>5, <3>7
      <3>8. CASE policy'[q] = policy[q] /\ loaded'[q] = loaded[q] + Reload /\ failures' = failures + 1
        BY <1>1, <1>4, <3>1, <3>5, <3>8
      <3>9. policy \in [Replicas -> SUBSET (Subjects \X {Role, "everyone"})]
        BY DEF EnforcerInv, PolicyTypeOK
      <3>10. \/ policy'[q] = groups /\ loaded'[q] \in {loaded[q], now}
             \/ policy'[q] = policy[q] /\ loaded'[q] = loaded[q]
             \/ policy'[q] = policy[q] /\ loaded'[q] = loaded[q] + Reload /\ failures' = failures + 1
        <4>1. loaded \in [Replicas -> 0 .. now]
          BY EnforcerTypes
        <4>2. CASE q = r
          BY <1>1, <3>9, <4>1, <4>2
        <4>3. CASE q # r
          BY <3>9, <4>1, <4>3
        <4> QED
          BY <4>2, <4>3
      <3> QED
        BY <3>6, <3>7, <3>8, <3>10
    <2>3. ASSUME NEW q \in Replicas, NEW e \in cached'[q]
          PROVE  e.at <= last[e.sub][e.allowed] + (Reload * failures)' + Reload
      <3>1. e \in cached[q]
        <4>1. cached \in [Replicas -> SUBSET [sub : Subjects, allowed : BOOLEAN, at : 0 .. now]]
          BY DEF EnforcerInv, PolicyTypeOK
        <4> QED
          BY <4>1
      <3>2. e.at <= last[e.sub][e.allowed] + late + Reload
        BY <3>1 DEF EnforcerInv, MemoryAges
      <3>3. e.at \in Nat /\ last[e.sub][e.allowed] \in Nat
        BY <1>1, <3>1, EnforcerTypes
      <3> HIDE DEF late
      <3> QED
        BY <1>1, <1>4, <3>2, <3>3
    <2>4. \A s \in Subjects : last[s][Allowed(groups, s)] = now
      BY DEF EnforcerInv, MemoryAges
    <2> QED
      BY <2>1, <2>2, <2>3, <2>4 DEF MemoryAges, Allowed
  <1>6. RightBefore'
    <2>1. answer.age <= late + Reload + Expiry
      BY <1>4 DEF EnforcerInv, RightBefore
    <2>2. answer.age \in Nat /\ Expiry \in Nat
      BY EnforcerTypes
    <2> HIDE DEF late
    <2>3. answer.age <= (Reload * failures)' + Reload + Expiry
      BY <1>1, <1>4, <2>1, <2>2
    <2> QED
      BY <1>4, <2>3 DEF RightBefore
  <1> QED
    BY <1>3, <1>5, <1>6 DEF EnforcerInv

\* A change of a role is right from now on, in the database and on the replica it is
\* made on; the other replicas remember what was right before.
LEMMA EnforcerChange ==
  ASSUME EnforcerAssumption, EnforcerInv, NEW r \in Replicas, NEW s \in Subjects,
         ChangeRole(r, s)
  PROVE  EnforcerInv'
  <1> DEFINE row == <<s, Role>>
  <1>1. /\ now' = now /\ Note(groups')
        /\ changes' = changes + 1 /\ UNCHANGED <<loaded, cached, answer, failures>>
    BY DEF ChangeRole
  <1>2. /\ groups' = IF row \in policy[r] THEN groups \ {row} ELSE groups \union {row}
        /\ policy' = [policy EXCEPT ![r] =
                        IF row \in policy[r] THEN policy[r] \ {row} ELSE policy[r] \union {row}]
    BY DEF ChangeRole
  <1>3. policy \in [Replicas -> SUBSET (Subjects \X {Role, "everyone"})]
    BY DEF EnforcerInv, PolicyTypeOK
  <1>4. now \in Nat
    BY EnforcerTypes
  <1>5. /\ last' \in [Subjects -> [BOOLEAN -> 0 .. now']]
        /\ \A t \in Subjects : last'[t][Allowed(groups', t)] = now'
        /\ \A t \in Subjects, b \in BOOLEAN : last[t][b] <= last'[t][b]
        /\ \A t \in Subjects, b \in BOOLEAN : last'[t][b] \in Nat
    <2>1. PICK rows : rows = groups'
      OBVIOUS
    <2>2. Note(rows)
      BY <1>1, <2>1 DEF Note
    <2>3. now' \in Nat /\ now <= now'
      BY <1>1, <1>4
    <2> QED
      BY <2>1, <2>2, <2>3, Noted
  <1>6. PolicyTypeOK'
    <2>1. groups' \subseteq Subjects \X {Role, "everyone"}
      <3>1. groups \subseteq Subjects \X {Role, "everyone"}
        BY DEF EnforcerInv, PolicyTypeOK
      <3>2. row \in Subjects \X {Role, "everyone"}
        OBVIOUS
      <3> HIDE DEF row
      <3> QED
        BY <1>2, <3>1, <3>2
    <2>2. policy' \in [Replicas -> SUBSET (Subjects \X {Role, "everyone"})]
      BY <1>2, <1>3
    <2>3. changes' \in Nat
      <3>1. changes \in Nat
        BY DEF EnforcerInv, PolicyTypeOK
      <3> QED
        BY <1>1, <3>1
    <2> QED
      BY <1>1, <1>5, <2>1, <2>2, <2>3 DEF EnforcerInv, PolicyTypeOK
  <1> DEFINE late == Reload * failures
  <1>7. MemoryAges'
    <2>1. ASSUME NEW q \in Replicas, NEW t \in Subjects
          PROVE  loaded[q] <= last'[t][Allowed(policy'[q], t)] + late
      <3>1. loaded[q] <= last[t][Allowed(policy[q], t)] + late
        BY DEF EnforcerInv, MemoryAges
      <3>2. loaded[q] \in Nat /\ loaded[q] <= now /\ late \in Nat
        BY <1>4, EnforcerTypes
      <3>3. Allowed(policy[q], t) \in BOOLEAN
        BY DEF Allowed
      <3>4. last[t][Allowed(policy[q], t)] \in Nat /\ last'[t][Allowed(policy[q], t)] \in Nat
        BY <1>5, <3>3, EnforcerTypes
      <3>5. last[t][Allowed(policy[q], t)] <= last'[t][Allowed(policy[q], t)]
        BY <1>5, <3>3
      <3>6. \/ Allowed(policy'[q], t) = Allowed(policy[q], t)
            \/ Allowed(policy'[q], t) = Allowed(groups', t)
        <4>1. CASE q = r /\ t = s
          BY <1>2, <1>3, <4>1 DEF Allowed
        <4>2. CASE q # r
          <5>1. policy'[q] = policy[q]
            BY <1>2, <1>3, <4>2
          <5> QED
            BY <5>1
        <4>3. CASE t # s
          <5>1. <<t, Role>> # <<s, Role>>
            BY <4>3
          <5> QED
            BY <1>2, <1>3, <5>1 DEF Allowed
        <4> QED
          BY <4>1, <4>2, <4>3
      <3> HIDE DEF late
      <3>7. CASE Allowed(policy'[q], t) = Allowed(policy[q], t)
        BY <3>1, <3>2, <3>4, <3>5, <3>7
      <3>8. CASE Allowed(policy'[q], t) = Allowed(groups', t)
        <4>1. last'[t][Allowed(policy'[q], t)] = now
          BY <1>1, <1>5, <3>8
        <4> QED
          BY <1>4, <3>2, <4>1
      <3> QED
        BY <3>6, <3>7, <3>8
    <2>2. ASSUME NEW q \in Replicas, NEW e \in cached[q]
          PROVE  e.at <= last'[e.sub][e.allowed] + late + Reload
      <3>1. e.at <= last[e.sub][e.allowed] + late + Reload
        BY DEF EnforcerInv, MemoryAges
      <3>2. /\ e.sub \in Subjects /\ e.allowed \in BOOLEAN /\ e.at \in Nat
            /\ late \in Nat /\ Reload \in Nat /\ last[e.sub][e.allowed] \in Nat
        BY EnforcerTypes
      <3>3. last[e.sub][e.allowed] <= last'[e.sub][e.allowed] /\ last'[e.sub][e.allowed] \in Nat
        BY <1>5, <3>2
      <3> HIDE DEF late
      <3> QED
        BY <3>1, <3>2, <3>3
    <2>3. \A q \in Replicas : now <= loaded[q] + Reload
      BY DEF EnforcerInv, MemoryAges
    <2> QED
      BY <1>1, <1>5, <2>1, <2>2, <2>3 DEF MemoryAges, Allowed
  <1>8. RightBefore'
    BY <1>1 DEF EnforcerInv, RightBefore
  <1> QED
    BY <1>6, <1>7, <1>8 DEF EnforcerInv

\* An answer is as old as the cache and the policy it came from allow.
LEMMA EnforcerCheck ==
  ASSUME EnforcerAssumption, EnforcerInv, NEW r \in Replicas, NEW s \in Subjects,
         Check(r, s)
  PROVE  EnforcerInv'
  <1> DEFINE row == <<s, "everyone">>
             hits == {e \in cached[r] : e.sub = s /\ Fresh(e)}
             allowed == IF hits # {} THEN (CHOOSE e \in hits : TRUE).allowed
                        ELSE Allowed(policy[r], s)
             new == [sub |-> s, allowed |-> allowed, at |-> now]
             late == Reload * failures
  <1>1. /\ groups' = IF row \in policy[r] THEN groups ELSE groups \union {row}
        /\ policy' = [policy EXCEPT ![r] = @ \union {row}]
        /\ cached' = IF hits # {} THEN cached
                     ELSE [cached EXCEPT ![r] = {e \in @ : e.sub # s} \union {new}]
        /\ answer' = [sub |-> s, age |-> now - last[s][allowed]]
        /\ UNCHANGED <<loaded, now, last, changes, failures>>
    BY DEF Check
  <1>2. policy \in [Replicas -> SUBSET (Subjects \X {Role, "everyone"})]
    BY DEF EnforcerInv, PolicyTypeOK
  <1>3. cached \in [Replicas -> SUBSET [sub : Subjects, allowed : BOOLEAN, at : 0 .. now]]
    BY DEF EnforcerInv, PolicyTypeOK
  <1>4. /\ now \in Nat /\ late \in Nat /\ Reload \in Nat /\ Expiry \in Nat /\ failures \in Nat
        /\ \A q \in Replicas : loaded[q] \in Nat
        /\ last \in [Subjects -> [BOOLEAN -> 0 .. now]]
    BY EnforcerTypes
  <1>5. allowed \in BOOLEAN
    <2>1. CASE hits # {}
      <3>1. \E e \in hits : allowed = e.allowed
        BY <2>1
      <3> QED
        BY <3>1, EnforcerTypes
    <2>2. CASE hits = {}
      <3>1. allowed = Allowed(policy[r], s)
        BY <2>2
      <3>2. Allowed(policy[r], s) \in BOOLEAN
        BY DEF Allowed
      <3> HIDE DEF allowed
      <3> QED
        BY <3>1, <3>2
    <2> QED
      BY <2>1, <2>2
  <1>6. last[s][allowed] \in 0 .. now
    <2>1. last[s] \in [BOOLEAN -> 0 .. now]
      BY <1>4
    <2> HIDE DEF allowed
    <2> QED
      BY <1>5, <2>1
  <1>7. now <= loaded[r] + Reload /\ loaded[r] <= last[s][Allowed(policy[r], s)] + late
    BY DEF EnforcerInv, MemoryAges
  <1>8. hits = {} => now <= last[s][allowed] + late + Reload
    <2> SUFFICES ASSUME hits = {} PROVE now <= last[s][allowed] + late + Reload
      OBVIOUS
    <2>1. allowed = Allowed(policy[r], s)
      OBVIOUS
    <2> HIDE DEF allowed, late, hits
    <2> QED
      BY <1>4, <1>6, <1>7, <2>1
  <1>9. now <= last[s][allowed] + late + Reload + Expiry
    <2>1. CASE hits = {}
      <3>1. now <= last[s][allowed] + late + Reload
        BY <1>8, <2>1
      <3> HIDE DEF allowed, late, hits
      <3> QED
        BY <1>4, <1>6, <3>1
    <2>2. CASE hits # {}
      <3>1. PICK e \in hits : allowed = e.allowed
        BY <2>2
      <3>2. e \in cached[r] /\ e.sub = s /\ now < e.at + Expiry
        BY DEF Fresh
      <3>3. e.at <= last[s][allowed] + late + Reload
        BY <3>1, <3>2 DEF EnforcerInv, MemoryAges
      <3>4. e.at \in Nat
        BY <3>2, EnforcerTypes
      <3> HIDE DEF allowed, late, hits
      <3> QED
        BY <1>4, <1>6, <3>2, <3>3, <3>4
    <2> QED
      BY <2>1, <2>2
  <1>10. \A q \in Replicas, t \in Subjects :
           Allowed(policy'[q], t) = Allowed(policy[q], t)
    <2>1. \A t \in Subjects : <<t, Role>> # row
      BY DEF Role
    <2> HIDE DEF row
    <2> QED
      BY <1>1, <1>2, <2>1 DEF Allowed
  <1>11. \A t \in Subjects : Allowed(groups', t) = Allowed(groups, t)
    <2>1. \A t \in Subjects : <<t, Role>> # row
      BY DEF Role
    <2> HIDE DEF row
    <2> QED
      BY <1>1, <2>1 DEF Allowed
  <1>12. \A q \in Replicas : \A e \in cached'[q] :
           e \in cached[q] \/ (q = r /\ e = new /\ hits = {})
    <2> HIDE DEF new, hits
    <2> QED
      BY <1>1, <1>3
  <1>13. PolicyTypeOK'
    <2>1. groups' \subseteq Subjects \X {Role, "everyone"}
      <3>1. groups \subseteq Subjects \X {Role, "everyone"}
        BY DEF EnforcerInv, PolicyTypeOK
      <3>2. row \in Subjects \X {Role, "everyone"}
        OBVIOUS
      <3> HIDE DEF row
      <3> QED
        BY <1>1, <3>1, <3>2
    <2>2. policy' \in [Replicas -> SUBSET (Subjects \X {Role, "everyone"})]
      BY <1>1, <1>2
    <2>3. cached' \in [Replicas -> SUBSET [sub : Subjects, allowed : BOOLEAN, at : 0 .. now]]
      <3>1. new \in [sub : Subjects, allowed : BOOLEAN, at : 0 .. now]
        <4> HIDE DEF allowed
        <4> QED
          BY <1>4, <1>5
      <3> HIDE DEF new, hits
      <3> QED
        BY <1>1, <1>3, <3>1
    <2>4. answer' \in [sub : Subjects \union {""}, age : Nat]
      <3>1. now - last[s][allowed] \in Nat
        <4> HIDE DEF allowed
        <4> QED
          BY <1>4, <1>6
      <3> HIDE DEF allowed
      <3> QED
        BY <1>1, <3>1
    <2> QED
      BY <1>1, <2>1, <2>2, <2>3, <2>4 DEF EnforcerInv, PolicyTypeOK
  <1>14. MemoryAges'
    <2>1. \A q \in Replicas : now <= loaded[q] + Reload
      BY DEF EnforcerInv, MemoryAges
    <2>2. \A t \in Subjects : last[t][Allowed(groups', t)] = now
      BY <1>11 DEF EnforcerInv, MemoryAges
    <2>3. \A q \in Replicas, t \in Subjects :
            loaded[q] <= last[t][Allowed(policy'[q], t)] + late
      BY <1>10 DEF EnforcerInv, MemoryAges
    <2>4. ASSUME NEW q \in Replicas, NEW e \in cached'[q]
          PROVE  e.at <= last[e.sub][e.allowed] + late + Reload
      <3>1. CASE e \in cached[q]
        BY <3>1 DEF EnforcerInv, MemoryAges
      <3>2. CASE e = new /\ hits = {}
        <4>1. e.at = now /\ e.sub = s /\ e.allowed = allowed
          BY <3>2
        <4> QED
          BY <1>8, <3>2, <4>1
      <3> QED
        BY <1>12, <3>1, <3>2
    <2> QED
      BY <1>1, <2>1, <2>2, <2>3, <2>4 DEF MemoryAges, Allowed
  <1>15. RightBefore'
    <2>1. answer'.age = now - last[s][allowed]
      BY <1>1
    <2>2. Reload * (1 + failures) = late + Reload
      BY <1>4
    <2> HIDE DEF allowed
    <2>3. now - last[s][allowed] <= Reload * (1 + failures) + Expiry
      <3>1. late \in Nat
        BY <1>4
      <3> HIDE DEF late
      <3> QED
        BY <1>4, <1>6, <1>9, <2>2, <3>1
    <2> QED
      BY <1>1, <2>1, <2>3 DEF RightBefore
  <1> QED
    BY <1>13, <1>14, <1>15 DEF EnforcerInv

LEMMA EnforcerStep ==
  ASSUME EnforcerAssumption, EnforcerInv, [PolicyNext]_policyVars
  PROVE  EnforcerInv'
  <1>1. CASE UNCHANGED policyVars
    BY <1>1 DEF policyVars, EnforcerInv, PolicyTypeOK, MemoryAges, RightBefore,
       Allowed
  <1>2. ASSUME NEW r \in Replicas, AutoLoadPolicy(r) \/ ReloadPolicy(r)
        PROVE  EnforcerInv'
    BY <1>2, EnforcerLoad DEF AutoLoadPolicy, ReloadPolicy
  <1> QED
    BY <1>1, <1>2, EnforcerTick, EnforcerChange, EnforcerCheck DEF PolicyNext

(* rbac.Check: a revoked role is honoured for no longer than the interval      *)
(* between two loads of the policy, one more for every load that failed, and   *)
(* the time that an answer is cached.                                          *)
THEOREM RevokedInTime ==
  ASSUME EnforcerAssumption
  PROVE  PolicySpec => []AnswersAreRecent
  <1>1. PolicyInit => EnforcerInv
    BY EnforcerInit
  <1>2. EnforcerInv /\ [PolicyNext]_policyVars => EnforcerInv'
    BY EnforcerStep
  <1>3. EnforcerInv => AnswersAreRecent
    BY DEF EnforcerInv, AnswersAreRecent
  <1> QED
    BY <1>1, <1>2, <1>3, PTL DEF PolicySpec
=============================================================================
