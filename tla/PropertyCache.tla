---------------------------- MODULE PropertyCache ----------------------------
(***************************************************************************)
(* The process-wide propertyCache of context/properties.go: the rows of    *)
(* the properties table under the key "global", and for every chain of     *)
(* annotated objects the HierarchicalProperties resolved for it, which     *)
(* keeps the global map it was built with.  Goroutines call Properties(),  *)
(* UpdateProperty and UpdateProperties; other processes write the table.   *)
(* The table is abstracted to a version that every write increments.       *)
(***************************************************************************)
EXTENDS Integers

CONSTANTS
  Callers,     \* goroutines
  Objects,     \* annotated objects, each the only one of its context
  Name,        \* namespace/name of each object
  NoObject,    \* a context with no annotated object
  TTL,         \* expiry of an entry, in ticks (15 minutes)
  MaxVersion,  \* bound: writes of the table
  MaxFaults    \* bound: failed statements

PropertyCacheAssumption ==
  /\ Objects \subseteq DOMAIN Name /\ NoObject \notin Objects
  /\ TTL \in Nat \ {0} /\ MaxVersion \in Nat /\ MaxFaults \in Nat

VARIABLES
  db,         \* version of the table
  outdated,   \* ticks since each version was replaced
  global,     \* the "global" entry: a set of at most one [version, age]
  chains,     \* the entry of each cache key: at most one [object, version, age]
  pc, object, \* of each caller, and the object of its context
  got,        \* the global map it has
  out,        \* what Properties() returned
  began,      \* published, when it called
  published,  \* version of the last finished UpdateProperty of this process
  raced,      \* a call was using an older version when the cache was cleared
  faults

vars == <<db, outdated, global, chains, pc, object, got, out, began, published, raced, faults>>
calls == <<object, got, out, began>>

NoRows == -1   \* the empty map returned after an error
CacheKeys == {Name[o] : o \in Objects}

Init ==
  /\ db = 0 /\ published = 0 /\ faults = 0 /\ raced = FALSE
  /\ outdated = [v \in 0 .. MaxVersion |-> 0]
  /\ global = {} /\ chains = [k \in CacheKeys |-> {}]
  /\ pc = [c \in Callers |-> "idle"]
  /\ object = [c \in Callers |-> NoObject]
  /\ got = [c \in Callers |-> 0]
  /\ out = [c \in Callers |-> [object |-> NoObject, version |-> 0]]
  /\ began = [c \in Callers |-> 0]

Goto(c, l) == pc' = [pc EXCEPT ![c] = l]
Fault == faults < MaxFaults /\ faults' = faults + 1

\* Properties() of a context with object o, up to the end of globalProperties' read.
Call(c, o, version, next) ==
  /\ pc[c] = "idle"
  /\ object' = [object EXCEPT ![c] = o]
  /\ began' = [began EXCEPT ![c] = published]
  /\ got' = [got EXCEPT ![c] = version]
  /\ Goto(c, next)
  /\ UNCHANGED <<db, outdated, global, chains, out, published, raced>>

HitGlobal(c, o) ==
  /\ \E e \in global : Call(c, o, e.version, "resolve")
  /\ UNCHANGED faults

QueryRows(c, o) == global = {} /\ Call(c, o, db, "store") /\ UNCHANGED faults

\* The empty map is returned, and not cached.
QueryFails(c, o) == global = {} /\ Fault /\ Call(c, o, NoRows, "resolve")

\* propertyCache.Set("global"): the variable is read again, the rows are not.
SetGlobal(c) ==
  /\ pc[c] = "store"
  /\ global' = {[version |-> got[c], age |-> 0]}
  /\ Goto(c, "resolve")
  /\ UNCHANGED <<db, outdated, chains, published, raced, faults, calls>>

CacheKey(o) == Name[o]

Resolved(c) ==
  IF object[c] = NoObject THEN [object |-> NoObject, version |-> got[c]]
  ELSE IF chains[CacheKey(object[c])] = {} THEN [object |-> object[c], version |-> got[c]]
  ELSE LET e == CHOOSE e \in chains[CacheKey(object[c])] : TRUE
       IN  [object |-> e.object, version |-> e.version]

\* The rest of Properties().  A miss stores the chain built above.
Resolve(c) ==
  /\ pc[c] = "resolve"
  /\ out' = [out EXCEPT ![c] = Resolved(c)]
  /\ chains' = IF object[c] = NoObject \/ chains[CacheKey(object[c])] # {} THEN chains
               ELSE [chains EXCEPT ![CacheKey(object[c])] =
                       {[object |-> object[c], version |-> got[c], age |-> 0]}]
  /\ Goto(c, "done")
  /\ UNCHANGED <<db, outdated, global, object, got, began, published, raced, faults>>

\* The call returns, and its locals are forgotten.
Return(c) ==
  /\ pc[c] = "done"
  /\ object' = [object EXCEPT ![c] = NoObject]
  /\ got' = [got EXCEPT ![c] = 0] /\ began' = [began EXCEPT ![c] = 0]
  /\ out' = [out EXCEPT ![c] = [object |-> NoObject, version |-> 0]]
  /\ Goto(c, "idle")
  /\ UNCHANGED <<db, outdated, global, chains, published, raced, faults>>

\* The statement of UpdateProperty and UpdateProperties, committed or failed: the
\* deferred ClearCache follows either.
Update(c) ==
  /\ pc[c] = "idle" /\ db < MaxVersion
  /\ db' = db + 1
  /\ Goto(c, "clear")
  /\ UNCHANGED <<outdated, global, chains, published, raced, faults, calls>>

UpdateFails(c) ==
  /\ pc[c] = "idle" /\ Fault
  /\ Goto(c, "clear")
  /\ UNCHANGED <<db, outdated, global, chains, published, raced, calls>>

InFlight(c) == pc[c] \in {"store", "resolve"}

\* Variant: only the entry of the rows is dropped.
ClearCacheGlobal(c) ==
  /\ pc[c] = "clear"
  /\ global' = {}
  /\ published' = db
  /\ raced' = (raced \/ \E d \in Callers : InFlight(d) /\ got[d] # db)
  /\ Goto(c, "idle")
  /\ UNCHANGED <<db, outdated, chains, faults, calls>>

ClearCache(c) ==
  /\ pc[c] = "clear"
  /\ global' = {} /\ chains' = [k \in CacheKeys |-> {}]
  /\ published' = db
  /\ raced' = (raced \/ \E d \in Callers : InFlight(d) /\ got[d] # db)
  /\ Goto(c, "idle")
  /\ UNCHANGED <<db, outdated, faults, calls>>

\* Another process writes the table.
UpdateElsewhere ==
  /\ db < MaxVersion
  /\ db' = db + 1
  /\ UNCHANGED <<outdated, global, chains, pc, published, raced, faults, calls>>

\* Variant: a hit renews the entry, as a sliding expiry would: entries do not age.
AgedSliding(entries) == entries

\* Entries as a tick later: an expired one is not found.
Aged(entries) == {[e EXCEPT !.age = @ + 1] : e \in {x \in entries : x.age + 1 < TTL}}

\* Time passes; a call takes much less than a tick.  Nothing tells apart what is
\* outdated by more than twice the TTL.
Tick ==
  /\ \A c \in Callers : pc[c] = "idle"
  /\ outdated' = [v \in 0 .. MaxVersion |->
       IF v < db /\ outdated[v] < 2 * TTL THEN outdated[v] + 1 ELSE outdated[v]]
  /\ global' = Aged(global) /\ chains' = [k \in CacheKeys |-> Aged(chains[k])]
  /\ UNCHANGED <<db, pc, published, raced, faults, calls>>

Next ==
  \/ UpdateElsewhere \/ Tick
  \/ \E c \in Callers :
       \/ \E o \in Objects \union {NoObject} : HitGlobal(c, o) \/ QueryRows(c, o) \/ QueryFails(c, o)
       \/ SetGlobal(c) \/ Resolve(c) \/ Return(c)
       \/ Update(c) \/ UpdateFails(c) \/ ClearCache(c)

Spec == Init /\ [][Next]_vars

-----------------------------------------------------------------------------
(* Properties.                                                             *)

\* The types of the variables: versions are those the table has had, entries are not
\* older than the expiry allows, and a call began no later than now.
TypeOK ==
  /\ db \in 0 .. MaxVersion /\ published \in 0 .. db
  /\ outdated \in [0 .. MaxVersion -> Nat]
  /\ global \subseteq [version : 0 .. db, age : 0 .. TTL - 1]
  /\ chains \in [CacheKeys -> SUBSET [object : Objects, version : NoRows .. db, age : 0 .. TTL - 1]]
  /\ pc \in [Callers -> {"idle", "store", "resolve", "done", "clear"}]
  /\ object \in [Callers -> Objects \union {NoObject}]
  /\ got \in [Callers -> NoRows .. db]
  /\ out \in [Callers -> [object : Objects \union {NoObject}, version : NoRows .. db]]
  /\ began \in [Callers -> 0 .. published]
  /\ raced \in BOOLEAN /\ faults \in 0 .. MaxFaults

Returned(c) == pc[c] = "done"
Current(c) == Returned(c) /\ out[c].version # NoRows

\* propertyCache: whatever is cached inside what, Properties() never returns rows that
\* were replaced two expiries ago.
RowsExpire == \A c \in Callers : Current(c) => outdated[out[c].version] < 2 * TTL

\* Why: rows are at most as long outdated as the entry that holds them is old, and a
\* chain was built with rows from an entry that had not expired.
EntriesAge ==
  /\ \A v \in db .. MaxVersion : outdated[v] = 0
  /\ \A e \in global : outdated[e.version] <= e.age
  /\ \A k \in CacheKeys : \A e \in chains[k] :
       e.version # NoRows => outdated[e.version] < TTL + e.age
  /\ \A c \in Callers : pc[c] = "store" => got[c] # NoRows /\ outdated[got[c]] = 0
  /\ \A c \in Callers : pc[c] = "resolve" /\ got[c] # NoRows => outdated[got[c]] < TTL

\* RowsExpire with what it rests on.
OutdatedForTwoTTLs == TypeOK /\ EntriesAge /\ RowsExpire

\* UpdateProperty, ClearCache: a call of Properties() made after UpdateProperty has
\* returned sees the update, unless another call had read the rows before it and had
\* not stored them when the cache was cleared.
LatestIsSeen ==
  \A c \in Callers : Current(c) /\ ~raced => out[c].version >= began[c]

\* Why: what was read before the last update has been cleared away with it.
CacheFollowsUpdates ==
  ~raced =>
    /\ \A e \in global : e.version >= published
    /\ \A k \in CacheKeys : \A e \in chains[k] : e.version # NoRows => e.version >= published
    /\ \A c \in Callers : InFlight(c) /\ got[c] # NoRows => got[c] >= published

\* Properties(): an object is not given the annotations of another one, as long as
\* the objects in use differ in namespace or name.
OwnAnnotations ==
  (\A o, p \in Objects : Name[o] = Name[p] => o = p) =>
    \A c \in Callers : Returned(c) => out[c].object = object[c]

\* Why: an entry is found by the name of the object it was built for.
ChainsByName == \A k \in CacheKeys : \A e \in chains[k] : Name[e.object] = k

\* A process sees its own updates and an object its own annotations, and why.
OwnUpdatesSeen == CacheFollowsUpdates /\ ChainsByName /\ LatestIsSeen /\ OwnAnnotations
=============================================================================
