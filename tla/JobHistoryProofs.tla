-------------------------- MODULE JobHistoryProofs --------------------------
(***************************************************************************)
(* The theorem about JobHistory, for any number of runs, any retention and *)
(* any capacity of the eviction channel: as long as the runs of a job      *)
(* begin one at a time until it is initialised, its status rings give up   *)
(* no row too many and lose track of none.                                 *)
(***************************************************************************)
EXTENDS JobHistory, FiniteSetTheorems, SequenceTheorems, TLAPS

-----------------------------------------------------------------------------
(* The inductive invariant.                                                *)

Initializing == {"init", "reading", "populating"}
AtWork == {"starting", "running", "adding"}

\* Who initialises the job is alone: nobody else is between Begin and the end.
InitAlone ==
  \A p \in Runs :
    /\ pc[p] \in Initializing =>
         ~initialized /\ \A q \in Runs : q # p => pc[q] \in {"idle", "done"}
    /\ pc[p] \in AtWork => initialized
    /\ todo[p] # {} => pc[p] = "populating"

\* Until the rings are filled they are empty, and so is the way out of them.
EmptyUntilFilled ==
  ~initialized /\ (\A p \in Runs : pc[p] # "populating") =>
    rings = [s \in Statuses |-> << >>] /\ evicted = << >> /\ batch = {}

\* A history and its row: they differ only by a write that was lost.
RowsFollowHistories ==
  /\ \A i \in DOMAIN started : status[started[i]] # None
  /\ \A r \in Runs :
       /\ status[r] \in {None, "RUNNING"} \union Final
       /\ pc[r] \in {"idle", "starting"} \union Initializing => status[r] = None
       /\ pc[r] = "running" => status[r] = "RUNNING"
       /\ pc[r] = "adding" => status[r] \in Final /\ (r \in lost \union aged \/ db[r] = status[r])
       /\ status[r] = None => db[r] = None
       /\ status[r] \in Final => r \in saved \union lost
       /\ db[r] # None => r \in saved
       /\ db[r] \in Final => db[r] = status[r]

Pending == ToSet(evicted) \union batch

\* A history that is in a ring of s, or on its way into one.
Placed(id, s) ==
  /\ pc[id] = "done" /\ id \in saved /\ id \notin Pending
  /\ db[id] \in Final => db[id] = s

\* An id is in one place: a ring, or on its way into one or to its deletion.
PlacedOnce ==
  /\ \A s \in Statuses : \A i \in DOMAIN rings[s] : rings[s][i] # Nil =>
       /\ Placed(rings[s][i], s)
       /\ \A t \in Statuses : \A j \in DOMAIN rings[t] : rings[t][j] = rings[s][i] => s = t /\ i = j
  /\ \A q \in Runs : \A h \in todo[q] :
       /\ Placed(h[1], h[2]) /\ h[1] \notin InRings
       /\ \A other \in todo[q] : other[1] = h[1] => other = h
       /\ h[2] \in Final => status[h[1]] = h[2] /\ (h[1] \in aged \/ db[h[1]] = h[2])
  /\ \A id \in Pending : id # Nil => pc[id] = "done"

\* The runs that ended in s whose rows are there to stay, or for which nothing has to be kept.
Kept(s) == {r \in EndedIn(s) : r \in lost \union aged \/ (db[r] = s /\ r \notin Pending)}

\* Each slot of a ring stands for a run of its own: the one whose id it has, or, if it has none,
\* one whose row was never written.
SlotsOf(s, f) ==
  /\ f \in [DOMAIN rings[s] -> Kept(s)]
  /\ \A i, j \in DOMAIN rings[s] : f[i] = f[j] => i = j
  /\ \A i \in DOMAIN rings[s] : IF rings[s][i] = Nil THEN f[i] \notin saved ELSE f[i] = rings[s][i]
Slots(s) == \E f \in [DOMAIN rings[s] -> Kept(s)] : SlotsOf(s, f)

\* Either nothing was given up of a status, or there are as many as are to be kept.
Enough(s) ==
  \/ EndedIn(s) \subseteq Kept(s)
  \/ \E f \in [1 .. Count(s) -> Kept(s)] : \A i, j \in 1 .. Count(s) : f[i] = f[j] => i = j

Tracked(r) ==
  \/ r \in InRings \union Pending \union dropped
  \/ pc[r] \in {"running", "adding"}
  \/ \E q \in Runs : \E h \in todo[q] : h[1] = r
Filled == initialized \/ \E p \in Runs : pc[p] = "populating"
RowsTracked == Filled => \A r \in Runs : db[r] # None => Tracked(r)

HistoryInv ==
  /\ TypeOK /\ InitAlone /\ EmptyUntilFilled /\ RowsFollowHistories /\ PlacedOnce
  /\ \A s \in Final : Slots(s) /\ Enough(s)
  /\ RowsTracked

-----------------------------------------------------------------------------
(* StatusRing.Add.                                                         *)

LEMMA CountIsNat == ASSUME NEW s \in Statuses PROVE Count(s) \in Nat
  BY HistoryAssumption DEF Count

LEMMA NilIsNoRun == Nil \notin Runs /\ Nil \in Ids
  BY HistoryAssumption DEF Nil, Ids

\* How many ids a ring of s gives up for one more, and which.
Over(s) == IF Len(rings[s]) + 1 > Count(s) THEN 1 ELSE 0
GivenUp(id, s) == IF Over(s) = 0 THEN {} ELSE {IF Len(rings[s]) = 0 THEN id ELSE rings[s][1]}

(* Add: the ring moves on by the ids it gives up.                          *)
LEMMA AddDoes ==
  ASSUME TypeOK, NEW id \in Ids, NEW s \in Statuses, Add(id, s)
  PROVE  /\ Len(rings[s]) \in Nat /\ Over(s) \in {0, 1} /\ (Over(s) = 1 => Len(rings[s]) >= Count(s))
         /\ rings' \in [Statuses -> Seq(Ids)]
         /\ \A t \in Statuses : t # s => rings'[t] = rings[t]
         /\ DOMAIN rings'[s] = 1 .. (Len(rings[s]) + 1 - Over(s))
         /\ \A i \in DOMAIN rings'[s] :
              rings'[s][i] = IF i + Over(s) <= Len(rings[s]) THEN rings[s][i + Over(s)] ELSE id
         /\ evicted' \in Seq(Ids) /\ Len(evicted') <= Capacity
         /\ ToSet(evicted') = ToSet(evicted) \union GivenUp(id, s)
  <1> DEFINE n == Len(rings[s])
             ring == Append(rings[s], id)
  <1>1. rings[s] \in Seq(Ids) /\ n \in Nat /\ Count(s) \in Nat /\ rings \in [Statuses -> Seq(Ids)]
    BY CountIsNat DEF TypeOK
  <1>2. ring \in Seq(Ids) /\ Len(ring) = n + 1 /\ \A i \in 1 .. n + 1 : ring[i] = IF i <= n THEN rings[s][i] ELSE id
    BY <1>1
  <1>3. evicted \in Seq(Ids) /\ Len(evicted) <= Capacity /\ Len(evicted) \in Nat /\ Capacity \in Nat
    BY HistoryAssumption DEF TypeOK
  <1>4. CASE ~(n + 1 > Count(s))
    <2>1. rings' = [rings EXCEPT ![s] = ring] /\ evicted' = evicted
      BY <1>2, <1>4 DEF Add
    <2>2. Over(s) = 0 /\ GivenUp(id, s) = {}
      BY <1>4 DEF Over, GivenUp
    <2>3. rings'[s] = ring /\ DOMAIN ring = 1 .. n + 1
      BY <1>1, <1>2, <2>1
    <2> HIDE DEF ring
    <2> QED
      BY <1>1, <1>2, <1>3, <2>1, <2>2, <2>3
  <1>5. CASE n + 1 > Count(s)
    <2>1. /\ rings' = [rings EXCEPT ![s] = Tail(ring)] /\ evicted' = Append(evicted, Head(ring))
          /\ Len(evicted) < Capacity
      BY <1>2, <1>5 DEF Add
    <2>2. Over(s) = 1 /\ n >= Count(s)
      BY <1>1, <1>5 DEF Over
    <2>3. Head(ring) = (IF n = 0 THEN id ELSE rings[s][1]) /\ Head(ring) \in Ids
      BY <1>1, <1>2
    <2>4. GivenUp(id, s) = {Head(ring)}
      BY <2>2, <2>3 DEF GivenUp
    <2>5. Tail(ring) \in Seq(Ids) /\ DOMAIN Tail(ring) = 1 .. n /\ \A i \in 1 .. n : Tail(ring)[i] = ring[i + 1]
      <3> HIDE DEF ring
      <3> QED
        BY <1>1, <1>2
    <2>6. rings'[s] = Tail(ring) /\ rings' \in [Statuses -> Seq(Ids)] /\ \A t \in Statuses : t # s => rings'[t] = rings[t]
      BY <1>1, <2>1, <2>5
    <2>7. \A i \in 1 .. n : rings'[s][i] = IF i + 1 <= n THEN rings[s][i + 1] ELSE id
      BY <1>1, <1>2, <2>5, <2>6
    <2>8. evicted' \in Seq(Ids) /\ Len(evicted') <= Capacity
      BY <1>3, <2>1, <2>3
    <2>9. ToSet(evicted') = ToSet(evicted) \union {Head(ring)}
      <3> DEFINE h == Head(ring)
      <3> HIDE DEF h
      <3>1. DOMAIN evicted' = 1 .. Len(evicted) + 1 /\ \A i \in DOMAIN evicted' : evicted'[i] = IF i <= Len(evicted) THEN evicted[i] ELSE h
        BY <1>3, <2>1, <2>3 DEF h
      <3>2. DOMAIN evicted = 1 .. Len(evicted)
        BY <1>3
      <3>3. ASSUME NEW x \in ToSet(evicted') PROVE x \in ToSet(evicted) \union {h}
        BY <1>3, <3>1, <3>2 DEF ToSet
      <3>4. ASSUME NEW x \in ToSet(evicted) PROVE x \in ToSet(evicted')
        BY <1>3, <3>1, <3>2 DEF ToSet
      <3>5. h \in ToSet(evicted')
        <4>1. evicted'[Len(evicted) + 1] = h /\ Len(evicted) + 1 \in DOMAIN evicted'
          BY <1>3, <3>1
        <4> QED
          BY <4>1 DEF ToSet
      <3> QED
        BY <3>3, <3>4, <3>5 DEF h
    <2> HIDE DEF ring
    <2> QED
      BY <1>1, <2>2, <2>4, <2>5, <2>6, <2>7, <2>8, <2>9
  <1> QED
    BY <1>4, <1>5

\* The ids in rings are in order: the part of PlacedOnce about them.
RingsInOrder ==
  \A s \in Statuses : \A i \in DOMAIN rings[s] : rings[s][i] # Nil =>
    /\ Placed(rings[s][i], s)
    /\ \A t \in Statuses : \A j \in DOMAIN rings[t] : rings[t][j] = rings[s][i] => s = t /\ i = j

\* The same of a history after a step.
PlacedNext(id, s) ==
  /\ pc'[id] = "done" /\ id \in saved' /\ id \notin Pending'
  /\ db'[id] \in Final => db'[id] = s

\* The history of r is added to the ring of s: r has no id, or one that is in no other place.
Adds(r, id, s) ==
  /\ Add(id, s)
  /\ UNCHANGED <<status, saved, db, batch, lost, aged>>
  /\ pc' = [pc EXCEPT ![r] = "done"]
  /\ IF r \in saved THEN id = r ELSE id = Nil /\ pc[r] # "done"
  /\ r \notin InRings \union Pending
  /\ db[r] \in Final => db[r] = s
  /\ IF s \in Final THEN status[r] = s /\ (r \in lost \union aged \/ db[r] = s) ELSE pc[r] = "done"

LEMMA InRing == ASSUME NEW s \in Statuses, NEW i \in DOMAIN rings[s] PROVE rings[s][i] \in InRings
  BY DEF InRings, ToSet

(* What is in the rings after an Add, and what is not.                     *)
LEMMA AddedRings ==
  ASSUME HistoryInv, NEW r \in Runs, NEW s \in Statuses, NEW id \in Ids, Adds(r, id, s)
  PROVE  /\ Pending' = Pending \union GivenUp(id, s)
         /\ \A i \in DOMAIN rings'[s] :
              \/ i + Over(s) \in DOMAIN rings[s] /\ rings'[s][i] = rings[s][i + Over(s)]
              \/ i + Over(s) = Len(rings[s]) + 1 /\ rings'[s][i] = id
         /\ \A t \in Statuses : \A i \in DOMAIN rings'[t] :
              rings'[t][i] # Nil => rings'[t][i] \notin GivenUp(id, s)
         /\ \A x \in GivenUp(id, s) : x = id \/ \E i \in DOMAIN rings[s] : x = rings[s][i]
  <1> DEFINE n == Len(rings[s])
             k == Over(s)
  <1>1. /\ n \in Nat /\ k \in {0, 1}
        /\ DOMAIN rings'[s] = 1 .. (n + 1 - k)
        /\ \A i \in DOMAIN rings'[s] : rings'[s][i] = IF i + k <= n THEN rings[s][i + k] ELSE id
        /\ \A t \in Statuses : t # s => rings'[t] = rings[t]
        /\ ToSet(evicted') = ToSet(evicted) \union GivenUp(id, s)
    BY AddDoes DEF HistoryInv, Adds
  <1>2. DOMAIN rings[s] = 1 .. n
    BY DEF HistoryInv, TypeOK
  <1>3. Pending' = Pending \union GivenUp(id, s)
    BY <1>1 DEF Pending, Adds
  <1>4. GivenUp(id, s) = IF k = 0 THEN {} ELSE {IF n = 0 THEN id ELSE rings[s][1]}
    BY DEF GivenUp
  <1>5. id = r \/ id = Nil
    BY DEF Adds
  <1>6. \A t \in Statuses : \A i \in DOMAIN rings[t] : rings[t][i] # r
    BY InRing DEF Adds
  <1> HIDE DEF n, k
  <1>7. \A i \in DOMAIN rings'[s] :
          \/ i + k \in DOMAIN rings[s] /\ rings'[s][i] = rings[s][i + k]
          \/ i + k = n + 1 /\ rings'[s][i] = id
    BY <1>1, <1>2
  <1>8. ASSUME NEW t \in Statuses, NEW i \in DOMAIN rings'[t], rings'[t][i] # Nil, rings'[t][i] \in GivenUp(id, s)
        PROVE  FALSE
    <2>1. k = 1 /\ rings'[t][i] = IF n = 0 THEN id ELSE rings[s][1]
      BY <1>1, <1>4, <1>8
    <2>2. CASE n = 0
      <3>1. t # s
        BY <1>1, <2>1, <2>2
      <3>2. rings'[t][i] = r /\ rings'[t] = rings[t]
        BY <1>1, <1>5, <1>8, <2>1, <2>2, <3>1
      <3> QED
        BY <1>6, <3>2
    <2>3. CASE n # 0
      <3>1. rings[s][1] # Nil /\ 1 \in DOMAIN rings[s] /\ rings'[t][i] = rings[s][1]
        BY <1>1, <1>2, <1>8, <2>1, <2>3
      <3>2. \A u \in Statuses : \A j \in DOMAIN rings[u] : rings[u][j] = rings[s][1] => s = u /\ j = 1
        BY <3>1 DEF HistoryInv, PlacedOnce
      <3>3. t = s
        BY <1>1, <3>1, <3>2
      <3>4. rings'[s][i] = id \/ (i + 1 \in DOMAIN rings[s] /\ rings'[s][i] = rings[s][i + 1] /\ i \in Nat)
        BY <1>1, <1>7, <2>1, <3>3
      <3>5. rings'[s][i] # id
        BY <1>5, <1>6, <1>8, <3>1, <3>3
      <3> QED
        BY <1>1, <3>1, <3>2, <3>3, <3>4, <3>5
    <2> QED
      BY <2>2, <2>3
  <1>9. \A x \in GivenUp(id, s) : x = id \/ \E i \in DOMAIN rings[s] : x = rings[s][i]
    <2>1. n # 0 => 1 \in DOMAIN rings[s]
      BY <1>1, <1>2
    <2> QED
      BY <1>4, <2>1
  <1> QED
    BY <1>3, <1>7, <1>8, <1>9 DEF n, k

LEMMA AddedInOrder ==
  ASSUME HistoryInv, NEW r \in Runs, NEW s \in Statuses, NEW id \in Ids, Adds(r, id, s)
  PROVE  /\ RingsInOrder'
         /\ \A x \in Pending' : x # Nil => pc'[x] = "done"
  <1>1. /\ Pending' = Pending \union GivenUp(id, s)
        /\ \A i \in DOMAIN rings'[s] :
              \/ i + Over(s) \in DOMAIN rings[s] /\ rings'[s][i] = rings[s][i + Over(s)]
              \/ i + Over(s) = Len(rings[s]) + 1 /\ rings'[s][i] = id
        /\ \A t \in Statuses : \A i \in DOMAIN rings'[t] :
              rings'[t][i] # Nil => rings'[t][i] \notin GivenUp(id, s)
        /\ \A x \in GivenUp(id, s) : x = id \/ \E i \in DOMAIN rings[s] : x = rings[s][i]
    BY AddedRings
  <1>2. /\ Len(rings[s]) \in Nat /\ Over(s) \in {0, 1}
        /\ DOMAIN rings'[s] = 1 .. (Len(rings[s]) + 1 - Over(s))
        /\ \A t \in Statuses : t # s => rings'[t] = rings[t]
    BY AddDoes DEF HistoryInv, Adds
  <1>3. id = r \/ id = Nil
    BY DEF Adds
  <1>4. \A t \in Statuses : \A i \in DOMAIN rings[t] : rings[t][i] # r
    BY InRing DEF Adds
  <1>5. pc' = [pc EXCEPT ![r] = "done"] /\ pc \in [Runs -> Positions] /\ pc'[r] = "done"
    BY DEF Adds, HistoryInv, TypeOK
  <1>6. \A t \in Statuses : \A i \in DOMAIN rings[t] : rings[t][i] \in Ids
    BY DEF HistoryInv, TypeOK
  <1>7. ASSUME NEW t \in Statuses, NEW i \in DOMAIN rings'[t], rings'[t][i] # Nil
        PROVE  \/ rings'[t][i] = r /\ t = s /\ i + Over(s) = Len(rings[s]) + 1 /\ r \in saved
               \/ t # s /\ i \in DOMAIN rings[t] /\ rings'[t][i] = rings[t][i]
               \/ t = s /\ i + Over(s) \in DOMAIN rings[s] /\ rings'[t][i] = rings[s][i + Over(s)]
    BY <1>1, <1>2, <1>3, <1>7 DEF Adds
  <1>8. RingsInOrder'
    <2> SUFFICES ASSUME NEW t \in Statuses, NEW i \in DOMAIN rings'[t], rings'[t][i] # Nil
                 PROVE  /\ PlacedNext(rings'[t][i], t)
                        /\ \A u \in Statuses : \A j \in DOMAIN rings'[u] : rings'[u][j] = rings'[t][i] => t = u /\ i = j
      BY DEF RingsInOrder, Placed, PlacedNext
    <2> DEFINE x == rings'[t][i]
    <2>1. PlacedNext(x, t)
      <3>1. CASE x = r /\ t = s /\ r \in saved
        <4>1. r \notin Pending /\ (db[r] \in Final => db[r] = s) /\ UNCHANGED <<saved, db>>
          BY DEF Adds
        <4> QED
          BY <1>1, <1>5, <3>1, <4>1 DEF PlacedNext
      <3>2. ASSUME NEW j \in DOMAIN rings[t], x = rings[t][j] PROVE PlacedNext(x, t)
        <4>1. Placed(x, t) /\ x \in Runs
          BY <1>6, <3>2 DEF HistoryInv, PlacedOnce, Ids
        <4>2. x \notin Pending' /\ UNCHANGED <<saved, db>> /\ pc'[x] = "done"
          BY <1>1, <1>5, <4>1 DEF Placed, Adds
        <4> QED
          BY <4>1, <4>2 DEF Placed, PlacedNext
      <3> QED
        BY <1>7, <3>1, <3>2
    <2>2. ASSUME NEW u \in Statuses, NEW j \in DOMAIN rings'[u], rings'[u][j] = rings'[t][i]
          PROVE  t = u /\ i = j
      <3>1. \A v \in Statuses, w \in Statuses : \A a \in DOMAIN rings[v], b \in DOMAIN rings[w] :
               rings[v][a] = rings[w][b] /\ rings[v][a] # Nil => v = w /\ a = b
        BY DEF HistoryInv, PlacedOnce
      <3>2. i \in Int /\ (u = s => j \in Int) /\ (t = s => i \in Int)
        <4>1. t # s => DOMAIN rings[t] = 1 .. Len(rings[t]) /\ Len(rings[t]) \in Nat
          BY DEF HistoryInv, TypeOK
        <4> QED
          BY <1>2, <4>1
      <3> QED
        BY <1>2, <1>4, <1>7, <2>2, <3>1, <3>2
    <2> QED
      BY <2>1, <2>2
  <1>9. ASSUME NEW x \in Pending', x # Nil PROVE pc'[x] = "done"
    <2>1. x \in Ids
      <3>1. Pending \subseteq Ids
        <4>1. evicted \in Seq(Ids) /\ batch \subseteq Ids
          BY DEF HistoryInv, TypeOK
        <4> QED
          BY <4>1 DEF Pending, ToSet
      <3> QED
        BY <1>1, <1>6, <3>1
    <2>2. x = r \/ pc[x] = "done"
      BY <1>1, <1>3, <1>9 DEF HistoryInv, PlacedOnce, Placed
    <2> QED
      BY <1>5, <1>9, <2>1, <2>2 DEF Ids
  <1> QED
    BY <1>8, <1>9

(* What is kept stays so, but for what was given up of s itself.           *)
LEMMA AddedKept ==
  ASSUME HistoryInv, NEW r \in Runs, NEW s \in Statuses, NEW id \in Ids, Adds(r, id, s)
  PROVE  /\ \A t \in Final : t # s => EndedIn(t)' = EndedIn(t) /\ Kept(t) \subseteq Kept(t)'
         /\ s \in Final => /\ EndedIn(s)' = EndedIn(s) \union {r}
                           /\ \A x \in Kept(s) : x \in GivenUp(id, s) \/ x \in Kept(s)'
                           /\ r \in GivenUp(id, s) \/ r \in Kept(s)'
  <1>1. /\ Pending' = Pending \union GivenUp(id, s)
        /\ \A x \in GivenUp(id, s) : x = id \/ \E i \in DOMAIN rings[s] : x = rings[s][i]
    BY AddedRings
  <1>2. UNCHANGED <<status, saved, db, batch, lost, aged>> /\ pc' = [pc EXCEPT ![r] = "done"] /\ pc \in [Runs -> Positions]
    BY DEF Adds, HistoryInv, TypeOK
  <1>3. ASSUME NEW x \in GivenUp(id, s), x \in Runs PROVE db[x] \in Final => db[x] = s
    <2>1. CASE x = id
      BY <1>3, <2>1, NilIsNoRun DEF Adds
    <2>2. CASE \E i \in DOMAIN rings[s] : x = rings[s][i]
      BY <1>3, <2>2, NilIsNoRun DEF HistoryInv, PlacedOnce, Placed
    <2> QED
      BY <1>1, <1>3, <2>1, <2>2
  <1>4. ASSUME NEW t \in Final, t # s PROVE EndedIn(t)' = EndedIn(t)
    <2>1. CASE s \in Final
      BY <1>2, <1>4, <2>1 DEF EndedIn, Adds
    <2>2. CASE s \notin Final
      BY <1>2, <2>2 DEF EndedIn, Adds
    <2> QED
      BY <2>1, <2>2
  <1>5. ASSUME NEW t \in Final, t # s, NEW x \in Kept(t) PROVE x \in Kept(t)'
    BY <1>1, <1>2, <1>3, <1>4, <1>5 DEF Kept, EndedIn
  <1>6. ASSUME s \in Final PROVE EndedIn(s)' = EndedIn(s) \union {r}
    BY <1>2, <1>6 DEF EndedIn, Adds
  <1>7. ASSUME s \in Final, NEW x \in Kept(s) PROVE x \in GivenUp(id, s) \/ x \in Kept(s)'
    BY <1>1, <1>2, <1>6, <1>7 DEF Kept
  <1>8. ASSUME s \in Final PROVE r \in GivenUp(id, s) \/ r \in Kept(s)'
    BY <1>1, <1>2, <1>6, <1>8 DEF Kept, Adds
  <1> QED
    BY <1>4, <1>5, <1>6, <1>7, <1>8

(* The slots of the ring that was added to: each moves on with its run.    *)
LEMMA AddedSlots ==
  ASSUME HistoryInv, NEW r \in Runs, NEW s \in Final, NEW id \in Ids, Adds(r, id, s)
  PROVE  \E f \in [DOMAIN rings'[s] -> Kept(s)'] :
           /\ \A i, j \in DOMAIN rings'[s] : f[i] = f[j] => i = j
           /\ \A i \in DOMAIN rings'[s] : IF rings'[s][i] = Nil THEN f[i] \notin saved' ELSE f[i] = rings'[s][i]
  <1> DEFINE n == Len(rings[s])
             k == Over(s)
  <1>1. /\ \A i \in DOMAIN rings'[s] :
              \/ i + k \in DOMAIN rings[s] /\ rings'[s][i] = rings[s][i + k]
              \/ i + k = n + 1 /\ rings'[s][i] = id
        /\ \A i \in DOMAIN rings'[s] : rings'[s][i] # Nil => rings'[s][i] \notin GivenUp(id, s)
        /\ \A x \in GivenUp(id, s) : x = id \/ \E i \in DOMAIN rings[s] : x = rings[s][i]
    BY AddedRings DEF Statuses
  <1>2. n \in Nat /\ k \in {0, 1} /\ DOMAIN rings'[s] = 1 .. (n + 1 - k)
    BY AddDoes DEF HistoryInv, Adds, Statuses
  <1>3. DOMAIN rings[s] = 1 .. n
    BY DEF HistoryInv, TypeOK, Statuses
  <1>4. PICK f \in [DOMAIN rings[s] -> Kept(s)] : SlotsOf(s, f)
    BY DEF HistoryInv, Slots
  <1>5. ASSUME NEW i \in DOMAIN rings[s] PROVE f[i] # r
    <2>1. f[i] \in Kept(s) /\ IF rings[s][i] = Nil THEN f[i] \notin saved ELSE f[i] = rings[s][i]
      BY <1>4 DEF SlotsOf
    <2>2. rings[s][i] # r
      BY InRing DEF Adds, Statuses
    <2>3. pc[f[i]] = "done"
      BY <2>1 DEF Kept, EndedIn
    <2> QED
      BY <2>1, <2>2, <2>3 DEF Adds
  <1> HIDE DEF n, k
  <1> DEFINE g == [i \in DOMAIN rings'[s] |-> IF i + k <= n THEN f[i + k] ELSE r]
  <1>6. /\ \A x \in Kept(s) : x \in GivenUp(id, s) \/ x \in Kept(s)'
        /\ r \in GivenUp(id, s) \/ r \in Kept(s)'
    BY AddedKept DEF Statuses
  <1>7. ASSUME NEW i \in DOMAIN rings'[s]
        PROVE  /\ i \in Nat
               /\ IF rings'[s][i] = Nil THEN g[i] \notin saved' ELSE g[i] = rings'[s][i]
               /\ g[i] \in Kept(s)'
               /\ i + k <= n => i + k \in DOMAIN rings[s] /\ g[i] = f[i + k]
               /\ ~(i + k <= n) => g[i] = r /\ i + k = n + 1
    <2>1. i \in Nat /\ (i + k <= n => i + k \in DOMAIN rings[s]) /\ (~(i + k <= n) => i + k = n + 1)
      BY <1>2, <1>3
    <2>2. /\ i + k <= n => rings'[s][i] = rings[s][i + k]
          /\ ~(i + k <= n) => rings'[s][i] = id
      BY <1>1, <1>2, <1>3, <2>1
    <2>3. saved' = saved /\ (IF r \in saved THEN id = r ELSE id = Nil)
      BY DEF Adds
    <2>4. IF rings'[s][i] = Nil THEN g[i] \notin saved' ELSE g[i] = rings'[s][i]
      <3>1. CASE i + k <= n
        BY <1>4, <2>1, <2>2, <2>3, <3>1 DEF SlotsOf
      <3>2. CASE ~(i + k <= n)
        BY <2>1, <2>2, <2>3, <3>2, NilIsNoRun
      <3> QED
        BY <3>1, <3>2
    <2>5. g[i] \in Kept(s) \/ g[i] = r
      BY <1>4, <2>1
    <2>6. g[i] \notin GivenUp(id, s) \/ g[i] \in Kept(s)'
      <3>1. CASE rings'[s][i] # Nil
        BY <1>1, <2>4, <3>1
      <3>2. CASE rings'[s][i] = Nil
        <4>1. g[i] \notin saved /\ g[i] \in Runs
          BY <2>3, <2>4, <2>5, <3>2 DEF Kept, EndedIn
        <4>2. g[i] # id
          BY <2>3, <4>1, NilIsNoRun
        <4>3. \A j \in DOMAIN rings[s] : g[i] # rings[s][j]
          BY <4>1, NilIsNoRun DEF HistoryInv, PlacedOnce, Placed, Statuses
        <4> QED
          BY <1>1, <4>2, <4>3
      <3> QED
        BY <3>1, <3>2
    <2>7. g[i] \in Kept(s)'
      BY <1>6, <2>5, <2>6
    <2> QED
      BY <2>1, <2>4, <2>7
  <1>8. g \in [DOMAIN rings'[s] -> Kept(s)']
    BY <1>7
  <1>9. \A i, j \in DOMAIN rings'[s] : g[i] = g[j] => i = j
    <2> SUFFICES ASSUME NEW i \in DOMAIN rings'[s], NEW j \in DOMAIN rings'[s], g[i] = g[j] PROVE i = j
      OBVIOUS
    <2> HIDE DEF g
    <2>1. /\ i \in Nat /\ j \in Nat
          /\ i + k <= n => i + k \in DOMAIN rings[s] /\ g[i] = f[i + k]
          /\ ~(i + k <= n) => g[i] = r /\ i + k = n + 1
          /\ j + k <= n => j + k \in DOMAIN rings[s] /\ g[j] = f[j + k]
          /\ ~(j + k <= n) => g[j] = r /\ j + k = n + 1
      BY <1>7
    <2>2. i + k = j + k
      BY <1>4, <1>5, <2>1 DEF SlotsOf
    <2> QED
      BY <1>2, <2>1, <2>2
  <1> HIDE DEF g
  <1> QED
    BY <1>7, <1>8, <1>9

(* A status nothing happens to: what is kept may only become more.         *)
LEMMA SlotsStay ==
  ASSUME NEW t \in Final, Slots(t), Enough(t), UNCHANGED rings[t], EndedIn(t)' \subseteq EndedIn(t),
         Kept(t) \subseteq Kept(t)', \A x \in Kept(t) : x \in saved' => x \in saved
  PROVE  Slots(t)' /\ Enough(t)'
  <1>1. Slots(t)'
    <2>1. PICK f \in [DOMAIN rings[t] -> Kept(t)] : SlotsOf(t, f)
      BY DEF Slots
    <2>2. f \in [DOMAIN rings'[t] -> Kept(t)']
      BY <2>1
    <2>3. \A i \in DOMAIN rings'[t] : IF rings'[t][i] = Nil THEN f[i] \notin saved' ELSE f[i] = rings'[t][i]
      BY <2>1 DEF SlotsOf
    <2> QED
      BY <2>1, <2>2, <2>3 DEF Slots, SlotsOf
  <1>2. Enough(t)'
    <2>1. CASE EndedIn(t) \subseteq Kept(t)
      BY <2>1 DEF Enough
    <2>2. CASE \E f \in [1 .. Count(t) -> Kept(t)] : \A i, j \in 1 .. Count(t) : f[i] = f[j] => i = j
      <3>1. PICK f \in [1 .. Count(t) -> Kept(t)] : \A i, j \in 1 .. Count(t) : f[i] = f[j] => i = j
        BY <2>2
      <3>2. f \in [1 .. Count(t) -> Kept(t)']
        BY <3>1
      <3> QED
        BY <3>1, <3>2 DEF Enough, Count
    <2> QED
      BY <2>1, <2>2 DEF Enough
  <1> QED
    BY <1>1, <1>2

LEMMA AddedEnough ==
  ASSUME HistoryInv, NEW r \in Runs, NEW s \in Statuses, NEW id \in Ids, Adds(r, id, s)
  PROVE  \A t \in Final : Slots(t)' /\ Enough(t)'
  <1>1. /\ Len(rings[s]) \in Nat /\ Over(s) \in {0, 1} /\ (Over(s) = 1 => Len(rings[s]) >= Count(s))
        /\ DOMAIN rings'[s] = 1 .. (Len(rings[s]) + 1 - Over(s))
        /\ \A t \in Statuses : t # s => rings'[t] = rings[t]
    BY AddDoes DEF HistoryInv, Adds
  <1>2. ASSUME NEW t \in Final, t # s PROVE Slots(t)' /\ Enough(t)'
    <2>1. EndedIn(t)' = EndedIn(t) /\ Kept(t) \subseteq Kept(t)'
      BY <1>2, AddedKept
    <2>2. Slots(t) /\ Enough(t) /\ UNCHANGED <<rings[t], saved>>
      BY <1>1, <1>2 DEF HistoryInv, Adds, Statuses
    <2> QED
      BY <2>1, <2>2, SlotsStay
  <1>3. ASSUME s \in Final PROVE Slots(s)' /\ Enough(s)'
    <2>1. PICK f \in [DOMAIN rings'[s] -> Kept(s)'] :
             /\ \A i, j \in DOMAIN rings'[s] : f[i] = f[j] => i = j
             /\ \A i \in DOMAIN rings'[s] : IF rings'[s][i] = Nil THEN f[i] \notin saved' ELSE f[i] = rings'[s][i]
      BY <1>3, AddedSlots
    <2>2. Slots(s)'
      BY <2>1 DEF Slots, SlotsOf
    <2>3. CASE Over(s) = 1
      <3>1. 1 .. Count(s) \subseteq DOMAIN rings'[s]
        BY <1>1, <2>3, CountIsNat
      <3> DEFINE g == [i \in 1 .. Count(s) |-> f[i]]
      <3>2. g \in [1 .. Count(s) -> Kept(s)']
        BY <2>1, <3>1
      <3>3. \A i, j \in 1 .. Count(s) : g[i] = g[j] => i = j
        BY <2>1, <3>1
      <3> HIDE DEF g
      <3> QED
        BY <2>2, <3>2, <3>3 DEF Enough, Count
    <2>4. CASE Over(s) = 0
      <3>1. GivenUp(id, s) = {}
        BY <2>4 DEF GivenUp
      <3>2. EndedIn(s)' = EndedIn(s) \union {r} /\ Kept(s) \subseteq Kept(s)' /\ r \in Kept(s)'
        BY <1>3, <3>1, AddedKept
      <3>3. CASE EndedIn(s) \subseteq Kept(s)
        BY <2>2, <3>2, <3>3 DEF Enough
      <3>4. CASE \E g \in [1 .. Count(s) -> Kept(s)] : \A i, j \in 1 .. Count(s) : g[i] = g[j] => i = j
        <4>1. PICK g \in [1 .. Count(s) -> Kept(s)] : \A i, j \in 1 .. Count(s) : g[i] = g[j] => i = j
          BY <3>4
        <4>2. g \in [1 .. Count(s) -> Kept(s)']
          BY <3>2, <4>1
        <4> QED
          BY <2>2, <4>1, <4>2 DEF Enough, Count
      <3> QED
        BY <1>3, <3>3, <3>4 DEF HistoryInv, Enough
    <2> QED
      BY <1>1, <2>3, <2>4
  <1> QED
    BY <1>2, <1>3

LEMMA AddedPlaces ==
  ASSUME HistoryInv, NEW r \in Runs, NEW s \in Statuses, NEW id \in Ids, Adds(r, id, s)
  PROVE  /\ InRings \union Pending \union {id} \subseteq (InRings \union Pending)'
         /\ InRings' \subseteq InRings \union {id}
         /\ Pending' \subseteq Pending \union InRings \union {id}
  <1> DEFINE n == Len(rings[s])
             k == Over(s)
  <1>1. /\ n \in Nat /\ k \in {0, 1}
        /\ DOMAIN rings'[s] = 1 .. (n + 1 - k)
        /\ \A i \in DOMAIN rings'[s] : rings'[s][i] = IF i + k <= n THEN rings[s][i + k] ELSE id
        /\ \A t \in Statuses : t # s => rings'[t] = rings[t]
    BY AddDoes DEF HistoryInv, Adds
  <1>2. DOMAIN rings[s] = 1 .. n
    BY DEF HistoryInv, TypeOK
  <1>3. /\ Pending' = Pending \union GivenUp(id, s)
        /\ \A x \in GivenUp(id, s) : x = id \/ \E i \in DOMAIN rings[s] : x = rings[s][i]
    BY AddedRings
  <1>4. GivenUp(id, s) = IF k = 0 THEN {} ELSE {IF n = 0 THEN id ELSE rings[s][1]}
    BY DEF GivenUp
  <1> HIDE DEF n, k
  <1>5. ASSUME NEW i \in DOMAIN rings[s] PROVE rings[s][i] \in ToSet(rings'[s]) \union GivenUp(id, s)
    <2>1. CASE i - k \in DOMAIN rings'[s]
      <3>1. rings'[s][i - k] = rings[s][i]
        BY <1>1, <1>2, <2>1
      <3> QED
        BY <2>1, <3>1 DEF ToSet
    <2>2. CASE i - k \notin DOMAIN rings'[s]
      <3>1. k = 1 /\ i = 1 /\ n # 0
        BY <1>1, <1>2, <2>2
      <3> QED
        BY <1>4, <3>1
    <2> QED
      BY <2>1, <2>2
  <1>6. id \in ToSet(rings'[s]) \union GivenUp(id, s)
    <2>1. CASE k = 1 /\ n = 0
      BY <1>4, <2>1
    <2>2. CASE ~(k = 1 /\ n = 0)
      <3>1. n + 1 - k \in DOMAIN rings'[s] /\ rings'[s][n + 1 - k] = id
        BY <1>1, <2>2
      <3> QED
        BY <3>1 DEF ToSet
    <2> QED
      BY <2>1, <2>2
  <1>7. ToSet(rings'[s]) \subseteq InRings'
    BY DEF InRings
  <1>8. ASSUME NEW x \in InRings PROVE x \in (InRings \union Pending)'
    <2>1. PICK t \in Statuses : x \in ToSet(rings[t])
      BY DEF InRings
    <2>2. CASE t # s
      BY <1>1, <2>1, <2>2 DEF InRings
    <2>3. CASE t = s
      <3>1. PICK i \in DOMAIN rings[s] : x = rings[s][i]
        BY <2>1, <2>3 DEF ToSet
      <3> QED
        BY <1>3, <1>5, <1>7, <3>1
    <2> QED
      BY <2>2, <2>3
  <1>9. ASSUME NEW x \in InRings' PROVE x \in InRings \union {id}
    <2>1. PICK t \in Statuses : x \in ToSet(rings'[t])
      BY DEF InRings
    <2>2. CASE t # s
      BY <1>1, <2>1, <2>2 DEF InRings
    <2>3. CASE t = s
      <3>1. PICK i \in DOMAIN rings'[s] : x = rings'[s][i]
        BY <2>1, <2>3 DEF ToSet
      <3>2. x = id \/ (i + k \in DOMAIN rings[s] /\ x = rings[s][i + k])
        BY <1>1, <1>2, <3>1
      <3> QED
        BY <3>2, InRing
    <2> QED
      BY <2>2, <2>3
  <1>10. Pending' \subseteq Pending \union InRings \union {id}
    BY <1>3, InRing
  <1> QED
    BY <1>3, <1>6, <1>7, <1>8, <1>9, <1>10

LEMMA PendingIds == ASSUME TypeOK PROVE Pending \subseteq Ids /\ InRings \subseteq Ids
  <1>1. evicted \in Seq(Ids) /\ batch \subseteq Ids /\ \A s \in Statuses : rings[s] \in Seq(Ids)
    BY DEF TypeOK
  <1> QED
    BY <1>1 DEF Pending, InRings, ToSet

LEMMA PlacedParts ==
  PlacedOnce <=>
    /\ RingsInOrder
    /\ \A q \in Runs : \A h \in todo[q] :
         /\ Placed(h[1], h[2]) /\ h[1] \notin InRings
         /\ \A other \in todo[q] : other[1] = h[1] => other = h
         /\ h[2] \in Final => status[h[1]] = h[2] /\ (h[1] \in aged \/ db[h[1]] = h[2])
    /\ \A id \in Pending : id # Nil => pc[id] = "done"
  BY DEF PlacedOnce, RingsInOrder

-----------------------------------------------------------------------------
(* The end of a run.                                                       *)

LEMMA AddEndedInv == ASSUME HistoryInv, NEW r \in Runs, AddEnded(r) PROVE HistoryInv'
  <1> DEFINE id == IF r \in saved THEN r ELSE Nil
  <1>1. /\ pc[r] = "adding" /\ Add(id, status[r]) /\ pc' = [pc EXCEPT ![r] = "done"]
        /\ UNCHANGED <<started, status, saved, db, initialized, todo, batch, dropped, lost, aged, faults>>
    BY DEF AddEnded, Goto
  <1>2. TypeOK /\ pc \in [Runs -> Positions] /\ saved \subseteq Runs /\ initialized
    BY <1>1 DEF HistoryInv, TypeOK, InitAlone, AtWork
  <1>3. status[r] \in Final /\ (r \in lost \union aged \/ db[r] = status[r]) /\ (db[r] \in Final => db[r] = status[r])
    BY <1>1 DEF HistoryInv, RowsFollowHistories
  <1>4. status[r] \in Statuses /\ id \in Ids
    BY <1>3, NilIsNoRun DEF Statuses, Ids
  <1>5. r \notin InRings \union Pending
    <2>1. ASSUME NEW s \in Statuses, NEW i \in DOMAIN rings[s] PROVE rings[s][i] # r
      BY <1>1, NilIsNoRun DEF HistoryInv, PlacedOnce, Placed
    <2>2. r \notin InRings
      BY <2>1 DEF InRings, ToSet
    <2> QED
      BY <1>1, <2>2, NilIsNoRun DEF HistoryInv, PlacedOnce
  <1>6. Adds(r, id, status[r])
    BY <1>1, <1>3, <1>5 DEF Adds
  <1> HIDE DEF id
  <1>7. TypeOK'
    <2>1. rings' \in [Statuses -> Seq(Ids)] /\ evicted' \in Seq(Ids) /\ Len(evicted') <= Capacity
      BY <1>1, <1>2, <1>4, AddDoes
    <2>2. pc' \in [Runs -> Positions]
      BY <1>1, <1>2 DEF Positions
    <2> QED
      BY <1>1, <1>2, <2>1, <2>2 DEF TypeOK
  <1>8. InitAlone' /\ EmptyUntilFilled'
    BY <1>1, <1>2 DEF HistoryInv, InitAlone, EmptyUntilFilled, Initializing, AtWork
  <1>9. RowsFollowHistories'
    BY <1>1, <1>2 DEF HistoryInv, RowsFollowHistories, Initializing
  <1>10. \A q \in Runs : todo'[q] = {}
    BY <1>1, <1>2 DEF HistoryInv, InitAlone, Initializing
  <1>11. PlacedOnce'
    <2>1. RingsInOrder' /\ \A x \in Pending' : x # Nil => pc'[x] = "done"
      BY <1>4, <1>6, AddedInOrder
    <2> QED
      BY <1>10, <2>1 DEF PlacedOnce, RingsInOrder
  <1>12. \A s \in Final : Slots(s)' /\ Enough(s)'
    BY <1>4, <1>6, AddedEnough
  <1>13. RowsTracked'
    <2>1. InRings \union Pending \union {id} \subseteq (InRings \union Pending)'
      BY <1>4, <1>6, AddedPlaces
    <2> SUFFICES ASSUME NEW q \in Runs, db'[q] # None PROVE Tracked(q)'
      BY DEF RowsTracked
    <2>2. CASE q = r
      <3>1. id = r
        BY <1>1, <2>2 DEF id, HistoryInv, RowsFollowHistories
      <3> QED
        BY <2>1, <2>2, <3>1 DEF Tracked
    <2>3. CASE q # r
      <3>1. Tracked(q) /\ pc'[q] = pc[q]
        BY <1>1, <1>2, <2>3 DEF HistoryInv, RowsTracked, Filled
      <3> QED
        BY <1>1, <2>1, <3>1 DEF Tracked
    <2> QED
      BY <2>2, <2>3
  <1> QED
    BY <1>7, <1>8, <1>9, <1>11, <1>12, <1>13 DEF HistoryInv

LEMMA PopulateInv == ASSUME HistoryInv, NEW r \in Runs, Populate(r) PROVE HistoryInv'
  <1>1. PICK h \in todo[r] : Add(h[1], h[2]) /\ todo' = [todo EXCEPT ![r] = @ \ {h}]
    BY DEF Populate
  <1>2. /\ pc[r] = "populating"
        /\ UNCHANGED <<pc, started, status, saved, db, initialized, batch, dropped, lost, aged, faults>>
    BY DEF Populate
  <1>3. TypeOK /\ todo \in [Runs -> SUBSET (Runs \X Statuses)] /\ pc \in [Runs -> Positions]
    BY DEF HistoryInv, TypeOK
  <1>4. h[1] \in Runs /\ h[2] \in Statuses /\ h[1] \in Ids
    BY <1>1, <1>3 DEF Ids
  <1>5. /\ Placed(h[1], h[2]) /\ h[1] \notin InRings
        /\ \A other \in todo[r] : other[1] = h[1] => other = h
        /\ h[2] \in Final => status[h[1]] = h[2] /\ (h[1] \in aged \/ db[h[1]] = h[2])
    BY <1>1 DEF HistoryInv, PlacedOnce
  <1>6. pc' = [pc EXCEPT ![h[1]] = "done"]
    BY <1>2, <1>3, <1>4, <1>5 DEF Placed
  <1>7. Adds(h[1], h[1], h[2])
    BY <1>1, <1>2, <1>5, <1>6 DEF Adds, Placed
  <1>8. TypeOK'
    <2>1. rings' \in [Statuses -> Seq(Ids)] /\ evicted' \in Seq(Ids) /\ Len(evicted') <= Capacity
      BY <1>1, <1>3, <1>4, AddDoes
    <2>2. todo' \in [Runs -> SUBSET (Runs \X Statuses)]
      BY <1>1, <1>3
    <2> QED
      BY <1>2, <1>3, <2>1, <2>2 DEF TypeOK
  <1>9. InitAlone' /\ EmptyUntilFilled'
    BY <1>1, <1>2, <1>3 DEF HistoryInv, InitAlone, EmptyUntilFilled
  <1>10. RowsFollowHistories'
    BY <1>2 DEF HistoryInv, RowsFollowHistories
  <1>11. PlacedOnce'
    <2>1. RingsInOrder' /\ \A x \in Pending' : x # Nil => pc'[x] = "done"
      BY <1>4, <1>7, AddedInOrder
    <2>2. ASSUME NEW q \in Runs, NEW g \in todo'[q]
          PROVE  /\ PlacedNext(g[1], g[2]) /\ g[1] \notin InRings'
                 /\ \A other \in todo'[q] : other[1] = g[1] => other = g
                 /\ g[2] \in Final => status'[g[1]] = g[2] /\ (g[1] \in aged' \/ db'[g[1]] = g[2])
      <3>1. q = r /\ g \in todo[r] /\ g # h /\ todo'[q] \subseteq todo[r]
        BY <1>1, <1>2, <1>3, <2>2 DEF HistoryInv, InitAlone, Initializing
      <3>2. /\ Placed(g[1], g[2]) /\ g[1] \notin InRings
            /\ \A other \in todo[r] : other[1] = g[1] => other = g
            /\ g[2] \in Final => status[g[1]] = g[2] /\ (g[1] \in aged \/ db[g[1]] = g[2])
        BY <3>1 DEF HistoryInv, PlacedOnce
      <3>3. g[1] # h[1]
        BY <1>1, <3>1, <3>2
      <3>4. g[1] \notin InRings' /\ g[1] \notin Pending'
        BY <1>4, <1>7, <3>2, <3>3, AddedPlaces DEF Placed
      <3> QED
        BY <1>2, <3>1, <3>2, <3>4 DEF Placed, PlacedNext
    <2> QED
      BY <2>1, <2>2 DEF PlacedOnce, RingsInOrder, Placed, PlacedNext
  <1>12. \A s \in Final : Slots(s)' /\ Enough(s)'
    BY <1>4, <1>7, AddedEnough
  <1>13. RowsTracked'
    <2>1. InRings \union Pending \union {h[1]} \subseteq (InRings \union Pending)'
      BY <1>4, <1>7, AddedPlaces
    <2> SUFFICES ASSUME NEW q \in Runs, db'[q] # None PROVE Tracked(q)'
      BY DEF RowsTracked
    <2>2. Tracked(q)
      BY <1>2 DEF HistoryInv, RowsTracked, Filled
    <2>3. CASE \E p \in Runs : \E g \in todo[p] : g[1] = q
      <3>1. PICK p \in Runs : \E g \in todo[p] : g[1] = q
        BY <2>3
      <3>2. PICK g \in todo[p] : g[1] = q
        BY <3>1
      <3>3. CASE g = h
        BY <2>1, <3>2, <3>3 DEF Tracked
      <3>4. CASE g # h
        <4>1. g \in todo'[p]
          BY <1>1, <1>3, <3>2, <3>4
        <4> QED
          BY <3>2, <4>1 DEF Tracked
      <3> QED
        BY <3>3, <3>4
    <2>4. CASE ~ \E p \in Runs : \E g \in todo[p] : g[1] = q
      BY <1>2, <2>1, <2>2, <2>4 DEF Tracked
    <2> QED
      BY <2>3, <2>4
  <1> QED
    BY <1>8, <1>9, <1>10, <1>11, <1>12, <1>13 DEF HistoryInv

-----------------------------------------------------------------------------
(* Initialisation.                                                         *)

(* Steps that leave rows, rings and the way out of them alone.             *)
LEMMA QuietSlots ==
  ASSUME HistoryInv, UNCHANGED <<status, saved, db, rings, evicted, batch, lost, aged>>,
         NEW r \in Runs, pc' = [pc EXCEPT ![r] = pc'[r]], status[r] \in Final => pc'[r] = pc[r]
  PROVE  /\ \A s \in Final : Slots(s)' /\ Enough(s)'
         /\ InRings' = InRings /\ Pending' = Pending
  <1>1. InRings' = InRings /\ Pending' = Pending
    BY DEF InRings, Pending
  <1>2. ASSUME NEW s \in Final PROVE Slots(s)' /\ Enough(s)'
    <2>1. pc \in [Runs -> Positions] /\ rings' = rings
      BY DEF HistoryInv, TypeOK
    <2>2. EndedIn(s)' = EndedIn(s)
      BY <2>1 DEF EndedIn
    <2>3. Kept(s)' = Kept(s)
      BY <1>1, <2>2 DEF Kept
    <2>4. Slots(s) /\ Enough(s) /\ UNCHANGED rings[s]
      BY <2>1 DEF HistoryInv
    <2> QED
      BY <2>2, <2>3, <2>4, SlotsStay
  <1> QED
    BY <1>1, <1>2

(* ... and histories that are still to be added.                           *)
LEMMA QuietPlaces ==
  ASSUME HistoryInv, UNCHANGED <<status, saved, db, rings, evicted, batch, aged, todo>>,
         \A q \in Runs : pc[q] = "done" => pc'[q] = "done"
  PROVE  PlacedOnce'
  <1>1. InRings' = InRings /\ Pending' = Pending /\ PlacedOnce /\ TypeOK
    BY DEF InRings, Pending, HistoryInv
  <1>2. \A id \in Ids, s \in Statuses : Placed(id, s) /\ id # Nil => Placed(id, s)'
    BY <1>1 DEF Placed, Ids
  <1>3. RingsInOrder'
    <2>1. \A s \in Statuses : \A i \in DOMAIN rings[s] : rings[s][i] \in Ids
      BY <1>1 DEF TypeOK
    <2> QED
      BY <1>1, <1>2, <2>1 DEF RingsInOrder, PlacedOnce
  <1>4. \A q \in Runs : \A h \in todo[q] : h[1] \in Runs /\ h[2] \in Statuses
    BY <1>1 DEF TypeOK
  <1>5. \A q \in Runs : \A h \in todo[q] : Placed(h[1], h[2])'
    BY <1>1, <1>2, <1>4, NilIsNoRun DEF PlacedOnce, Ids
  <1>6. \A id \in Pending' : id # Nil => pc'[id] = "done"
    BY <1>1, PendingIds DEF PlacedOnce, Ids
  <1> QED
    BY <1>1, <1>3, <1>5, <1>6 DEF PlacedOnce, RingsInOrder

LEMMA BeginInv == ASSUME ~Concurrent, HistoryInv, NEW r \in Runs, Begin(r) PROVE HistoryInv'
  <1>1. /\ pc[r] = "idle" /\ pc' = [pc EXCEPT ![r] = IF initialized THEN "starting" ELSE "init"]
        /\ \A q \in Runs : pc[q] \notin Initializing
        /\ UNCHANGED <<started, status, saved, db, initialized, rings, evicted, batch, dropped, todo, lost, aged, faults>>
    BY DEF Begin, Goto, memory, Initializing
  <1>2. TypeOK /\ pc \in [Runs -> Positions]
    BY DEF HistoryInv, TypeOK
  <1>3. TypeOK'
    BY <1>1, <1>2 DEF TypeOK, Positions
  <1>4. InitAlone'
    <2>1. \A p \in Runs : pc[p] \in AtWork => initialized
      BY DEF HistoryInv, InitAlone
    <2>2. \A p \in Runs : todo[p] = {}
      BY <1>1 DEF HistoryInv, InitAlone, Initializing
    <2>3. \A p \in Runs : ~initialized => pc[p] \in {"idle", "done"}
      BY <1>1, <1>2, <2>1 DEF Positions, Initializing, AtWork
    <2> QED
      BY <1>1, <1>2, <2>1, <2>2, <2>3 DEF InitAlone, Initializing, AtWork
  <1>5. EmptyUntilFilled' /\ RowsFollowHistories'
    BY <1>1, <1>2 DEF HistoryInv, EmptyUntilFilled, RowsFollowHistories, Initializing
  <1>6. status[r] = None
    BY <1>1 DEF HistoryInv, RowsFollowHistories
  <1>7. \A s \in Final : Slots(s)' /\ Enough(s)'
    BY <1>1, <1>2, <1>6, QuietSlots DEF Final, None
  <1>8. PlacedOnce'
    BY <1>1, <1>2, QuietPlaces
  <1>9. RowsTracked'
    <2>1. InRings' = InRings /\ Pending' = Pending
      BY <1>1 DEF InRings, Pending
    <2>2. Filled' => Filled
      BY <1>1, <1>2 DEF Filled
    <2> QED
      BY <1>1, <1>2, <2>1, <2>2 DEF HistoryInv, RowsTracked, Tracked
  <1> QED
    BY <1>3, <1>4, <1>5, <1>7, <1>8, <1>9 DEF HistoryInv

(* The steps of init before and after the rings are filled.                *)
LEMMA InitStepInv ==
  ASSUME HistoryInv, NEW r \in Runs, NewRing(r) \/ ReadFails(r) \/ Initialized(r)
  PROVE  HistoryInv'
  <1>1. /\ pc[r] \in Initializing
        /\ \/ pc[r] = "init" /\ pc'[r] = "reading" /\ initialized' = FALSE
           \/ pc[r] = "reading" /\ pc'[r] = "done" /\ initialized' = FALSE
           \/ pc[r] = "populating" /\ pc'[r] = "starting" /\ initialized' = TRUE /\ todo[r] = {}
        /\ pc' = [pc EXCEPT ![r] = pc'[r]]
        /\ UNCHANGED <<started, status, saved, db, evicted, batch, dropped, todo, lost, aged>>
        /\ faults' \in 0 .. MaxFaults
    <2>1. TypeOK /\ pc \in [Runs -> Positions] /\ faults \in 0 .. MaxFaults /\ MaxFaults \in Nat
      BY HistoryAssumption DEF HistoryInv, TypeOK
    <2>2. pc[r] \in Initializing => initialized = FALSE
      BY DEF HistoryInv, InitAlone, TypeOK
    <2>3. CASE NewRing(r)
      BY <2>1, <2>2, <2>3 DEF NewRing, Goto, Initializing
    <2>4. CASE ReadFails(r)
      BY <2>1, <2>2, <2>4 DEF ReadFails, Goto, Initializing, Fault, memory
    <2>5. CASE Initialized(r)
      BY <2>1, <2>2, <2>5 DEF Initialized, Goto, Initializing
    <2> QED
      BY <2>3, <2>4, <2>5
  <1>2. TypeOK /\ pc \in [Runs -> Positions]
    BY DEF HistoryInv, TypeOK
  <1>3. ~initialized /\ \A q \in Runs : q # r => pc[q] \in {"idle", "done"}
    BY <1>1 DEF HistoryInv, InitAlone
  <1>4. rings' = rings
    <2>1. CASE pc[r] = "init"
      <3>1. rings' = [s \in Statuses |-> << >>]
        BY <2>1 DEF NewRing, ReadFails, Initialized
      <3>2. \A p \in Runs : pc[p] # "populating"
        BY <1>3, <2>1
      <3> QED
        BY <1>3, <3>1, <3>2 DEF HistoryInv, EmptyUntilFilled
    <2>2. CASE pc[r] # "init"
      BY <2>2 DEF NewRing, ReadFails, Initialized, memory
    <2> QED
      BY <2>1, <2>2
  <1>5. pc' \in [Runs -> Positions] /\ pc'[r] \in {"reading", "done", "starting"} /\ initialized' \in BOOLEAN
    BY <1>1, <1>2 DEF Positions
  <1>6. TypeOK'
    BY <1>1, <1>2, <1>4, <1>5 DEF TypeOK
  <1>7. InitAlone'
    <2>1. \A q \in Runs : q # r => pc'[q] \in {"idle", "done"}
      BY <1>1, <1>2, <1>3
    <2>2. \A q \in Runs : todo'[q] = {} \/ (q = r /\ pc'[r] = "populating")
      BY <1>1, <1>3 DEF HistoryInv, InitAlone, Initializing
    <2> QED
      BY <1>1, <2>1, <2>2 DEF InitAlone, Initializing, AtWork
  <1>8. EmptyUntilFilled'
    <2>1. ~initialized' => \A p \in Runs : pc[p] # "populating"
      BY <1>1, <1>3 DEF Initializing
    <2> QED
      BY <1>1, <1>3, <1>4, <2>1 DEF HistoryInv, EmptyUntilFilled
  <1>9. status[r] = None
    BY <1>1 DEF HistoryInv, RowsFollowHistories
  <1>10. RowsFollowHistories'
    BY <1>1, <1>2, <1>9 DEF HistoryInv, RowsFollowHistories, Initializing
  <1>11. \A s \in Final : Slots(s)' /\ Enough(s)'
    BY <1>1, <1>4, <1>9, QuietSlots DEF Final, None
  <1>12. PlacedOnce'
    BY <1>1, <1>2, <1>4, QuietPlaces DEF Initializing
  <1>13. RowsTracked'
    <2>1. InRings' = InRings /\ Pending' = Pending
      BY <1>1, <1>4 DEF InRings, Pending
    <2>2. Filled' => Filled
      BY <1>1, <1>2, <1>3 DEF Filled
    <2>3. \A q \in Runs : q # r \/ db[q] = None
      BY <1>9 DEF HistoryInv, RowsFollowHistories
    <2> QED
      BY <1>1, <1>2, <2>1, <2>2, <2>3 DEF HistoryInv, RowsTracked, Tracked
  <1> QED
    BY <1>6, <1>7, <1>8, <1>10, <1>11, <1>12, <1>13 DEF HistoryInv

(* The query: every row is one of a run that is over.                      *)
LEMMA ReadRowsInv == ASSUME HistoryInv, NEW r \in Runs, ReadRows(r) PROVE HistoryInv'
  <1> DEFINE found == {<<q, db[q]>> : q \in {p \in Runs : db[p] # None}}
  <1>1. /\ pc[r] = "reading" /\ pc' = [pc EXCEPT ![r] = "populating"] /\ todo' = [todo EXCEPT ![r] = found]
        /\ UNCHANGED <<started, status, saved, db, initialized, rings, evicted, batch, dropped, lost, aged, faults>>
    BY DEF ReadRows, Goto, memory
  <1>2. TypeOK /\ pc \in [Runs -> Positions] /\ db \in [Runs -> Statuses \union {None}]
        /\ todo \in [Runs -> SUBSET (Runs \X Statuses)]
    BY DEF HistoryInv, TypeOK
  <1>3. ~initialized /\ \A q \in Runs : q # r => pc[q] \in {"idle", "done"}
    BY <1>1 DEF HistoryInv, InitAlone, Initializing
  <1>4. rings = [s \in Statuses |-> << >>] /\ evicted = << >> /\ batch = {}
    BY <1>1, <1>3 DEF HistoryInv, EmptyUntilFilled
  <1>5. InRings' = {} /\ Pending' = {}
    BY <1>1, <1>4 DEF InRings, Pending, ToSet
  <1>6. ASSUME NEW p \in Runs, db[p] # None
        PROVE  pc[p] = "done" /\ p \in saved /\ db[p] \in Statuses /\ (db[p] \in Final => status[p] = db[p])
    <2>1. status[p] # None /\ p \in saved /\ (db[p] \in Final => status[p] = db[p])
      BY <1>6 DEF HistoryInv, RowsFollowHistories
    <2>2. pc[p] \notin {"idle", "reading"}
      BY <2>1 DEF HistoryInv, RowsFollowHistories, Initializing
    <2>3. pc[p] = "done"
      BY <1>1, <1>3, <2>2
    <2> QED
      BY <1>2, <1>6, <2>1, <2>3
  <1>7. \A q \in Runs : q # r => todo[q] = {}
    BY <1>3 DEF HistoryInv, InitAlone
  <1>8. ASSUME NEW h \in found
        PROVE  \E p \in Runs : h[1] = p /\ h[2] = db[p] /\ h = <<p, db[p]>> /\ db[p] # None
    BY <1>8
  <1>9. found \in SUBSET (Runs \X Statuses)
    BY <1>6
  <1>10. \A p \in Runs : db[p] # None => \E h \in found : h[1] = p
    <2> SUFFICES ASSUME NEW p \in Runs, db[p] # None PROVE \E h \in found : h[1] = p
      OBVIOUS
    <2>1. <<p, db[p]>> \in found /\ <<p, db[p]>>[1] = p
      OBVIOUS
    <2> QED
      BY <2>1
  <1> HIDE DEF found
  <1>11. todo' \in [Runs -> SUBSET (Runs \X Statuses)] /\ todo'[r] = found /\ \A q \in Runs : q # r => todo'[q] = {}
    BY <1>1, <1>2, <1>7, <1>9
  <1>12. TypeOK'
    BY <1>1, <1>2, <1>11 DEF TypeOK, Positions
  <1>13. InitAlone' /\ EmptyUntilFilled'
    BY <1>1, <1>2, <1>3, <1>4, <1>11 DEF HistoryInv, InitAlone, EmptyUntilFilled, Initializing, AtWork
  <1>14. RowsFollowHistories'
    BY <1>1, <1>2 DEF HistoryInv, RowsFollowHistories, Initializing
  <1>15. PlacedOnce'
    <2>1. RingsInOrder' /\ \A id \in Pending' : id # Nil => pc'[id] = "done"
      BY <1>1, <1>4, <1>5 DEF RingsInOrder
    <2>2. ASSUME NEW h \in found
          PROVE  /\ PlacedNext(h[1], h[2]) /\ h[1] \notin InRings'
                 /\ \A other \in found : other[1] = h[1] => other = h
                 /\ h[2] \in Final => status'[h[1]] = h[2] /\ db'[h[1]] = h[2]
      <3>1. PICK p \in Runs : h[1] = p /\ h[2] = db[p] /\ h = <<p, db[p]>> /\ db[p] # None
        BY <1>8
      <3>2. pc'[p] = "done"
        BY <1>1, <1>2, <1>6, <3>1
      <3>3. PlacedNext(h[1], h[2])
        BY <1>1, <1>5, <1>6, <3>1, <3>2 DEF PlacedNext
      <3>4. \A other \in found : other[1] = h[1] => other = h
        BY <1>8, <3>1
      <3> QED
        BY <1>1, <1>5, <1>6, <3>1, <3>3, <3>4
    <2> QED
      BY <1>11, <2>1, <2>2 DEF PlacedOnce, RingsInOrder, Placed, PlacedNext
  <1>16. \A s \in Final : Slots(s)' /\ Enough(s)'
    <2>1. status[r] = None
      BY <1>1 DEF HistoryInv, RowsFollowHistories, Initializing
    <2> QED
      BY <1>1, <1>2, <2>1, QuietSlots DEF Final, None
  <1>17. RowsTracked'
    BY <1>1, <1>10, <1>11 DEF RowsTracked, Tracked
  <1> QED
    BY <1>12, <1>13, <1>14, <1>15, <1>16, <1>17 DEF HistoryInv

-----------------------------------------------------------------------------
(* Rows that are written.                                                  *)

(* The writes of start and end change the row of a run that is in no ring. *)
LEMMA WrittenPlaces ==
  ASSUME HistoryInv, NEW r \in Runs, pc[r] # "done",
         UNCHANGED <<rings, evicted, batch, aged, todo>>, saved \subseteq saved',
         status' = [status EXCEPT ![r] = status'[r]], db' = [db EXCEPT ![r] = db'[r]],
         pc' = [pc EXCEPT ![r] = pc'[r]]
  PROVE  PlacedOnce' /\ InRings' = InRings /\ Pending' = Pending
  <1>1. InRings' = InRings /\ Pending' = Pending /\ PlacedOnce /\ TypeOK
    BY DEF InRings, Pending, HistoryInv
  <1>2. status \in [Runs -> Statuses \union {None}] /\ db \in [Runs -> Statuses \union {None}] /\ pc \in [Runs -> Positions]
    BY <1>1 DEF TypeOK
  <1>3. \A id \in Runs : id # r => status'[id] = status[id] /\ db'[id] = db[id] /\ pc'[id] = pc[id]
    BY <1>2
  <1>4. \A id \in Runs, s \in Statuses : Placed(id, s) => Placed(id, s)' /\ id # r
    BY <1>1, <1>3 DEF Placed
  <1>5. RingsInOrder'
    <2>1. \A s \in Statuses : \A i \in DOMAIN rings[s] : rings[s][i] \in Ids
      BY <1>1 DEF TypeOK
    <2> QED
      BY <1>1, <1>4, <2>1 DEF RingsInOrder, PlacedOnce, Ids
  <1>6. \A q \in Runs : \A h \in todo[q] : h[1] \in Runs /\ h[2] \in Statuses
    BY <1>1 DEF TypeOK
  <1>7. ASSUME NEW q \in Runs, NEW h \in todo[q]
        PROVE  /\ PlacedNext(h[1], h[2]) /\ h[1] \notin InRings
               /\ \A other \in todo[q] : other[1] = h[1] => other = h
               /\ h[2] \in Final => status'[h[1]] = h[2] /\ (h[1] \in aged \/ db'[h[1]] = h[2])
    BY <1>1, <1>3, <1>4, <1>6, <1>7 DEF PlacedOnce, Placed, PlacedNext
  <1>8. \A id \in Pending : id # Nil => pc'[id] = "done"
    BY <1>1, <1>3, PendingIds DEF PlacedOnce, Ids
  <1> QED
    BY <1>1, <1>5, <1>7, <1>8 DEF PlacedOnce, RingsInOrder, Placed, PlacedNext

LEMMA WrittenSlots ==
  ASSUME HistoryInv, NEW r \in Runs, pc[r] # "done", pc'[r] # "done",
         UNCHANGED <<rings, evicted, batch, aged>>, lost \subseteq lost', saved' \subseteq saved \union {r},
         status' = [status EXCEPT ![r] = status'[r]], db' = [db EXCEPT ![r] = db'[r]],
         pc' = [pc EXCEPT ![r] = pc'[r]]
  PROVE  \A s \in Final : Slots(s)' /\ Enough(s)'
  <1>1. status \in [Runs -> Statuses \union {None}] /\ db \in [Runs -> Statuses \union {None}] /\ pc \in [Runs -> Positions]
    BY DEF HistoryInv, TypeOK
  <1>2. Pending' = Pending
    BY DEF Pending
  <1>3. ASSUME NEW s \in Final PROVE Slots(s)' /\ Enough(s)'
    <2>1. EndedIn(s)' = EndedIn(s) /\ r \notin EndedIn(s)
      BY <1>1 DEF EndedIn
    <2>2. ASSUME NEW x \in Kept(s) PROVE x \in Kept(s)' /\ (x \in saved' => x \in saved)
      <3>1. x \in EndedIn(s) /\ (x \in lost \union aged \/ (db[x] = s /\ x \notin Pending))
        BY DEF Kept
      <3>2. x \in EndedIn(s)' /\ x # r /\ x \in Runs
        BY <2>1, <3>1 DEF EndedIn
      <3>3. db'[x] = db[x]
        BY <1>1, <3>2
      <3> QED
        BY <1>2, <3>1, <3>2, <3>3 DEF Kept
    <2>3. Slots(s) /\ Enough(s) /\ UNCHANGED rings[s]
      BY DEF HistoryInv
    <2> QED
      BY <2>1, <2>2, <2>3, SlotsStay
  <1> QED
    BY <1>3

LEMMA StartInv == ASSUME HistoryInv, NEW r \in Runs, Start(r) PROVE HistoryInv'
  <1>1. /\ pc[r] = "starting" /\ pc' = [pc EXCEPT ![r] = "running"]
        /\ started' = Append(started, r) /\ status' = [status EXCEPT ![r] = "RUNNING"]
        /\ UNCHANGED <<initialized, rings, evicted, batch, dropped, todo, lost, aged>>
    BY DEF Start, Goto, memory
  <1>2. TypeOK /\ pc \in [Runs -> Positions] /\ status \in [Runs -> Statuses \union {None}]
        /\ db \in [Runs -> Statuses \union {None}] /\ saved \subseteq Runs
    BY DEF HistoryInv, TypeOK
  <1>3. /\ \/ db' = [db EXCEPT ![r] = "RUNNING"] /\ saved' = saved \union {r}
           \/ UNCHANGED <<db, saved>>
        /\ faults' \in 0 .. MaxFaults
    <2>1. faults \in 0 .. MaxFaults /\ MaxFaults \in Nat
      BY HistoryAssumption DEF HistoryInv, TypeOK
    <2> QED
      BY <2>1 DEF Start, Fault
  <1>4. /\ db' = [db EXCEPT ![r] = db'[r]] /\ status' = [status EXCEPT ![r] = status'[r]]
        /\ pc' = [pc EXCEPT ![r] = pc'[r]] /\ pc'[r] = "running" /\ status'[r] = "RUNNING"
        /\ saved \subseteq saved' /\ saved' \subseteq saved \union {r}
    BY <1>1, <1>2, <1>3
  <1>5. status[r] = None /\ db[r] = None
    BY <1>1 DEF HistoryInv, RowsFollowHistories
  <1>6. db'[r] \in {None, "RUNNING"} /\ (db'[r] # None => r \in saved')
    BY <1>2, <1>3, <1>5
  <1>7. started' \in Seq(Runs) /\ IsInjective(started') /\ \A i \in DOMAIN started' : status'[started'[i]] # None
    <2>1. started \in Seq(Runs) /\ IsInjective(started) /\ \A i \in DOMAIN started : status[started[i]] # None
      BY DEF HistoryInv, TypeOK, RowsFollowHistories
    <2>2. started' \in Seq(Runs) /\ DOMAIN started' = 1 .. Len(started) + 1 /\ DOMAIN started = 1 .. Len(started) /\ Len(started) \in Nat
          /\ \A i \in DOMAIN started' : started'[i] = IF i <= Len(started) THEN started[i] ELSE r
      BY <1>1, <2>1
    <2>3. \A i \in DOMAIN started : started[i] # r /\ started[i] \in Runs
      BY <1>5, <2>1
    <2>4. IsInjective(started')
      BY <2>1, <2>2, <2>3 DEF IsInjective
    <2>5. ASSUME NEW i \in DOMAIN started' PROVE status'[started'[i]] # None
      BY <1>2, <1>4, <2>1, <2>2, <2>3 DEF None
    <2> QED
      BY <2>2, <2>4, <2>5
  <1>8. TypeOK'
    BY <1>1, <1>2, <1>3, <1>7 DEF TypeOK, Positions, Statuses
  <1>9. InitAlone' /\ EmptyUntilFilled'
    <2>1. initialized
      BY <1>1 DEF HistoryInv, InitAlone, AtWork
    <2> QED
      BY <1>1, <1>2, <2>1 DEF HistoryInv, InitAlone, EmptyUntilFilled, Initializing, AtWork
  <1>10. RowsFollowHistories'
    <2>1. ASSUME NEW q \in Runs, q # r
          PROVE  status'[q] = status[q] /\ db'[q] = db[q] /\ pc'[q] = pc[q] /\ (q \in saved' <=> q \in saved)
      BY <1>2, <1>4, <2>1
    <2>2. pc'[r] = "running" /\ status'[r] = "RUNNING" /\ db'[r] \in {None, "RUNNING"} /\ (db'[r] # None => r \in saved')
      BY <1>4, <1>6
    <2> QED
      BY <1>1, <1>7, <2>1, <2>2 DEF HistoryInv, RowsFollowHistories, Initializing, Final, None
  <1>11. PlacedOnce' /\ InRings' = InRings /\ Pending' = Pending
    BY <1>1, <1>4, WrittenPlaces
  <1>12. \A s \in Final : Slots(s)' /\ Enough(s)'
    BY <1>1, <1>4, WrittenSlots
  <1>13. RowsTracked'
    <2>1. \A q \in Runs : q # r => db'[q] = db[q] /\ pc'[q] = pc[q]
      BY <1>2, <1>4
    <2>2. Filled' => Filled
      BY <1>1, <1>2, <2>1 DEF Filled
    <2> QED
      BY <1>1, <1>4, <1>11, <2>1, <2>2 DEF HistoryInv, RowsTracked, Tracked
  <1> QED
    BY <1>8, <1>9, <1>10, <1>11, <1>12, <1>13 DEF HistoryInv

LEMMA EndInv == ASSUME HistoryInv, NEW r \in Runs, End(r) PROVE HistoryInv'
  <1>1. PICK s \in Outcomes :
          /\ status' = [status EXCEPT ![r] = s]
          /\ \/ db' = [db EXCEPT ![r] = s] /\ saved' = saved \union {r} /\ lost' = lost
             \/ lost' = lost \union {r} /\ UNCHANGED <<db, saved>>
          /\ faults' = faults \/ Fault
    BY DEF End
  <1>2. /\ pc[r] = "running" /\ pc' = [pc EXCEPT ![r] = "adding"]
        /\ UNCHANGED <<started, initialized, rings, evicted, batch, dropped, todo, aged>>
    BY DEF End, Goto, memory
  <1>3. TypeOK /\ pc \in [Runs -> Positions] /\ status \in [Runs -> Statuses \union {None}]
        /\ db \in [Runs -> Statuses \union {None}] /\ saved \subseteq Runs /\ s \in Final
        /\ faults' \in 0 .. MaxFaults
    <2>1. faults \in 0 .. MaxFaults /\ MaxFaults \in Nat /\ Outcomes \subseteq Final
      BY HistoryAssumption DEF HistoryInv, TypeOK
    <2> QED
      BY <1>1, <2>1 DEF HistoryInv, TypeOK, Fault
  <1>4. /\ db' = [db EXCEPT ![r] = db'[r]] /\ status' = [status EXCEPT ![r] = status'[r]]
        /\ pc' = [pc EXCEPT ![r] = pc'[r]] /\ pc'[r] = "adding" /\ status'[r] = s
        /\ saved \subseteq saved' /\ saved' \subseteq saved \union {r}
        /\ lost \subseteq lost' /\ lost' \subseteq lost \union {r}
    BY <1>1, <1>2, <1>3
  <1>5. status[r] = "RUNNING" /\ (db[r] \in Final => db[r] = status[r]) /\ (db[r] # None => r \in saved)
    BY <1>2 DEF HistoryInv, RowsFollowHistories
  <1>6. \/ db'[r] = s /\ r \in saved'
        \/ r \in lost' /\ db'[r] \notin Final /\ (db'[r] # None => r \in saved')
    BY <1>1, <1>3, <1>5 DEF Final
  <1>7. TypeOK'
    <2>1. Final \subseteq Statuses
      BY DEF Statuses
    <2>2. lost' \subseteq Runs /\ saved' \subseteq Runs
      BY <1>3, <1>4 DEF TypeOK
    <2>3. db' \in [Runs -> Statuses \union {None}] /\ status' \in [Runs -> Statuses \union {None}] /\ pc' \in [Runs -> Positions]
      BY <1>1, <1>2, <1>3, <2>1 DEF Positions
    <2> QED
      BY <1>2, <1>3, <2>2, <2>3 DEF TypeOK
  <1>8. InitAlone' /\ EmptyUntilFilled'
    <2>1. initialized
      BY <1>2 DEF HistoryInv, InitAlone, AtWork
    <2> QED
      BY <1>2, <1>3, <2>1 DEF HistoryInv, InitAlone, EmptyUntilFilled, Initializing, AtWork
  <1>9. RowsFollowHistories'
    <2>1. ASSUME NEW q \in Runs, q # r
          PROVE  /\ status'[q] = status[q] /\ db'[q] = db[q] /\ pc'[q] = pc[q]
                 /\ (q \in saved' <=> q \in saved) /\ (q \in lost' <=> q \in lost)
      BY <1>3, <1>4, <2>1
    <2>2. None \notin Final
      BY DEF Final, None
    <2>3. \A i \in DOMAIN started' : status'[started'[i]] # None
      <3>1. \A i \in DOMAIN started : status[started[i]] # None /\ started[i] \in Runs
        BY DEF HistoryInv, TypeOK, RowsFollowHistories
      <3> QED
        BY <1>2, <1>3, <1>4, <2>1, <2>2, <3>1
    <2>4. ASSUME NEW q \in Runs, q # r
          PROVE  /\ status'[q] \in {None, "RUNNING"} \union Final
                 /\ pc'[q] \in {"idle", "starting"} \union Initializing => status'[q] = None
                 /\ pc'[q] = "running" => status'[q] = "RUNNING"
                 /\ pc'[q] = "adding" => status'[q] \in Final /\ (q \in lost' \union aged' \/ db'[q] = status'[q])
                 /\ status'[q] = None => db'[q] = None
                 /\ status'[q] \in Final => q \in saved' \union lost'
                 /\ db'[q] # None => q \in saved'
                 /\ db'[q] \in Final => db'[q] = status'[q]
      BY <1>2, <2>1, <2>4 DEF HistoryInv, RowsFollowHistories
    <2> QED
      BY <1>3, <1>4, <1>6, <2>2, <2>3, <2>4 DEF RowsFollowHistories, Initializing
  <1>10. PlacedOnce' /\ InRings' = InRings /\ Pending' = Pending
    BY <1>2, <1>4, WrittenPlaces
  <1>11. \A t \in Final : Slots(t)' /\ Enough(t)'
    BY <1>2, <1>4, WrittenSlots
  <1>12. RowsTracked'
    <2>1. \A q \in Runs : q # r => db'[q] = db[q] /\ pc'[q] = pc[q]
      BY <1>3, <1>4
    <2>2. Filled' => Filled
      BY <1>2, <1>3, <2>1 DEF Filled
    <2> QED
      BY <1>2, <1>4, <1>10, <2>1, <2>2 DEF HistoryInv, RowsTracked, Tracked
  <1> QED
    BY <1>7, <1>8, <1>9, <1>10, <1>11, <1>12 DEF HistoryInv

-----------------------------------------------------------------------------
(* Rows that are given up.                                                 *)

(* The evictor and the clean-up queries: what they take from a row or from *)
(* the way out leaves every history where it is.                           *)
LEMMA TakenAway ==
  ASSUME HistoryInv, UNCHANGED <<pc, status, saved, rings, todo, lost>>, aged \subseteq aged', Pending' \subseteq Pending,
         \A x \in Runs : db'[x] = db[x] \/ (db'[x] \notin Final /\ (x \in Pending \union aged' \/ db[x] \notin Final))
  PROVE  /\ PlacedOnce' /\ InRings' = InRings
         /\ \A s \in Final : Slots(s)' /\ Enough(s)'
  <1>1. InRings' = InRings /\ PlacedOnce /\ TypeOK
    BY DEF InRings, HistoryInv
  <1>2. \A id \in Runs, s \in Statuses : Placed(id, s) => PlacedNext(id, s)
    BY DEF Placed, PlacedNext
  <1>3. RingsInOrder'
    <2>1. \A s \in Statuses : \A i \in DOMAIN rings[s] : rings[s][i] \in Ids
      BY <1>1 DEF TypeOK
    <2> QED
      BY <1>1, <1>2, <2>1 DEF RingsInOrder, PlacedOnce, Ids, Placed, PlacedNext
  <1>4. \A q \in Runs : \A h \in todo[q] : h[1] \in Runs /\ h[2] \in Statuses
    BY <1>1 DEF TypeOK
  <1>5. ASSUME NEW q \in Runs, NEW h \in todo[q]
        PROVE  /\ PlacedNext(h[1], h[2]) /\ h[1] \notin InRings
               /\ \A other \in todo[q] : other[1] = h[1] => other = h
               /\ h[2] \in Final => status'[h[1]] = h[2] /\ (h[1] \in aged' \/ db'[h[1]] = h[2])
    <2>1. Placed(h[1], h[2]) /\ h[1] \in Runs /\ h[2] \in Statuses
      BY <1>1, <1>4 DEF PlacedOnce
    <2>2. h[2] \in Final => status[h[1]] = h[2] /\ (h[1] \in aged \/ db[h[1]] = h[2])
      BY <1>1 DEF PlacedOnce
    <2>3. h[1] \notin Pending
      BY <2>1 DEF Placed
    <2>4. h[2] \in Final => h[1] \in aged' \/ db'[h[1]] = h[2]
      BY <2>1, <2>2, <2>3
    <2> QED
      BY <1>1, <1>2, <2>1, <2>2, <2>4 DEF PlacedOnce
  <1>6. \A id \in Pending' : id # Nil => pc'[id] = "done"
    BY <1>1 DEF PlacedOnce
  <1>7. ASSUME NEW s \in Final PROVE Slots(s)' /\ Enough(s)'
    <2>1. EndedIn(s)' = EndedIn(s)
      BY DEF EndedIn
    <2>2. ASSUME NEW x \in Kept(s) PROVE x \in Kept(s)'
      <3>1. x \in EndedIn(s)' /\ x \in Runs /\ (x \in lost \union aged \/ (db[x] = s /\ x \notin Pending))
        BY <2>1 DEF Kept, EndedIn
      <3> QED
        BY <3>1 DEF Kept
    <2>3. Slots(s) /\ Enough(s)
      BY DEF HistoryInv
    <2> QED
      BY <2>1, <2>2, <2>3, SlotsStay
  <1> QED
    BY <1>1, <1>3, <1>5, <1>6, <1>7 DEF PlacedOnce, RingsInOrder, Placed, PlacedNext

LEMMA TakeBatchInv == ASSUME HistoryInv, TakeBatch PROVE HistoryInv'
  <1>1. PICK n \in 1 .. Len(evicted) :
          /\ batch' = {evicted[i] : i \in 1 .. n}
          /\ evicted' = SubSeq(evicted, n + 1, Len(evicted))
    BY DEF TakeBatch
  <1>2. /\ batch = {} /\ evicted # << >>
        /\ UNCHANGED <<pc, started, status, saved, db, initialized, rings, todo, dropped, lost, aged, faults>>
    BY DEF TakeBatch
  <1>3. TypeOK /\ evicted \in Seq(Ids) /\ Len(evicted) \in Nat /\ Len(evicted) <= Capacity /\ Capacity \in Nat
    BY HistoryAssumption DEF HistoryInv, TypeOK
  <1>4. /\ evicted' \in Seq(Ids) /\ Len(evicted') = Len(evicted) - n
        /\ \A i \in 1 .. Len(evicted) - n : evicted'[i] = evicted[n + i]
    BY <1>1, <1>3
  <1>5. batch' \subseteq Ids
    BY <1>1, <1>3
  <1>6. Pending' = Pending
    <2>1. DOMAIN evicted = 1 .. Len(evicted) /\ DOMAIN evicted' = 1 .. Len(evicted) - n
      BY <1>3, <1>4
    <2>2. ASSUME NEW x \in ToSet(evicted) PROVE x \in Pending'
      <3>1. PICK i \in 1 .. Len(evicted) : x = evicted[i]
        BY <2>1 DEF ToSet
      <3>2. i <= n \/ (i - n \in DOMAIN evicted' /\ evicted'[i - n] = x)
        BY <1>3, <1>4, <2>1, <3>1
      <3>3. i <= n => x \in batch'
        BY <1>1, <1>3, <3>1
      <3> QED
        BY <3>2, <3>3 DEF Pending, ToSet
    <2>3. ASSUME NEW x \in Pending' PROVE x \in ToSet(evicted)
      <3>1. CASE x \in batch'
        BY <1>1, <1>3, <2>1, <3>1 DEF ToSet
      <3>2. CASE x \in ToSet(evicted')
        <4>1. PICK i \in 1 .. Len(evicted) - n : x = evicted'[i]
          BY <2>1, <3>2 DEF ToSet
        <4>2. n + i \in DOMAIN evicted /\ evicted[n + i] = x
          BY <1>3, <1>4, <2>1, <4>1
        <4> QED
          BY <4>2 DEF ToSet
      <3> QED
        BY <3>1, <3>2 DEF Pending
    <2> QED
      BY <1>2, <2>2, <2>3 DEF Pending
  <1>7. TypeOK'
    <2>1. Len(evicted') <= Capacity
      BY <1>3, <1>4
    <2> QED
      BY <1>2, <1>3, <1>4, <1>5, <2>1 DEF TypeOK
  <1>8. InitAlone' /\ EmptyUntilFilled' /\ RowsFollowHistories'
    BY <1>2 DEF HistoryInv, InitAlone, EmptyUntilFilled, RowsFollowHistories
  <1>9. PlacedOnce' /\ InRings' = InRings /\ \A s \in Final : Slots(s)' /\ Enough(s)'
    BY <1>2, <1>6, TakenAway
  <1>10. RowsTracked'
    <2>1. Filled' = Filled
      BY <1>2 DEF Filled
    <2> QED
      BY <1>2, <1>6, <1>9, <2>1 DEF HistoryInv, RowsTracked, Tracked
  <1> QED
    BY <1>7, <1>8, <1>9, <1>10 DEF HistoryInv

(* deleteEvictedJobs: the batch is deleted, or forgotten.                  *)
LEMMA BatchGone ==
  ASSUME HistoryInv, UNCHANGED <<pc, started, status, saved, initialized, rings, todo, evicted, lost, aged>>,
         faults' \in 0 .. MaxFaults, batch' = {}, dropped \subseteq dropped', dropped' \subseteq Runs,
         db' \in [Runs -> Statuses \union {None}],
         \A x \in Runs : db'[x] = db[x] \/ (db'[x] = None /\ x \in batch),
         \A x \in batch \intersect Runs : db'[x] = None \/ x \in dropped'
  PROVE  HistoryInv'
  <1>1. TypeOK
    BY DEF HistoryInv
  <1>2. TypeOK'
    BY <1>1 DEF TypeOK
  <1>3. Pending' \subseteq Pending /\ batch \subseteq Pending
    BY DEF Pending
  <1>4. None \notin Final
    BY DEF Final, None
  <1>5. PlacedOnce' /\ InRings' = InRings /\ \A s \in Final : Slots(s)' /\ Enough(s)'
    BY <1>3, <1>4, TakenAway
  <1>6. InitAlone' /\ EmptyUntilFilled'
    BY DEF HistoryInv, InitAlone, EmptyUntilFilled
  <1>7. RowsFollowHistories'
    <2>1. \A r \in Runs : r \in batch => pc[r] = "done"
      BY <1>3, NilIsNoRun DEF HistoryInv, PlacedOnce
    <2> QED
      BY <1>4, <2>1 DEF HistoryInv, RowsFollowHistories
  <1>8. RowsTracked'
    <2>1. Filled' = Filled
      BY DEF Filled
    <2>2. ASSUME NEW r \in Runs, db'[r] # None, Filled PROVE Tracked(r)'
      <3>1. db[r] # None /\ Tracked(r) /\ (r \in batch => r \in dropped')
        BY <2>2 DEF HistoryInv, RowsTracked
      <3> QED
        BY <1>5, <3>1 DEF Tracked, Pending
    <2> QED
      BY <2>1, <2>2 DEF RowsTracked
  <1> QED
    BY <1>2, <1>5, <1>6, <1>7, <1>8 DEF HistoryInv

LEMMA DeleteBatchInv == ASSUME HistoryInv, DeleteBatch \/ DeleteFails PROVE HistoryInv'
  <1>1. /\ db \in [Runs -> Statuses \union {None}] /\ dropped \subseteq Runs /\ faults \in 0 .. MaxFaults
        /\ batch \subseteq Ids /\ MaxFaults \in Nat
    BY HistoryAssumption DEF HistoryInv, TypeOK
  <1>2. CASE DeleteBatch
    <2>1. /\ db' = [r \in Runs |-> IF r \in batch THEN None ELSE db[r]] /\ batch' = {}
          /\ UNCHANGED <<pc, started, status, saved, initialized, rings, todo, evicted, dropped, lost, aged, faults>>
      BY <1>2 DEF DeleteBatch
    <2>2. db' \in [Runs -> Statuses \union {None}]
      BY <1>1, <2>1
    <2> QED
      BY <1>1, <2>1, <2>2, BatchGone
  <1>3. CASE DeleteFails
    <2>1. /\ batch' = {} /\ dropped' = dropped \union (batch \ {Nil}) /\ faults' = faults + 1 /\ faults < MaxFaults
          /\ UNCHANGED <<pc, started, status, saved, db, initialized, rings, todo, evicted, lost, aged>>
      BY <1>3 DEF DeleteFails, Fault
    <2>2. dropped' \subseteq Runs /\ faults' \in 0 .. MaxFaults /\ \A x \in batch \intersect Runs : x \in dropped'
      BY <1>1, <2>1, NilIsNoRun DEF Ids
    <2> QED
      BY <1>1, <2>1, <2>2, BatchGone
  <1> QED
    BY <1>2, <1>3

(* The clean-up queries.                                                   *)
LEMMA CleanupInv == ASSUME HistoryInv, NEW r \in Runs, CleanupStaleRunning(r) \/ CleanupStale(r) PROVE HistoryInv'
  <1>1. /\ db[r] # None /\ db' = [db EXCEPT ![r] = db'[r]] /\ db'[r] \in {None, "STALE"}
        /\ aged \subseteq aged' /\ aged' \subseteq aged \union {r} /\ (r \in aged' \/ db[r] = "RUNNING")
        /\ UNCHANGED <<pc, started, status, saved, initialized, rings, evicted, batch, dropped, todo, lost, faults>>
    <2>1. db \in [Runs -> Statuses \union {None}]
      BY DEF HistoryInv, TypeOK
    <2>2. CASE CleanupStaleRunning(r)
      BY <2>1, <2>2 DEF CleanupStaleRunning, memory, None
    <2>3. CASE CleanupStale(r)
      BY <2>1, <2>3 DEF CleanupStale, memory
    <2> QED
      BY <2>2, <2>3
  <1>2. TypeOK /\ db \in [Runs -> Statuses \union {None}]
    BY DEF HistoryInv, TypeOK
  <1>3. \A x \in Runs : x # r => db'[x] = db[x] /\ (x \in aged' <=> x \in aged)
    BY <1>1, <1>2
  <1>4. db'[r] \notin Final /\ "RUNNING" \notin Final
    BY <1>1 DEF Final, None
  <1>5. Pending' = Pending
    BY <1>1 DEF Pending
  <1>6. PlacedOnce' /\ InRings' = InRings /\ \A s \in Final : Slots(s)' /\ Enough(s)'
    <2>1. \A x \in Runs : db'[x] = db[x] \/ (db'[x] \notin Final /\ (x \in Pending \union aged' \/ db[x] \notin Final))
      BY <1>1, <1>3, <1>4
    <2> QED
      BY <1>1, <1>5, <2>1, TakenAway
  <1>7. TypeOK'
    <2>1. db' \in [Runs -> Statuses \union {None}]
      BY <1>1, <1>2 DEF Statuses
    <2> QED
      BY <1>1, <1>2, <2>1 DEF TypeOK
  <1>8. InitAlone' /\ EmptyUntilFilled'
    BY <1>1 DEF HistoryInv, InitAlone, EmptyUntilFilled
  <1>9. RowsFollowHistories'
    <2>1. ASSUME NEW q \in Runs
          PROVE  /\ status[q] \in {None, "RUNNING"} \union Final
                 /\ pc[q] \in {"idle", "starting"} \union Initializing => status[q] = None
                 /\ pc[q] = "running" => status[q] = "RUNNING"
                 /\ pc[q] = "adding" => status[q] \in Final /\ (q \in lost \union aged \/ db[q] = status[q])
                 /\ status[q] = None => db[q] = None
                 /\ status[q] \in Final => q \in saved \union lost
                 /\ db[q] # None => q \in saved
                 /\ db[q] \in Final => db[q] = status[q]
      BY DEF HistoryInv, RowsFollowHistories
    <2>2. ASSUME NEW q \in Runs
          PROVE  /\ pc[q] = "adding" => q \in lost \union aged' \/ db'[q] = status[q]
                 /\ status[q] = None => db'[q] = None
                 /\ db'[q] # None => q \in saved
                 /\ db'[q] \in Final => db'[q] = status[q]
      <3>1. CASE q = r
        BY <1>1, <1>4, <2>1, <3>1
      <3>2. CASE q # r
        BY <1>3, <2>1, <3>2
      <3> QED
        BY <3>1, <3>2
    <2>3. \A i \in DOMAIN started : status[started[i]] # None
      BY DEF HistoryInv, RowsFollowHistories
    <2> QED
      BY <1>1, <2>1, <2>2, <2>3 DEF RowsFollowHistories
  <1>10. RowsTracked'
    <2>1. Filled' = Filled
      BY <1>1 DEF Filled
    <2>2. \A q \in Runs : db'[q] # None => db[q] # None
      BY <1>1, <1>3
    <2> QED
      BY <1>1, <1>5, <1>6, <2>1, <2>2 DEF HistoryInv, RowsTracked, Tracked
  <1> QED
    BY <1>6, <1>7, <1>8, <1>9, <1>10 DEF HistoryInv

(* Crash: nothing is in a ring or on its way out any more.                 *)
LEMMA CrashInv == ASSUME HistoryInv, Crash PROVE HistoryInv'
  <1>1. /\ pc' = [r \in Runs |-> IF pc[r] = "idle" THEN "idle" ELSE "done"]
        /\ initialized' = FALSE /\ rings' = [s \in Statuses |-> << >>] /\ todo' = [r \in Runs |-> {}]
        /\ evicted' = << >> /\ batch' = {} /\ dropped' = {} /\ faults < MaxFaults /\ faults' = faults + 1
        /\ UNCHANGED <<started, status, saved, db, lost, aged>>
    BY DEF Crash, Fault
  <1>2. TypeOK /\ pc \in [Runs -> Positions]
    BY DEF HistoryInv, TypeOK
  <1>3. TypeOK'
    <2>1. faults' \in 0 .. MaxFaults /\ Capacity \in Nat
      BY <1>1, <1>2, HistoryAssumption DEF TypeOK
    <2>2. rings' \in [Statuses -> Seq(Ids)] /\ todo' \in [Runs -> SUBSET (Runs \X Statuses)] /\ evicted' \in Seq(Ids) /\ Len(evicted') = 0
      BY <1>1
    <2>3. pc' \in [Runs -> Positions] /\ Len(evicted') <= Capacity
      BY <1>1, <2>1, <2>2 DEF Positions
    <2> QED
      BY <1>1, <1>2, <2>1, <2>2, <2>3 DEF TypeOK
  <1>4. \A r \in Runs : pc'[r] \in {"idle", "done"} /\ (pc'[r] = "idle" <=> pc[r] = "idle") /\ (pc[r] = "done" => pc'[r] = "done")
    BY <1>1
  <1>5. InitAlone' /\ EmptyUntilFilled'
    BY <1>1, <1>4 DEF InitAlone, EmptyUntilFilled, Initializing, AtWork
  <1>6. RowsFollowHistories'
    BY <1>1, <1>4 DEF HistoryInv, RowsFollowHistories, Initializing
  <1>7. Pending' = {} /\ InRings' = {} /\ \A s \in Statuses : DOMAIN rings'[s] = {}
    BY <1>1 DEF Pending, InRings, ToSet
  <1>8. PlacedOnce'
    BY <1>1, <1>7 DEF PlacedOnce
  <1>9. RowsTracked'
    BY <1>1, <1>4 DEF RowsTracked, Filled
  <1>10. ASSUME NEW s \in Final PROVE Slots(s)' /\ Enough(s)'
    <2>1. s \in Statuses /\ s \notin {None, "RUNNING"}
      BY DEF Statuses, Final, None
    <2>2. Slots(s)'
      <3> DEFINE f == [i \in DOMAIN rings'[s] |-> i]
      <3>1. f \in [DOMAIN rings'[s] -> Kept(s)'] /\ DOMAIN rings'[s] = {}
        BY <1>7, <2>1
      <3> QED
        BY <3>1 DEF Slots, SlotsOf
    <2>3. ASSUME NEW x \in EndedIn(s)' PROVE x \in EndedIn(s) \/ x \in Kept(s)'
      <3>1. x \in Runs /\ status[x] = s /\ pc[x] # "idle" /\ pc[x] \in Positions
        BY <1>1, <1>2, <1>4 DEF EndedIn
      <3>2. pc[x] \in {"adding", "done"}
        BY <2>1, <3>1 DEF HistoryInv, RowsFollowHistories, Initializing, Positions
      <3>3. pc[x] = "adding" => x \in lost \union aged \/ db[x] = s
        BY <3>1 DEF HistoryInv, RowsFollowHistories
      <3> QED
        BY <1>1, <1>7, <3>1, <3>2, <3>3 DEF EndedIn, Kept
    <2>4. ASSUME NEW x \in Kept(s) PROVE x \in Kept(s)'
      BY <1>1, <1>4, <1>7 DEF Kept, EndedIn
    <2>5. Enough(s)
      BY DEF HistoryInv
    <2>6. EndedIn(s) \subseteq Kept(s) => Enough(s)'
      BY <2>3, <2>4 DEF Enough
    <2>7. ASSUME NEW f \in [1 .. Count(s) -> Kept(s)], \A i, j \in 1 .. Count(s) : f[i] = f[j] => i = j
          PROVE  Enough(s)'
      <3>1. f \in [1 .. Count(s) -> Kept(s)']
        BY <2>4
      <3>2. Count(s)' = Count(s)
        BY DEF Count
      <3> QED
        BY <2>7, <3>1, <3>2 DEF Enough
    <2> QED
      BY <2>2, <2>5, <2>6, <2>7 DEF Enough
  <1> QED
    BY <1>3, <1>5, <1>6, <1>8, <1>9, <1>10 DEF HistoryInv

-----------------------------------------------------------------------------
(* The theorem.                                                            *)

LEMMA InitInv == ASSUME Init PROVE HistoryInv
  <1>1. TypeOK
    <2>1. /\ Capacity \in Nat /\ 0 \in 0 .. MaxFaults
      BY HistoryAssumption
    <2>2. rings \in [Statuses -> Seq(Ids)] /\ evicted \in Seq(Ids) /\ Len(evicted) = 0 /\ started \in Seq(Runs) /\ IsInjective(started)
      BY DEF Init, IsInjective
    <2>3. /\ pc \in [Runs -> Positions] /\ Len(evicted) <= Capacity
          /\ status \in [Runs -> Statuses \union {None}] /\ db \in [Runs -> Statuses \union {None}]
          /\ todo \in [Runs -> SUBSET (Runs \X Statuses)]
      BY <2>1, <2>2 DEF Init, Positions
    <2>4. saved \union dropped \union lost \union aged = {} /\ batch = {} /\ faults = 0 /\ initialized = FALSE
      BY DEF Init
    <2> QED
      BY <2>1, <2>2, <2>3, <2>4 DEF TypeOK
  <1>2. InitAlone /\ EmptyUntilFilled
    BY DEF Init, InitAlone, EmptyUntilFilled, Initializing, AtWork
  <1>3. RowsFollowHistories
    BY DEF Init, RowsFollowHistories, Initializing, Final, None
  <1>4. Pending = {} /\ InRings = {} /\ \A s \in Statuses : DOMAIN rings[s] = {}
    BY DEF Init, Pending, InRings, ToSet
  <1>5. PlacedOnce
    BY <1>4 DEF Init, PlacedOnce
  <1>6. ASSUME NEW s \in Final PROVE Slots(s) /\ Enough(s)
    <2>1. EndedIn(s) = {}
      BY DEF Init, EndedIn
    <2> DEFINE f == [i \in DOMAIN rings[s] |-> i]
    <2>2. f \in [DOMAIN rings[s] -> Kept(s)] /\ DOMAIN rings[s] = {}
      BY <1>4 DEF Statuses
    <2> QED
      BY <2>1, <2>2 DEF Slots, SlotsOf, Enough
  <1>7. RowsTracked
    BY DEF Init, RowsTracked
  <1> QED
    BY <1>1, <1>2, <1>3, <1>5, <1>6, <1>7 DEF HistoryInv

LEMMA StutterInv == ASSUME HistoryInv, UNCHANGED vars PROVE HistoryInv'
  <1>1. UNCHANGED <<pc, started, status, saved, db, initialized, rings, todo, evicted, batch, dropped, lost, aged, faults>>
    BY DEF vars
  <1>2. TypeOK' /\ InitAlone' /\ EmptyUntilFilled' /\ RowsFollowHistories' /\ Pending' = Pending /\ faults' \in 0 .. MaxFaults
    BY <1>1 DEF HistoryInv, TypeOK, InitAlone, EmptyUntilFilled, RowsFollowHistories, Pending
  <1>3. PlacedOnce' /\ InRings' = InRings /\ \A s \in Final : Slots(s)' /\ Enough(s)'
    BY <1>1, <1>2, TakenAway
  <1>4. RowsTracked'
    BY <1>1, <1>2, <1>3 DEF HistoryInv, RowsTracked, Tracked, Filled
  <1> QED
    BY <1>2, <1>3, <1>4 DEF HistoryInv

LEMMA NextInv == ASSUME ~Concurrent, HistoryInv, [Next]_vars PROVE HistoryInv'
  <1>1. ASSUME NEW r \in Runs, NewRing(r) \/ ReadFails(r) \/ Initialized(r) PROVE HistoryInv'
    BY <1>1, InitStepInv
  <1>2. ASSUME NEW r \in Runs, Begin(r) \/ ReadRows(r) \/ Populate(r) PROVE HistoryInv'
    BY <1>2, BeginInv, ReadRowsInv, PopulateInv
  <1>3. ASSUME NEW r \in Runs, Start(r) \/ End(r) \/ AddEnded(r) PROVE HistoryInv'
    BY <1>3, StartInv, EndInv, AddEndedInv
  <1>4. ASSUME NEW r \in Runs, CleanupStaleRunning(r) \/ CleanupStale(r) PROVE HistoryInv'
    BY <1>4, CleanupInv
  <1>5. TakeBatch \/ DeleteBatch \/ DeleteFails \/ Crash => HistoryInv'
    BY TakeBatchInv, DeleteBatchInv, CrashInv
  <1> QED
    BY <1>1, <1>2, <1>3, <1>4, <1>5, StutterInv DEF Next

(* What the slots are for: as many runs as there are numbers to count them.*)
LEMMA KeptAreEnough == ASSUME HistoryInv PROVE RetainedAreKept
  <1> SUFFICES ASSUME NEW s \in Final
               PROVE  LET gone == {r \in EndedIn(s) : r \in lost \union aged}
                          all == Cardinality(EndedIn(s))
                      IN  Cardinality(Rows(s) \union gone) >= (IF all < Count(s) THEN all ELSE Count(s))
    BY DEF RetainedAreKept
  <1> DEFINE gone == {r \in EndedIn(s) : r \in lost \union aged}
             there == Rows(s) \union gone
             all == Cardinality(EndedIn(s))
  <1>1. IsFiniteSet(there) /\ IsFiniteSet(EndedIn(s))
    <2>1. there \subseteq Runs /\ EndedIn(s) \subseteq Runs /\ IsFiniteSet(Runs)
      BY HistoryAssumption DEF Rows, EndedIn
    <2> QED
      BY <2>1, FS_Subset
  <1>2. Cardinality(there) \in Nat /\ all \in Nat
    BY <1>1, FS_CardinalityType
  <1>3. Kept(s) \subseteq there
    BY DEF Kept, Rows, EndedIn
  <1>4. Count(s) \in Nat
    BY CountIsNat DEF Statuses
  <1> HIDE DEF there, gone
  <1>5. CASE EndedIn(s) \subseteq Kept(s)
    <2>1. EndedIn(s) \subseteq there
      BY <1>3, <1>5
    <2>2. all <= Cardinality(there)
      BY <1>1, <2>1, FS_Subset
    <2> QED
      BY <1>2, <1>4, <2>2 DEF there, gone
  <1>6. ASSUME NEW f \in [1 .. Count(s) -> Kept(s)], \A i, j \in 1 .. Count(s) : f[i] = f[j] => i = j
        PROVE  Count(s) <= Cardinality(there)
    <2>1. f \in [1 .. Count(s) -> there]
      BY <1>3
    <2>2. IsFiniteSet(1 .. Count(s)) /\ Cardinality(1 .. Count(s)) = Count(s)
      <3>1. \A a, b \in Int : /\ IsFiniteSet(a .. b)
                              /\ Cardinality(a .. b) = IF a > b THEN 0 ELSE b - a + 1
        BY FS_Interval
      <3> QED
        BY <1>4, <3>1
    <2>3. Cardinality(1 .. Count(s)) > Cardinality(there) =>
            \E x, y \in 1 .. Count(s) : x # y /\ f[x] = f[y]
      BY <1>1, <2>1, <2>2, FS_PigeonHole
    <2> QED
      BY <1>2, <1>4, <1>6, <2>2, <2>3
  <1>7. (EndedIn(s) \subseteq Kept(s)) \/ Count(s) <= Cardinality(there)
    BY <1>6 DEF HistoryInv, Enough
  <1>8. CASE Count(s) <= Cardinality(there)
    BY <1>2, <1>4, <1>8 DEF there, gone
  <1> QED
    BY <1>5, <1>7, <1>8

LEMMA HistoryInvSays == ASSUME HistoryInv PROVE RetentionIsExact
  <1>1. TypeOK /\ RetainedAreKept
    BY KeptAreEnough DEF HistoryInv
  <1>2. RowsAreTracked
    BY DEF HistoryInv, RowsTracked, RowsAreTracked, Filled, Tracked, Pending
  <1> QED
    BY <1>1, <1>2 DEF RetentionIsExact

(* Retention (StatusRing, populateFromDB, deleteEvictedJobs): of a job     *)
(* whose runs begin one at a time until it is initialised, the rings keep  *)
(* as many rows of every final status as the job retains, or all there     *)
(* are, across failed queries, clean-up and restarts, and every row they   *)
(* do not keep for good is one they know of.                               *)
THEOREM ExactRetention == ASSUME ~Concurrent PROVE Spec => []RetentionIsExact
  <1>1. Init => HistoryInv
    BY InitInv
  <1>2. HistoryInv /\ [Next]_vars => HistoryInv'
    BY NextInv
  <1>3. HistoryInv => RetentionIsExact
    BY HistoryInvSays
  <1> QED
    BY <1>1, <1>2, <1>3, PTL DEF Spec
=============================================================================
