------------------------------ MODULE Enforcer ------------------------------
(***************************************************************************)
(* rbac/enforcer.go on several replicas: each has the policy in memory,    *)
(* loads it again at an interval, changes it together with the database,   *)
(* and caches the answers of Check for a while.  A subject is allowed when *)
(* it has the role in question; every subject that is checked is given the *)
(* role "everyone" first.                                                  *)
(***************************************************************************)
EXTENDS Naturals, FiniteSets

CONSTANTS
  Replicas, Subjects,
  Expiry,       \* casbin.cache.expiry
  Reload,       \* casbin.cache.reload.interval
  MaxTime, MaxChanges, MaxFailures   \* bounds

EnforcerAssumption == Expiry \in Nat /\ Reload \in Nat /\ MaxFailures \in Nat

VARIABLES
  groups,    \* the <<subject, role>> rows of the database
  policy,    \* the ones each replica has in memory
  loaded,    \* when each last tried to load them
  cached,    \* the answers each has cached: [sub, allowed, at]
  now,
  last,      \* when a subject last had the role in the database, and when it last had not
  answer,    \* the last answer: its subject, and how long ago it was right
  changes, failures

policyVars == <<groups, policy, loaded, cached, now, last, answer, changes, failures>>

Role == "admin"
Allowed(rows, s) == <<s, Role>> \in rows
NoAnswer == [sub |-> "", age |-> 0]

\* Init: the policy is loaded, and loaded again at an interval.
PolicyInit ==
  /\ groups \in SUBSET {<<s, Role>> : s \in Subjects}
  /\ policy = [r \in Replicas |-> groups]
  /\ loaded = [r \in Replicas |-> 0]
  /\ cached = [r \in Replicas |-> {}]
  /\ now = 0
  /\ last = [s \in Subjects |-> [b \in BOOLEAN |-> 0]]
  /\ answer = NoAnswer
  /\ changes = 0 /\ failures = 0

\* What the database holds at this time is right at this time.
Note(rows) ==
  last' = [s \in Subjects |-> [last[s] EXCEPT ![Allowed(rows, s)] = now']]

\* Time does not pass over a load that is due.
PolicyTick ==
  /\ now < MaxTime /\ \A r \in Replicas : now - loaded[r] < Reload
  /\ now' = now + 1 /\ Note(groups)
  /\ UNCHANGED <<groups, policy, loaded, cached, answer, changes, failures>>

\* AddRoleForUser, DeleteRoleForUser and DeleteAllRolesForUser: the row, then the memory
\* of the replica; the answers it cached stay.
ChangeRole(r, s) ==
  LET row == <<s, Role>>
      Toggle(rows) == IF row \in policy[r] THEN rows \ {row} ELSE rows \union {row} IN
  /\ changes < MaxChanges
  /\ groups' = Toggle(groups) /\ policy' = [policy EXCEPT ![r] = Toggle(@)]
  /\ changes' = changes + 1
  /\ now' = now /\ Note(groups')
  /\ UNCHANGED <<loaded, cached, answer, failures>>

\* StartAutoLoadPolicy: the policy is loaded, or is not and stays until the next time.
AutoLoadPolicy(r) ==
  /\ now - loaded[r] = Reload
  /\ loaded' = [loaded EXCEPT ![r] = now]
  /\ \/ policy' = [policy EXCEPT ![r] = groups] /\ UNCHANGED failures
     \/ failures < MaxFailures /\ failures' = failures + 1 /\ UNCHANGED policy
  /\ UNCHANGED <<groups, cached, now, last, answer, changes>>

\* ReloadPolicy: asked for, and the cache is emptied with it.
ReloadPolicy(r) ==
  /\ policy' = [policy EXCEPT ![r] = groups]
  /\ cached' = [cached EXCEPT ![r] = {}]
  /\ UNCHANGED <<groups, loaded, now, last, answer, changes, failures>>

\* Variant: an answer stays in the cache until the policy is asked to be reloaded.
NeverExpired(c) == TRUE
\* SetExpireTime
Fresh(c) == now < c.at + Expiry

\* Check: everyone has the role "everyone", then the cached answer or the policy's.
Check(r, s) ==
  LET row == <<s, "everyone">>
      hits == {c \in cached[r] : c.sub = s /\ Fresh(c)}
      allowed == IF hits # {} THEN (CHOOSE c \in hits : TRUE).allowed ELSE Allowed(policy[r], s) IN
  /\ groups' = IF row \in policy[r] THEN groups ELSE groups \union {row}
  /\ policy' = [policy EXCEPT ![r] = @ \union {row}]
  /\ cached' = IF hits # {} THEN cached
               ELSE [cached EXCEPT ![r] = {c \in @ : c.sub # s} \union {[sub |-> s, allowed |-> allowed, at |-> now]}]
  /\ answer' = [sub |-> s, age |-> now - last[s][allowed]]
  /\ UNCHANGED <<loaded, now, last, changes, failures>>

PolicyNext ==
  \/ PolicyTick
  \/ \E r \in Replicas : AutoLoadPolicy(r) \/ ReloadPolicy(r) \/ \E s \in Subjects : ChangeRole(r, s) \/ Check(r, s)

PolicySpec == PolicyInit /\ [][PolicyNext]_policyVars

-----------------------------------------------------------------------------
(* Properties.                                                             *)

\* The types of the variables: answers and loads are of the past.
PolicyTypeOK ==
  /\ groups \subseteq Subjects \X {Role, "everyone"}
  /\ policy \in [Replicas -> SUBSET (Subjects \X {Role, "everyone"})]
  /\ now \in Nat /\ loaded \in [Replicas -> 0 .. now]
  /\ cached \in [Replicas -> SUBSET [sub : Subjects, allowed : BOOLEAN, at : 0 .. now]]
  /\ last \in [Subjects -> [BOOLEAN -> 0 .. now]]
  /\ answer \in [sub : Subjects \union {""}, age : Nat]
  /\ changes \in Nat /\ failures \in 0 .. MaxFailures

\* Check: an answer was right, by the roles in the database, no longer ago than the
\* interval between two loads and the time an answer is cached, and as many more
\* intervals as loads have failed.
RightBefore == answer.age <= Reload * (1 + failures) + Expiry

\* Why: what a replica has in memory was right when it last loaded the policy, or as many
\* intervals before as loads have failed, and what it caches came from its memory.
MemoryAges ==
  /\ \A s \in Subjects : last[s][Allowed(groups, s)] = now
  /\ \A r \in Replicas : now <= loaded[r] + Reload
  /\ \A r \in Replicas, s \in Subjects :
       loaded[r] <= last[s][Allowed(policy[r], s)] + Reload * failures
  /\ \A r \in Replicas : \A c \in cached[r] :
       c.at <= last[c.sub][c.allowed] + Reload * failures + Reload

\* RightBefore with what it rests on.
AnswersAreRecent == PolicyTypeOK /\ MemoryAges /\ RightBefore
=============================================================================
