--------------------------- MODULE UpstreamServer ---------------------------
(***************************************************************************)
(* The handlers of an upstream server (upstream/controllers.go): who the   *)
(* agent of a request is, its rows put into or removed from the tables one *)
(* statement after the other (upstream/commands.go), and the histories of  *)
(* its jobs, of which only the latest are kept (upstream/                  *)
(* agent_status_ring.go).  No transaction spans two statements.            *)
(***************************************************************************)
EXTENDS Integers, Sequences

CONSTANTS
  Names,        \* of agents
  Requests,     \* that may be under way at once
  TableOf,      \* table of each row
  ParentsOf,    \* rows that each row refers to
  Pushes,       \* what agents send: [name, method, msg], a message is a set of rows
  SaveRetries,  \* saveRetries
  Retention,    \* job histories to keep, RetentionBalanced
  MaxAgents,    \* bound: agents ever created
  MaxCalls      \* bound: requests ever made

Rows == DOMAIN TableOf
LocalAgentConfig == "local agent config"   \* LocalAgentConfigID, which every agent has

\* AddAgentConfig: the local agent's config is the config of the agent on the upstream.
AddAgentConfig(msg) == msg \ {LocalAgentConfig}

\* Rows have UUIDs that the agents made: no two agents push the same one.
UpstreamServerAssumption ==
  /\ SaveRetries \in Nat /\ Retention \in Nat /\ MaxAgents \in Nat /\ MaxCalls \in Nat
  /\ \A c \in Pushes : c.name \in Names /\ c.method \in {"push", "delete"} /\ c.msg \subseteq Rows
  /\ \A c, d \in Pushes :
       c.method = "push" /\ d.method = "push" /\ c.name # d.name =>
         AddAgentConfig(c.msg) \intersect AddAgentConfig(d.msg) = {}

VARIABLES
  agents,    \* the agents table: [name, live], an id is an index
  cache,     \* agentCache: the id for a name, 0 for none
  stored,    \* owner of each row, 0 for none, Absent
  reqs,      \* the handler of each request
  rings,     \* the histories in the ring of each agent
  added,     \* what was ever added to it since the server started
  evicted,   \* ids that the evictor is about to delete
  calls

vars == <<agents, cache, stored, reqs, rings, added, evicted, calls>>

Absent == -1

\* A handler: the part of its message that is left, the rows of the statement it is in and
\* those that failed it; ghost: the rows that were deleted since it was called.
NoRequest ==
  [pc |-> "idle", method |-> "push", name |-> "", agent |-> 0, msg |-> {}, todo |-> {},
   items |-> {}, failed |-> {}, retries |-> 0, histories |-> {}, lost |-> {}]

Init ==
  /\ agents = << >>
  /\ cache = [n \in Names |-> 0]
  /\ stored = [r \in Rows |-> Absent]
  /\ reqs = [q \in Requests |-> NoRequest]
  /\ rings = [a \in 1 .. MaxAgents |-> << >>]
  /\ added = [a \in 1 .. MaxAgents |-> << >>]
  /\ evicted = << >>
  /\ calls = 0

Goto(q, pc) == reqs' = [reqs EXCEPT ![q].pc = pc]

-----------------------------------------------------------------------------
(* AgentAuthMiddleware                                                     *)

Call(q, c) ==
  /\ calls < MaxCalls /\ calls' = calls + 1
  /\ reqs[q].pc \in {"idle", "ok", "conflict", "error"}
  /\ reqs' = [reqs EXCEPT ![q] =
                 [NoRequest EXCEPT !.pc = "auth", !.name = c.name, !.method = c.method, !.msg = c.msg]]
  /\ UNCHANGED <<agents, cache, stored, rings, added, evicted>>

\* PopulateAgentID: the tables whose rows get the id of the agent.
Owned == {"canaries", "checks", "components", "config_items", "config_scrapers", "topologies",
          "job_history", "view_panels", "generated_views"}

\* The handler starts, for the agent that was found.
Authenticated(q, agent) ==
  LET rows == IF reqs[q].method = "push" THEN AddAgentConfig(reqs[q].msg) ELSE reqs[q].msg
  IN  reqs' = [reqs EXCEPT ![q].pc = reqs[q].method, ![q].agent = agent, ![q].todo = rows,
                           ![q].histories = {r \in rows : TableOf[r] = "job_history"}]

CachedAgent(q) ==
  /\ reqs[q].pc = "auth" /\ cache[reqs[q].name] # 0
  /\ Authenticated(q, cache[reqs[q].name])
  /\ UNCHANGED <<agents, cache, stored, rings, added, evicted, calls>>

\* getAgent
LiveAgents(name) == {a \in DOMAIN agents : agents[a].name = name /\ agents[a].live}

FetchAgent(q) ==
  /\ reqs[q].pc = "auth" /\ cache[reqs[q].name] = 0
  /\ \/ LiveAgents(reqs[q].name) = {} /\ Goto(q, "create")
     \/ \E a \in LiveAgents(reqs[q].name) : reqs' = [reqs EXCEPT ![q].pc = "cache", ![q].agent = a]
  /\ UNCHANGED <<agents, cache, stored, rings, added, evicted, calls>>

\* createAgent: agents_name_key refuses a second live agent of a name.
CreateAgent(q) ==
  /\ reqs[q].pc = "create"
  /\ \/ /\ LiveAgents(reqs[q].name) = {} /\ Len(agents) < MaxAgents
        /\ agents' = Append(agents, [name |-> reqs[q].name, live |-> TRUE])
        /\ reqs' = [reqs EXCEPT ![q].pc = "cache", ![q].agent = Len(agents) + 1]
     \/ LiveAgents(reqs[q].name) # {} /\ Goto(q, "error") /\ UNCHANGED agents
  /\ UNCHANGED <<cache, stored, rings, added, evicted, calls>>

SetCache(q) ==
  /\ reqs[q].pc = "cache"
  /\ cache' = [cache EXCEPT ![reqs[q].name] = reqs[q].agent]
  /\ Authenticated(q, reqs[q].agent)
  /\ UNCHANGED <<agents, stored, rings, added, evicted, calls>>

\* An agent is deleted softly; its cached entry ends with its TTL.
DeleteAgent(a) ==
  /\ a \in DOMAIN agents /\ agents[a].live
  /\ agents' = [agents EXCEPT ![a].live = FALSE]
  /\ UNCHANGED <<cache, stored, reqs, rings, added, evicted, calls>>

Expire(name) ==
  /\ cache[name] # 0
  /\ cache' = [cache EXCEPT ![name] = 0]
  /\ UNCHANGED <<agents, stored, reqs, rings, added, evicted, calls>>

-----------------------------------------------------------------------------
(* NewPushHandler                                                          *)

\* InsertUpstreamMsg: its tables in order, and what it does with a foreign key error.
\*   each    row by row, the first error ends the request
\*   retry   row by row, those that failed again (saveIndividuallyWithRetries)
\*   report  as a batch, then row by row, those that failed are reported (handleUpsertError)
\*   batch   as a batch, an error ends the request
\*   insert  as a batch without a conflict clause (upsertViewData)
\*   update  rows that exist
InsertOrder ==
  <<<<"topologies", "each">>, <<"canaries", "each">>, <<"components", "retry">>,
    <<"component_relationships", "report">>, <<"config_scrapers", "each">>, <<"config_items", "report">>,
    <<"config_relationships", "report">>, <<"config_component_relationships", "report">>,
    <<"check_config_relationships", "report">>, <<"config_items_last_scraped_time", "report">>,
    <<"checks_unlogged", "batch">>, <<"config_changes", "report">>, <<"config_analysis", "report">>,
    <<"checks", "report">>, <<"artifacts", "batch">>, <<"job_history", "batch">>,
    <<"view_panels", "batch">>, <<"generated_views", "insert">>, <<"check_statuses", "report">>,
    <<"playbook_run_actions", "update">>>>

\* DeleteOnUpstream: its tables in order; errors of two of them are only logged, and more
\* than one column in the key of a view is an error, which every view has.
DeleteOrder ==
  <<<<"component_relationships", "rows">>, <<"config_relationships", "rows">>,
    <<"config_component_relationships", "rows">>, <<"check_config_relationships", "rows">>,
    <<"config_items_last_scraped_time", "rows">>, <<"checks_unlogged", "rows">>,
    <<"config_changes", "rows">>, <<"config_analysis", "rows">>, <<"check_statuses", "rows">>,
    <<"components", "logged">>, <<"config_items", "logged">>, <<"checks", "rows">>,
    <<"config_scrapers", "rows">>, <<"canaries", "rows">>, <<"topologies", "rows">>,
    <<"job_history", "rows">>, <<"view_panels", "rows">>, <<"generated_views", "refused">>>>

\* The first table of an order that the message has rows of.
First(order, msg) ==
  LET places == {i \in DOMAIN order : \E r \in msg : TableOf[r] = order[i][1]}
  IN  {order[i] : i \in {k \in places : \A j \in places : k <= j}}

\* A foreign key is satisfied by a stored row, or by one of the same statement; the local
\* agent's config was replaced by the one that the upstream has of the agent.
HasParents(r, with) ==
  \A p \in ParentsOf[r] \ {LocalAgentConfig} : stored[p] # Absent \/ p \in with

Store(q, rows) ==
  stored' = [r \in Rows |-> IF r \notin rows THEN stored[r]
                            ELSE IF TableOf[r] \in Owned THEN reqs[q].agent ELSE 0]

\* The table that a handler is at, its rows, and those of the tables after it.
At(q) == First(InsertOrder, reqs[q].todo)
Batch(q, t) == {r \in reqs[q].todo : TableOf[r] = t[1]}
After(q, t) == reqs[q].todo \ Batch(q, t)

Accepted(rows, how) ==
  \A r \in rows : HasParents(r, rows) /\ (how = "insert" => stored[r] = Absent)
NextTable(q, t) == reqs' = [reqs EXCEPT ![q].pc = "push", ![q].todo = After(q, t)]
OneByOne(q, rows) ==
  reqs' = [reqs EXCEPT ![q].pc = "rows", ![q].items = rows, ![q].failed = {}, ![q].retries = 0]

\* A batch goes in as a whole.
InsertBatch(q) ==
  /\ reqs[q].pc = "push"
  /\ \E t \in At(q) :
       LET rows == Batch(q, t) IN
       \/ t[2] = "update" /\ UNCHANGED stored /\ NextTable(q, t)
       \/ t[2] \in {"report", "batch", "insert"} /\ Accepted(rows, t[2]) /\ Store(q, rows) /\ NextTable(q, t)
       \/ t[2] = "report" /\ ~ Accepted(rows, t[2]) /\ UNCHANGED stored /\ OneByOne(q, rows)
       \/ t[2] \in {"batch", "insert"} /\ ~ Accepted(rows, t[2]) /\ UNCHANGED stored /\ Goto(q, "error")
  /\ UNCHANGED <<agents, cache, rings, added, evicted, calls>>

\* The loops of saveIndividuallyWithRetries and of the other tables.
InsertEach(q) ==
  /\ reqs[q].pc = "push"
  /\ \E t \in At(q) : t[2] \in {"each", "retry"} /\ OneByOne(q, Batch(q, t))
  /\ UNCHANGED <<agents, cache, stored, rings, added, evicted, calls>>

\* In the order of the message, which is any.
InsertRow(q) ==
  /\ reqs[q].pc = "rows"
  /\ \E t \in At(q), r \in reqs[q].items :
       \/ HasParents(r, {}) /\ Store(q, {r}) /\ reqs' = [reqs EXCEPT ![q].items = @ \ {r}]
       \/ /\ ~ HasParents(r, {}) /\ t[2] # "each" /\ UNCHANGED stored
          /\ reqs' = [reqs EXCEPT ![q].items = @ \ {r}, ![q].failed = @ \union {r}]
       \/ ~ HasParents(r, {}) /\ t[2] = "each" /\ UNCHANGED stored /\ Goto(q, "error")
  /\ UNCHANGED <<agents, cache, rings, added, evicted, calls>>

Again(q, t) == t[2] = "retry" /\ reqs[q].failed # {} /\ reqs[q].retries <= SaveRetries
Retry(q) ==
  reqs' = [reqs EXCEPT ![q].items = reqs[q].failed, ![q].failed = {}, ![q].retries = @ + 1]

\* Variant: a request whose rows were reported goes on with the next table.
RowsDoneGoingOn(q) ==
  /\ reqs[q].pc = "rows" /\ reqs[q].items = {}
  /\ \E t \in At(q) :
       \/ Again(q, t) /\ Retry(q)
       \/ ~ Again(q, t) /\ NextTable(q, t)
  /\ UNCHANGED <<agents, cache, stored, rings, added, evicted, calls>>

\* A batch that failed is reported even if its rows went in one by one, since their
\* parents had come meanwhile.
RowsDone(q) ==
  /\ reqs[q].pc = "rows" /\ reqs[q].items = {}
  /\ \E t \in At(q) :
       \/ Again(q, t) /\ Retry(q)
       \/ ~ Again(q, t) /\ (t[2] = "report" \/ reqs[q].failed # {}) /\ Goto(q, "conflict")
       \/ t[2] # "report" /\ reqs[q].failed = {} /\ NextTable(q, t)
  /\ UNCHANGED <<agents, cache, stored, rings, added, evicted, calls>>

-----------------------------------------------------------------------------
(* addJobHistoryToRing                                                     *)

\* Variant: a history makes room before the ring is full.
AddHistoryOneShort(q) ==
  /\ reqs[q].pc = "push" /\ reqs[q].todo = {}
  /\ \E h \in reqs[q].histories :
       LET a == reqs[q].agent
           ring == Append(rings[a], h)
           full == Len(ring) >= Retention
       IN  /\ rings' = [rings EXCEPT ![a] = IF full THEN Tail(ring) ELSE ring]
           /\ evicted' = IF full THEN Append(evicted, Head(ring)) ELSE evicted
           /\ added' = [added EXCEPT ![a] = Append(@, h)]
           /\ reqs' = [reqs EXCEPT ![q].histories = @ \ {h}]
  /\ UNCHANGED <<agents, cache, stored, calls>>

\* simpleStatusRingManager.Add, for histories of one job and of one status: the ring of
\* the agent is created empty, whatever the table holds.
AddHistory(q) ==
  /\ reqs[q].pc = "push" /\ reqs[q].todo = {}
  /\ \E h \in reqs[q].histories :
       LET a == reqs[q].agent
           ring == Append(rings[a], h)
           full == Len(ring) > Retention
       IN  /\ rings' = [rings EXCEPT ![a] = IF full THEN Tail(ring) ELSE ring]
           /\ evicted' = IF full THEN Append(evicted, Head(ring)) ELSE evicted
           /\ added' = [added EXCEPT ![a] = Append(@, h)]
           /\ reqs' = [reqs EXCEPT ![q].histories = @ \ {h}]
  /\ UNCHANGED <<agents, cache, stored, calls>>

\* UpdateAgentLastReceived, whose error is only logged, and the answer.
AnswerPush(q) ==
  /\ reqs[q].pc = "push" /\ reqs[q].todo = {} /\ reqs[q].histories = {}
  /\ Goto(q, "ok")
  /\ UNCHANGED <<agents, cache, stored, rings, added, evicted, calls>>

\* Rows disappear; every request under way may have counted on them.
Vanish(rows, without) ==
  /\ stored' = [r \in Rows |-> IF r \in rows THEN Absent ELSE stored[r]]
  /\ reqs' = [q \in Requests |-> [without[q] EXCEPT !.lost = @ \union rows]]

Children(rows) == {r \in Rows : stored[r] # Absent /\ ParentsOf[r] \intersect rows # {}}

\* deleteEvictedJobs of job/job.go
Evict ==
  /\ evicted # << >>
  /\ Vanish({Head(evicted)}, reqs)
  /\ evicted' = Tail(evicted)
  /\ UNCHANGED <<agents, cache, rings, added, calls>>

-----------------------------------------------------------------------------
(* DeleteHandler                                                           *)

DeleteRows(q) ==
  /\ reqs[q].pc = "delete"
  /\ \E t \in First(DeleteOrder, reqs[q].todo) :
       LET how == t[2]
           rows == {r \in reqs[q].todo : TableOf[r] = t[1]}
           rest == [reqs EXCEPT ![q].todo = @ \ rows]
           free == Children(rows) \subseteq rows
       IN  \/ how # "refused" /\ free /\ Vanish(rows, rest)
           \/ how = "logged" /\ ~ free /\ reqs' = rest /\ UNCHANGED stored
           \/ (how = "refused" \/ (how = "rows" /\ ~ free)) /\ Goto(q, "error") /\ UNCHANGED stored
  /\ UNCHANGED <<agents, cache, rings, added, evicted, calls>>

AnswerDelete(q) ==
  /\ reqs[q].pc = "delete" /\ First(DeleteOrder, reqs[q].todo) = {}
  /\ Goto(q, "ok")
  /\ UNCHANGED <<agents, cache, stored, rings, added, evicted, calls>>

\* The server is restarted: requests get no answer, the cache and the rings are gone.
Restart ==
  /\ \E q \in Requests : reqs[q].pc \notin {"idle", "ok", "conflict", "error"}
  /\ reqs' = [q \in Requests |-> NoRequest]
  /\ cache' = [n \in Names |-> 0]
  /\ rings' = [a \in 1 .. MaxAgents |-> << >>]
  /\ added' = [a \in 1 .. MaxAgents |-> << >>]
  /\ evicted' = << >>
  /\ UNCHANGED <<agents, stored, calls>>

-----------------------------------------------------------------------------

Handle(q) ==
  \/ CachedAgent(q) \/ FetchAgent(q) \/ CreateAgent(q) \/ SetCache(q)
  \/ InsertBatch(q) \/ InsertEach(q) \/ InsertRow(q) \/ RowsDone(q)
  \/ AddHistory(q) \/ AnswerPush(q) \/ DeleteRows(q) \/ AnswerDelete(q)

Next ==
  \/ \E q \in Requests, c \in Pushes : Call(q, c)
  \/ \E q \in Requests : Handle(q)
  \/ \E a \in 1 .. MaxAgents : DeleteAgent(a)
  \/ \E name \in Names : Expire(name)
  \/ Evict
  \/ Restart

Spec == Init /\ [][Next]_vars

-----------------------------------------------------------------------------
(* Properties.                                                             *)

\* The rows that an answer lets the agent mark as pushed: all of them, or those of the
\* tables up to the one with errors that are not reported.
Promised(q) ==
  LET rows == AddAgentConfig(reqs[q].msg)
  IN  CASE reqs[q].method = "push" /\ reqs[q].pc = "ok" -> rows
        [] reqs[q].method = "push" /\ reqs[q].pc = "conflict" -> rows \ UNION {reqs[q].failed \union After(q, t) : t \in At(q)}
        [] OTHER -> {}

\* NewPushHandler and InsertUpstreamMsg: what an answer promises is in the tables unless
\* it was deleted since, and belongs to an agent of the name that pushed it.
AnsweredAreStored ==
  \A q \in Requests : \A r \in Promised(q) \ reqs[q].lost :
    /\ TableOf[r] # "playbook_run_actions" => stored[r] # Absent
    /\ stored[r] > 0 => agents[stored[r]].name = reqs[q].name

AddedOnce ==
  \A a, b \in DOMAIN added : \A m \in DOMAIN added[a], n \in DOMAIN added[b] :
    added[a][m] = added[b][n] => a = b /\ m = n

\* StatusRing.Add, for agents: a history is evicted when there are as many newer ones as
\* are to be kept, unless one of them was pushed more than once.
EvictedAreOld ==
  AddedOnce =>
    \A i \in DOMAIN evicted : \A a \in DOMAIN added : \A n \in DOMAIN added[a] :
      evicted[i] = added[a][n] => Len(added[a]) - n >= Retention
=============================================================================
