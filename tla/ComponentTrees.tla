--------------------------- MODULE ComponentTrees ---------------------------
(***************************************************************************)
(* query/topology.go: the components of a topology, read with two queries  *)
(* and hung into a tree through their parents and their relationships,     *)
(* each with the health and the summary of what is below it.               *)
(*                                                                         *)
(* A component has an id, its parent's id or None, its path (the ids above *)
(* it), type, owner, agent, labels, status, health, expressions for both   *)
(* or "", the healths that its checks have, and whether it is deleted.     *)
(* Ids are numbers in the order the queries return them; rels is the set   *)
(* of <<component, relationship>> rows that are not deleted.               *)
(***************************************************************************)
EXTENDS Naturals, SequencesExt

None == 0
DefaultDepth == 5
\* The depth of Summarize, "to prevent cyclic stackoverflow".
SummaryDepth == 10

-----------------------------------------------------------------------------
(* The queries of fetchAllComponents.                                      *)

Selected(c, o) == o.labels \subseteq c.labels /\ o.owner \in {"", c.owner}
\* componentWhereClause
ComponentWhereClause(c, o, rest) ==
  /\ ~c.deleted /\ Selected(c, o) /\ o.agent \in {"", c.agent}
  /\ IF o.id = None THEN (c.parent = None) = ~rest
     ELSE IF ~rest THEN c.id = o.id \/ c.parent = o.id
     ELSE o.id \in c.path /\ c.id # o.id /\ c.parent # None /\ c.parent # o.id

\* componentRelationWhereClause, of the component a relationship hangs another one from.
ComponentRelationWhereClause(p, o, rest) ==
  /\ ~p.deleted /\ Selected(p, o)
  /\ IF o.id = None THEN rest
     ELSE p.id = o.id \/ (IF rest THEN o.id \in p.path /\ p.parent # None /\ p.parent # o.id ELSE p.parent = o.id)

\* generateQuery: the ids that the topology view is asked for.
GenerateQuery(comps, rels, o, rest) ==
  LET ById(id) == CHOOSE c \in comps : c.id = id IN
  {c.id : c \in {x \in comps : ComponentWhereClause(x, o, rest)}}
    \union {r[1] : r \in {x \in rels : ComponentRelationWhereClause(ById(x[2]), o, rest)}}

\* fetchAllComponents: what the second query adds goes after what the first one found.
FetchAllComponents(comps, rels, o) ==
  LET live == {c.id : c \in {x \in comps : ~x.deleted}}
      InOrder(ids) == SetToSortSeq(ids, LAMBDA a, b : a < b)
      direct == GenerateQuery(comps, rels, o, FALSE) \intersect live
      others == GenerateQuery(comps, rels, o, TRUE) \intersect live
  IN  InOrder(direct) \o InOrder(others \ direct)

\* CacheKey: what does not change the queries is left out of it.
CacheKey(o) == [id |-> o.id, owner |-> o.owner, labels |-> o.labels, agent |-> o.agent]

-----------------------------------------------------------------------------
(* Health and summary.                                                     *)

\* WorseHealth
WorseHealth(healths) ==
  CASE "unhealthy" \in healths -> "unhealthy" [] "warning" \in healths -> "warning" [] OTHER -> "healthy"

NoSummary == [healthy |-> 0, unhealthy |-> 0, warning |-> 0, info |-> 0, done |-> FALSE]

\* Summary.Add
AddSummary(s, b) ==
  [s EXCEPT !.healthy = @ + (IF b.healthy > 0 /\ b.unhealthy = 0 THEN 1 ELSE 0),
            !.unhealthy = @ + (IF b.unhealthy > 0 /\ b.healthy = 0 THEN 1 ELSE 0),
            !.warning = @ + (IF b.unhealthy > 0 /\ b.healthy > 0 THEN 1 ELSE 0) + b.warning,
            !.info = @ + b.info]

\* Component.Summarize: a leaf counts itself, by its status, and the others their children.
RECURSIVE Summarize(_, _, _)
Summarize(st, id, depth) ==
  LET c == st[id]
      own == IF c.status \in {"healthy", "unhealthy", "warning", "info"} THEN [NoSummary EXCEPT ![c.status] = 1] ELSE NoSummary
      all == FoldLeft(LAMBDA s, kid : AddSummary(s, Summarize(st, kid, depth - 1)), NoSummary, c.components)
  IN  IF depth = 0 \/ c.summary.done THEN c.summary
      ELSE [(IF c.components = << >> THEN own ELSE all) EXCEPT !.done = TRUE]

\* HealthExpr and StatusExpr: expressions over the summary, one of which fails.
EvalExpr(expr, s) ==
  CASE expr = "strict" -> IF s.healthy > 0 /\ s.unhealthy + s.warning = 0 THEN "healthy" ELSE "unhealthy"
    [] OTHER -> "error"

\* GetHealth: the worst of its own, of its checks' and of its children's.
GetHealth(st, id) ==
  LET c == st[id] IN
  IF c.healthExpr # "" THEN EvalExpr(c.healthExpr, c.summary)
  ELSE WorseHealth({c.health} \union c.checks \union {st[kid].health : kid \in Range(c.components)})

\* GetStatus
GetStatus(c) == IF c.statusExpr # "" THEN EvalExpr(c.statusExpr, c.summary) ELSE c.status

\* IsHealthy, of a summary.
IsHealthy(s) == s.healthy > 0 /\ s.unhealthy = 0 /\ s.warning = 0

-----------------------------------------------------------------------------
(* The tree.  While it is built, st has the components by id, each with    *)
(* its children and whether it was processed.                              *)

Failed == [i \in {None} |-> TRUE]

\* generateTree: a component that was processed stays as it is.
RECURSIVE GenerateTree(_, _, _)
GenerateTree(ids, children, st) ==
  LET Process(acc, id) ==
        LET met == [acc EXCEPT ![id].processed = TRUE]
            below == GenerateTree(children[id], children, met)
            hung == [below EXCEPT ![id].components = children[id]]
            summed == [hung EXCEPT ![id].summary = Summarize(hung, id, SummaryDepth)]
            health == GetHealth(summed, id)
            status == GetStatus(summed[id])
        IN  IF acc = Failed \/ acc[id].processed THEN acc
            ELSE IF below = Failed \/ health = "error" \/ status = "error" THEN Failed
            ELSE [summed EXCEPT ![id].health = health, ![id].status = status]
  IN  FoldLeft(Process, st, ids)

\* createComponentTree: a component hangs from its parent, if that was fetched, and from
\* every component it has a relationship to; its checks move to its summary.
CreateComponentTree(comps, rels, o, ids) ==
  LET ById(id) == CHOOSE c \in comps : c.id = id
      Hung(c, p) == (IF c.parent = p THEN <<c.id>> ELSE << >>) \o (IF <<c.id, p>> \in rels THEN <<c.id>> ELSE << >>)
      children == [p \in Range(ids) |-> FlattenSeq([i \in DOMAIN ids |-> Hung(ById(ids[i]), p)])]
      st == [id \in Range(ids) |-> [components |-> << >>, processed |-> FALSE, summary |-> NoSummary, checks |-> {}]
                                     @@ ById(id)]
      roots == SelectSeq(ids, LAMBDA id : IF o.id # None THEN id = o.id ELSE ById(id).parent = None)
  IN  [roots |-> roots, st |-> GenerateTree(roots, children, st)]

\* matchItems: an excluded item loses, then any included one or * wins.
MatchItems(item, items) ==
  \/ items = {}
  \/ <<"!", item>> \notin items /\ (<<"", "*">> \in items \/ <<"", item>> \in items)

\* applyTypeFilter
ApplyTypeFilter(comps, ids, types) ==
  SelectSeq(ids, LAMBDA id : MatchItems((CHOOSE c \in comps : c.id = id).type, types))

\* applyDepthFilter: copies of the components, down to a depth.
RECURSIVE ApplyDepthFilter(_, _, _)
ApplyDepthFilter(st, ids, depth) ==
  [i \in DOMAIN ids |->
     [id |-> ids[i], health |-> st[ids[i]].health, status |-> st[ids[i]].status, summary |-> st[ids[i]].summary,
      components |-> IF depth = 1 THEN << >> ELSE ApplyDepthFilter(st, st[ids[i]].components, depth - 1)]]

\* applyStatusFilter: of the roots, unless one was asked for, and of their children.
ApplyStatusFilter(nodes, keepRoot, statuses) ==
  IF statuses = {} THEN nodes
  ELSE LET kept == SelectSeq(nodes, LAMBDA n : keepRoot \/ MatchItems(n.status, statuses))
       IN  [i \in DOMAIN kept |->
              [kept[i] EXCEPT !.components = SelectSeq(@, LAMBDA n : MatchItems(n.status, statuses))]]

\* Topology, from what was fetched, cached or not: flat or as a tree.
Topology(comps, rels, o) ==
  LET ids == ApplyTypeFilter(comps, FetchAllComponents(comps, rels, o), o.types)
      tree == CreateComponentTree(comps, rels, o, ids)
      flat == [id \in Range(ids) |-> [components |-> << >>, summary |-> NoSummary] @@ (CHOOSE c \in comps : c.id = id)]
      depth == IF o.depth <= 0 THEN DefaultDepth ELSE o.depth
  IN  IF ~o.flatten /\ tree.st = Failed THEN << >>
      ELSE ApplyStatusFilter(IF o.flatten THEN ApplyDepthFilter(flat, ids, depth)
                             ELSE ApplyDepthFilter(tree.st, tree.roots, depth), o.id # None, o.statuses)

\* Components.Walk
RECURSIVE Walk(_)
Walk(nodes) == FlattenSeq([i \in DOMAIN nodes |-> <<nodes[i]>> \o Walk(nodes[i].components)])

\* NewTopologyParams, of a request that asks for nothing but an id.
NewTopologyParams(id) ==
  [id |-> id, owner |-> "", labels |-> {}, agent |-> "", types |-> {}, statuses |-> {}, depth |-> DefaultDepth, flatten |-> FALSE]

-----------------------------------------------------------------------------
(* Properties.                                                             *)

Hangs(comps, rels, c, p) == c.parent = p.id \/ <<c.id, p.id>> \in rels
RECURSIVE Under(_, _, _)
Under(comps, rels, some) ==
  LET next == some \union {c \in comps : ~c.deleted /\ \E p \in some : Hangs(comps, rels, c, p)} IN
  IF next = some THEN some ELSE Under(comps, rels, next)

\* Topology: every component that is not deleted and hangs from a root through such
\* components is shown, with the worst health of what is below it; and none that is
\* summarised as healthy is above a leaf that is not.
TreeShowsHealth(comps, rels) ==
  LET shown == Range(Walk(Topology(comps, rels, NewTopologyParams(None))))
      roots == {c \in comps : ~c.deleted /\ c.parent = None}
      Below(n) == Under(comps, rels, {c \in comps : c.id = n.id})
      Leaves(n) == {c \in Below(n) : \A d \in comps : d.deleted \/ ~Hangs(comps, rels, d, c)}
  IN  (\A c \in comps : c.healthExpr # "wrong") =>
      /\ {n.id : n \in shown} = {c.id : c \in Under(comps, rels, roots)}
      /\ \A n \in shown :
           (\A c \in Below(n) : c.healthExpr = "") => n.health = WorseHealth({c.health : c \in Below(n)})
      /\ \A n \in shown : IsHealthy(n.summary) => \A c \in Leaves(n) : c.status \notin {"unhealthy", "warning"}
=============================================================================
