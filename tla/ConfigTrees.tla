---------------------------- MODULE ConfigTrees ----------------------------
(***************************************************************************)
(* query/config_tree.go and query/config_relations.go: the tree of a       *)
(* config item, from its ancestors, its descendants and the items it is    *)
(* related to, and the merge of several such trees.                        *)
(*                                                                         *)
(* A catalog c has, for every id, its parent (None for a root) and its     *)
(* path, the ids from its root to itself or nothing; the deleted ids, the  *)
(* ones among them that are still cached, and the relationships, a set of  *)
(* <<config, related, kind>>.  Ids are numbers, which are also the order   *)
(* of the items' types and names.  In a tree being built an item may have  *)
(* several nodes: a node is <<id, edge type>>.                             *)
(***************************************************************************)
EXTENDS Naturals, SequencesExt

None == 0

\* ConfigItemFromCache: a cached item, or a row that is not deleted.
ConfigItemFromCache(c, id) == id \notin c.deleted \/ id \in c.cached

-----------------------------------------------------------------------------
(* What a tree is made of.                                                 *)

\* resolveParentsFromPath and getExistingConfigsByIDs.
Parents(c, id) == SelectSeq(c.path[id], LAMBDA p : p # id /\ ConfigItemFromCache(c, p))

\* lookup_config_children: the rows below one, none of them deleted.
RECURSIVE Below(_, _, _)
Below(c, ids, level) ==
  LET next == {i \in DOMAIN c.parent : c.parent[i] \in ids /\ i \notin c.deleted} IN
  IF level = 0 \/ next = {} THEN ids ELSE ids \union Below(c, next, level - 1)

ExpandConfigChildren(c, ids) ==
  ids \union UNION {IF id \in c.deleted THEN {} ELSE Below(c, {id}, 10) : id \in ids}

Matching(kind, relation) == relation \in {"both", "soft"} \/ kind = "hard"

\* config_relationships_recursive: relationships away from an item, or towards it.
\* The query for outgoing ones reads the incoming kind where it means its own.
RECURSIVE Edges(_, _, _, _, _)
Edges(c, ids, direction, q, depth) ==
  LET one == {r \in c.relations :
                IF direction = "outgoing"
                THEN r[1] \in ids /\ (q.incoming = "soft" \/ q.outgoing = "both" \/ (q.outgoing = "hard" /\ r[3] = "hard"))
                ELSE r[2] \in ids /\ Matching(r[3], q.incoming)}
      next == {IF direction = "outgoing" THEN r[2] ELSE r[1] : r \in one} IN
  IF depth = 0 \/ one = {} THEN {} ELSE one \union Edges(c, next, direction, q, depth - 1)

\* get_recursive_path: from each ancestor on the path to the next one.
PathEdges(c, id) ==
  LET up == SelectSeq(c.path[id], LAMBDA p : p # id) \o <<id>> IN
  {<<up[i], up[i + 1], "parent">> : i \in 1..Len(up) - 1}

InOrder(ids) == SetToSortSeq(ids, LAMBDA a, b : a < b)

\* The items of relationships but one item itself, each with the ones it points at,
\* those next to that item first.
NearestFirst(c, id, edges, depth) ==
  LET found == {e[1] : e \in edges} \union (IF depth > 0 THEN {e[2] : e \in edges} ELSE {})
      near == {e[2] : e \in {x \in edges : x[1] = id}} \union {e[1] : e \in {x \in edges : x[2] = id}}
      live == (found \ {id}) \ c.deleted
      items == InOrder(live \intersect near) \o InOrder(live \ near) IN
  [i \in DOMAIN items |-> [id |-> items[i], relatedIDs |-> InOrder({e[2] : e \in {x \in edges : x[1] = items[i]}})]]

\* GetRelatedConfigs
GetRelatedConfigs(c, q) ==
  LET depth == IF q.depth = None THEN 5 ELSE q.depth
      Of(direction) == Edges(c, {q.id}, direction, q, depth) IN
  NearestFirst(c, q.id, PathEdges(c, q.id) \union
                          (IF q.relation = "all" THEN Of("incoming") \union Of("outgoing") ELSE Of(q.relation)), depth)

-----------------------------------------------------------------------------
(* buildConfigTree.                                                        *)

\* resolveChildParent: the parent itself, else the nearest ancestor of the path that is
\* there, the target last.
ResolveChildParent(c, child, at, target) ==
  LET path == Reverse(c.path[child])
      there == SelectSeq(path, LAMBDA p : p # child /\ at[p] # "")
      others == SelectSeq(there, LAMBDA p : p # target) IN
  IF c.parent[child] # None /\ c.parent[child] # child /\ at[c.parent[child]] # "" THEN c.parent[child]
  ELSE IF others # << >> THEN Head(others) ELSE target

\* attachRelatedByAdjacency: related items nobody related points at hang from the target,
\* the ones they point at from them, and so on; what is not reached hangs from the target.
RECURSIVE Attach(_, _, _, _)
Attach(queue, out, at, hang) ==
  IF queue = << >> THEN hang
  ELSE LET p == Head(queue)
           new == SelectSeq(out[p], LAMBDA i : at[i] = "related" /\ i \notin DOMAIN hang)
       IN  Attach(Tail(queue) \o new, out, at, [i \in Range(new) |-> p] @@ hang)

\* Variant: related items that only point at each other are left out.
WithoutOrphans(related, at, target) ==
  LET ids == {related[i].id : i \in DOMAIN related}
      out == [id \in ids |-> (CHOOSE r \in Range(related) : r.id = id).relatedIDs]
      seeds == SelectSeq([i \in DOMAIN related |-> related[i].id],
                         LAMBDA i : at[i] = "related" /\ \A id \in ids : i \notin Range(out[id]))
  IN  Attach(seeds, out, at, [i \in Range(seeds) |-> target])

AttachRelatedByAdjacency(related, at, target) ==
  LET ids == {related[i].id : i \in DOMAIN related}
      out == [id \in ids |-> SelectSeq((CHOOSE r \in Range(related) : r.id = id).relatedIDs, LAMBDA i : i # id)]
      incoming == UNION {Range(out[id]) : id \in ids}
      seeds == SelectSeq([i \in DOMAIN related |-> related[i].id],
                         LAMBDA i : at[i] = "related" /\ i \notin incoming)
      reached == Attach(seeds, out, at, [i \in Range(seeds) |-> target])
  IN  reached @@ [i \in {x \in ids : at[x] = "related"} |-> target]

\* The nodes, by id, and what hangs from each of them.
BuildConfigTree(c, id, parents, children, related) ==
  LET ancestors == [i \in DOMAIN parents |-> <<parents[i], "parent">>] \o << <<id, "target">> >>
      chain == {<<ancestors[i], ancestors[i + 1]>> : i \in 1..Len(parents)}
      known == [i \in DOMAIN c.parent |->
                  CASE i \in children -> "child" [] i = id -> "target" [] i \in Range(parents) -> "parent" [] OTHER -> ""]
      at == [i \in DOMAIN c.parent |->
               IF known[i] = "" /\ \E r \in Range(related) : r.id = i THEN "related" ELSE known[i]]
      below == {<<LET p == ResolveChildParent(c, i, known, id) IN <<p, known[p]>>, <<i, "child">> >> : i \in children}
      hang == AttachRelatedByAdjacency(related, at, id)
      beside == {<< <<hang[i], at[hang[i]]>>, <<i, "related">> >> : i \in DOMAIN hang}
  IN  [root |-> IF parents = << >> THEN <<id, "target">> ELSE <<parents[1], at[parents[1]]>>,
       edges |-> chain \union below \union beside]

\* toConfigTreeNode: a node met again is left without children; siblings are sorted.
RECURSIVE ToConfigTreeNode(_, _, _)
ToConfigTreeNode(g, node, visited) ==
  LET kids == SetToSortSeq({e[2] : e \in {x \in g.edges : x[1] = node}}, LAMBDA a, b : a[1] < b[1])
      Add(acc, kid) == LET sub == ToConfigTreeNode(g, kid, acc.visited)
                       IN  [children |-> Append(acc.children, sub.tree), visited |-> sub.visited]
      all == IF node \in visited THEN [children |-> << >>, visited |-> visited]
             ELSE FoldLeft(Add, [children |-> << >>, visited |-> visited \union {node}], kids)
  IN  [tree |-> [id |-> node[1], edge |-> node[2], children |-> all.children], visited |-> all.visited]
TreeOf(g) == ToConfigTreeNode(g, g.root, {}).tree

ConfigTree(c, id, opts) ==
  LET children == {i \in ExpandConfigChildren(c, {id}) \ {id} : ConfigItemFromCache(c, i)}
      related == GetRelatedConfigs(c, [id |-> id, relation |-> opts.direction, incoming |-> opts.incoming,
                                       outgoing |-> opts.outgoing, depth |-> None])
  IN  TreeOf(BuildConfigTree(c, id, Parents(c, id), children, related))

\* ConfigTree's defaults.
DefaultOptions == [direction |-> "all", incoming |-> "hard", outgoing |-> "both"]

-----------------------------------------------------------------------------
(* MergeConfigTrees.  A forest has one node for each id: its edge type and *)
(* the ids of its children.                                                *)

RECURSIVE Clone(_, _)
RECURSIVE MergeInto(_, _)

\* cloneConfigTree: a node whose id is known is merged into the one that has it.
Clone(nodes, tree) ==
  LET Add(known, kid) == LET more == Clone(known, kid)
                         IN  [more EXCEPT ![tree.id].children = Append(@, kid.id)]
  IN  IF tree.id \in DOMAIN nodes THEN MergeInto(nodes, tree)
      ELSE FoldLeft(Add, (tree.id :> [edge |-> tree.edge, children |-> << >>]) @@ nodes, tree.children)

\* mergeConfigTreeInto: a target stays one, and children are added that are not there.
MergeInto(nodes, tree) ==
  LET marked == IF tree.edge = "target" THEN [nodes EXCEPT ![tree.id].edge = "target"] ELSE nodes
      Add(acc, kid) ==
        IF kid.id \in acc.existing THEN [acc EXCEPT !.nodes = MergeInto(@, kid)]
        ELSE [nodes |-> [Clone(acc.nodes, kid) EXCEPT ![tree.id].children = Append(@, kid.id)],
              existing |-> acc.existing \union {kid.id}]
  IN  FoldLeft(Add, [nodes |-> marked, existing |-> Range(nodes[tree.id].children)], tree.children).nodes

MergeConfigTrees(trees) ==
  LET Add(forest, tree) ==
        [roots |-> IF tree.id \in DOMAIN forest.nodes THEN forest.roots ELSE Append(forest.roots, tree.id),
         nodes |-> Clone(forest.nodes, tree)]
  IN  FoldLeft(Add, [roots |-> << >>, nodes |-> [i \in {} |-> None]], trees)

\* OutgoingIDs and collectOutgoing: the ids of a tree but the ancestors', each once.
RECURSIVE CollectOutgoing(_, _)
CollectOutgoing(tree, acc) ==
  IF tree.id \in acc.seen THEN acc
  ELSE FoldLeft(LAMBDA a, kid : CollectOutgoing(kid, a),
                [seen |-> acc.seen \union {tree.id},
                 ids |-> IF tree.edge # "parent" THEN Append(acc.ids, tree.id) ELSE acc.ids], tree.children)
OutgoingIDs(tree) == CollectOutgoing(tree, [seen |-> {}, ids |-> << >>]).ids

\* Every id of a tree, as often as it is there.
RECURSIVE Ids(_)
Ids(tree) == <<tree.id>> \o FlattenSeq([i \in DOMAIN tree.children |-> Ids(tree.children[i])])
RECURSIVE Links(_)
Links(tree) == UNION {{<<tree.id, kid.id>>} \union Links(kid) : kid \in Range(tree.children)}
RECURSIVE Targets(_)
Targets(tree) == (IF tree.edge = "target" THEN {tree.id} ELSE {}) \union UNION {Targets(kid) : kid \in Range(tree.children)}

-----------------------------------------------------------------------------
(* Properties.                                                             *)

\* buildConfigTree: every ancestor, descendant and related item of a config is in its
\* tree, and none of them twice ("so we never append the same child twice").
Complete(c, id, opts) ==
  LET tree == ConfigTree(c, id, opts)
      q == [id |-> id, relation |-> opts.direction, incoming |-> opts.incoming, outgoing |-> opts.outgoing, depth |-> None]
  IN  /\ IsInjective(Ids(tree))
      /\ Range(Ids(tree)) = {id} \union Range(Parents(c, id)) \union ExpandConfigChildren(c, {id})
                            \union {r.id : r \in Range(GetRelatedConfigs(c, q))}
      /\ \A link \in Links(tree) : c.parent[link[2]] \in Range(Ids(tree)) /\ link[2] \in ExpandConfigChildren(c, {id}) \ {id}
                                     => link[1] = c.parent[link[2]]

RECURSIVE Reachable(_, _)
Reachable(nodes, ids) ==
  LET next == ids \union UNION {Range(nodes[i].children) : i \in ids} IN
  IF next = ids THEN ids ELSE Reachable(nodes, next)

\* MergeConfigTrees: what is in one of the trees is in the merged ones, below what it was
\* below, and a target stays a target.
MergeKeeps(trees) ==
  LET forest == MergeConfigTrees(trees) IN
  /\ Reachable(forest.nodes, Range(forest.roots)) = UNION {Range(Ids(t)) : t \in Range(trees)}
  /\ \A t \in Range(trees) : \A link \in Links(t) : link[2] \in Range(forest.nodes[link[1]].children)
  /\ {i \in DOMAIN forest.nodes : forest.nodes[i].edge = "target"} = UNION {Targets(t) : t \in Range(trees)}
=============================================================================
