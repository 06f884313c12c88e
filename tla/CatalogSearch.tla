---------------------------- MODULE CatalogSearch ----------------------------
(***************************************************************************)
(* The search of config changes: query/catalog_search.go and               *)
(* query/config_changes.go over the view catalog_changes and the function  *)
(* related_changes_recursive (views/006_config_views.sql).                 *)
(*                                                                         *)
(* A filter on a column is [ok, not, in]: whether its text can be decoded, *)
(* and the values it asks for or excludes; All is the empty text.  A       *)
(* severity is <<"is" or "not", text>>.  A time is a positive number,      *)
(* NoTime or, when it is neither RFC3339 nor datemath, BadTime; the        *)
(* default of two days ago is Recent.  An id is a text of parts, each      *)
(* <<"uuid", config>>, <<"not", config>> or <<"search", text>>.            *)
(***************************************************************************)
EXTENDS Integers, Sequences, FiniteSets, SequencesExt

Recent == 2
NoTime == 0
BadTime == -1
IsTime(t) == t > 0
All == [ok |-> TRUE, not |-> FALSE, in |-> {}]
Failed == [err |-> TRUE]
Defaults ==
  [id |-> << >>, lenient |-> FALSE, configType |-> All, deleted |-> FALSE, agent |-> "", tags |-> All, from |-> NoTime, to |-> NoTime,
   fromInserted |-> NoTime, toInserted |-> NoTime, recursive |-> "", soft |-> FALSE, depth |-> 0, page |-> 0, pageSize |-> 0, sortBy |-> "",
   desc |-> FALSE, changeType |-> All, severity |-> <<"is", "">>, summary |-> All, source |-> All, createdBy |-> All]

Directions == {"upstream", "downstream", "none", "all"}
SortColumns == {"name", "change_type", "summary", "source", "created_at", "count"}
Severities == <<"critical", "high", "medium", "low", "info">>

\* SetDefaults
SetDefaults(req) ==
  [req EXCEPT !.from = IF req.from = NoTime /\ req.to = NoTime THEN Recent ELSE @,
              !.pageSize = IF @ <= 0 THEN 50 ELSE @, !.page = IF @ <= 0 THEN 1 ELSE @, !.depth = IF @ <= 0 THEN 5 ELSE @,
              !.recursive = IF @ = "" THEN "downstream" ELSE @]

Times == {"from", "to", "fromInserted", "toInserted"}
\* Validate: what of a request is invalid, and the request without it.  A time that is
\* after the other one does not count when that one is invalid itself.
Reversed(from, to) == IsTime(from) /\ IsTime(to) /\ from >= to
Invalid(req) ==
  {field \in Times : req[field] = BadTime}
  \union (IF Reversed(req.from, req.to) THEN {"to"} ELSE {})
  \union (IF Reversed(req.fromInserted, req.toInserted) THEN {"toInserted"} ELSE {})
  \union (IF req.agent = "bad" THEN {"agent"} ELSE {})
  \union (IF req.recursive \notin Directions THEN {"recursive"} ELSE {})
  \union (IF req.sortBy # "" /\ req.sortBy \notin SortColumns THEN {"sortBy"} ELSE {})
Cleared(req, fields) ==
  [field \in DOMAIN req |-> IF field \notin fields THEN req[field] ELSE
                                 IF field \in Times THEN NoTime ELSE IF field = "recursive" THEN "downstream" ELSE ""]
\* Variant: a range that is reversed loses its start too.
ValidateBoth(req) ==
  LET fields == Invalid(req) \union IF Reversed(req.from, req.to) THEN {"from"} ELSE {} IN
  IF Invalid(req) # {} /\ ~req.lenient THEN Failed ELSE [err |-> FALSE, req |-> Cleared(req, fields)]
Validate(req) ==
  IF Invalid(req) # {} /\ ~req.lenient THEN Failed ELSE [err |-> FALSE, req |-> Cleared(req, Invalid(req))]

\* HasCatalogIDFilter
HasCatalogIDFilter(req) == \E i \in DOMAIN req.id : req.id[i][1] = "not"
\* ResolveConfigIDs: the ids of a list of them or, unless some are excluded, the configs
\* that the text finds, after those that were read before it turned out not to be a list.
ResolveConfigIDs(world, req) ==
  LET other == SelectInSeq(req.id, LAMBDA p : p[1] # "uuid")
      read == [i \in 1 .. (IF other = 0 THEN Len(req.id) ELSE other - 1) |-> req.id[i][2]] IN
  IF req.id = << >> THEN [err |-> FALSE, ids |-> << >>]
  ELSE IF other = 0 THEN [err |-> FALSE, ids |-> read]
  ELSE IF HasCatalogIDFilter(req) THEN [err |-> FALSE, ids |-> << >>]
  ELSE IF world.searched = Failed THEN Failed
  ELSE [err |-> FALSE, ids |-> read \o world.searched.ids]

\* A filter on a column that can be null.
Passes(filter, value) ==
  \/ filter = All
  \/ value # "" /\ IF filter.not THEN value \notin filter.in ELSE value \in filter.in
\* ApplyClauses: of a row of a change and its config.
BaseClauses(req, row) ==
  /\ req.agent # "" => row.agent = req.agent
  /\ Passes(req.configType, row.type)
  /\ IsTime(req.from) => row.created > req.from
  /\ IsTime(req.to) => row.created <= req.to
  /\ ~req.deleted => ~row.deleted
  /\ req.tags.ok => Passes(req.tags, row.tag)

\* formSeverityQuery: a severity asks for all that are at least as severe, and one that
\* is excluded for itself alone.
FormSeverityQuery(severity) ==
  LET at == SelectInSeq(Severities, LAMBDA s : s = severity[2]) IN
  IF severity[2] = "" THEN All
  ELSE IF severity[1] = "not" THEN [ok |-> TRUE, not |-> TRUE, in |-> {severity[2]}]
  ELSE [ok |-> at # 0, not |-> FALSE, in |-> ToSet(SubSeq(Severities, 1, at))]

\* related_changes_recursive: the configs whose changes one config is searched by, from
\* the paths of their ancestors, the soft relations and those of any kind (all).
Related(world, req, id) ==
  LET beside == {c \in world.configs : req.soft /\ (<<id, c>> \in world.soft \/ <<c, id>> \in world.soft)} IN
  CASE req.recursive = "none" -> {id}
    [] req.recursive = "downstream" -> {id} \union {c \in world.configs : id \in ToSet(world.path[c])} \union beside
    [] req.recursive = "upstream" -> {id} \union ToSet(world.path[id]) \union beside
    [] OTHER -> {id} \union world.all[id]

\* FindCatalogChanges: the changes that are found, before they are sorted and cut into
\* pages.
FindValid(world, err, req) ==
  LET resolved == ResolveConfigIDs(world, req)  ids == resolved.ids
      severity == FormSeverityQuery(req.severity)
      undecoded == {f \in {"tags", "summary", "source", "createdBy"} : ~req[f].ok}
      Named(kind) == {req.id[i][2] : i \in {j \in DOMAIN req.id : req.id[j][1] = kind}}
      Clauses(row) ==
        /\ BaseClauses(req, row)
        /\ Passes(req.changeType, row.change)
        /\ severity.ok => Passes(severity, row.severity)
        /\ \A f \in {"summary", "source", "createdBy"} \ undecoded : Passes(req[f], row[f])
        /\ IsTime(req.fromInserted) => row.inserted > req.fromInserted
        /\ IsTime(req.toInserted) => row.inserted < req.toInserted
      Scope(row) ==
        CASE Len(ids) = 1 -> row.config \in Related(world, req, ids[1])
          [] Len(ids) > 1 -> row.config \in ToSet(ids)
          [] req.id # << >> -> row.config \notin Named("not") /\ (Named("uuid") # {} => row.config \in Named("uuid"))
          [] OTHER -> TRUE
      found == {row \in world.changes : Clauses(row) /\ Scope(row)} IN
  IF err THEN Failed
  ELSE IF resolved.err THEN Failed
  ELSE IF ids = << >> /\ req.id # << >> /\ ~HasCatalogIDFilter(req) THEN [err |-> FALSE, found |-> {}, sort |-> "", desc |-> FALSE, from |-> 0]
  ELSE IF ~req.lenient /\ (undecoded # {} \/ ~severity.ok) THEN Failed
  ELSE IF ids = << >> /\ Named("search") # {} THEN Failed
  ELSE [err |-> FALSE, found |-> found, sort |-> req.sortBy, desc |-> req.desc /\ req.sortBy # "", from |-> (req.page - 1) * req.pageSize]
Find(world, request) ==
  LET valid == Validate(SetDefaults(request)) IN FindValid(world, valid.err, valid.req)

-----------------------------------------------------------------------------
(* Properties.                                                             *)

\* formSeverityQuery: a search for a severity finds what the same search for a higher one
\* finds, and nothing that is less severe than it asks for.
SeveritiesNest(world, request) ==
  LET Asking(i) == Find(world, [request EXCEPT !.severity = <<"is", Severities[i]>>]) IN
  \A i, j \in DOMAIN Severities :
    i <= j /\ ~Asking(i).err =>
      /\ Asking(i).found \subseteq Asking(j).found
      /\ \A row \in Asking(i).found : row.severity \in ToSet(SubSeq(Severities, 1, i))

\* "Lenient silently ignores invalid filters": a lenient search finds what the search
\* without its invalid filters finds when it is strict, and that one is never refused.
\* The range of two days is a default of the request, not of what is left of it.
LenientIgnores(world, request) ==
  LET req == [SetDefaults(request) EXCEPT !.lenient = FALSE]
      rest == Cleared(req, Invalid(req))
      decoded == [f \in DOMAIN rest |-> IF f \in {"tags", "summary", "source", "createdBy"} /\ ~rest[f].ok THEN All
                                        ELSE IF f = "severity" /\ ~FormSeverityQuery(rest[f]).ok THEN <<"is", "">> ELSE rest[f]]
      strict == IF decoded.from = NoTime /\ decoded.to = NoTime THEN [decoded EXCEPT !.from = 1] ELSE decoded IN
  /\ Find(world, [request EXCEPT !.lenient = TRUE]) = Find(world, strict)
  /\ ~Find(world, [request EXCEPT !.lenient = FALSE]).err =>
       Find(world, [request EXCEPT !.lenient = FALSE]) = Find(world, [request EXCEPT !.lenient = TRUE])
=============================================================================
