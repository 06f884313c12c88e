----------------------------- MODULE QueryModels -----------------------------
(***************************************************************************)
(* Resource selectors as database queries: what each table lets a query    *)
(* say (query/models.go), the clauses that the conditions of a selector    *)
(* become (QueryModel.Apply, QueryField.ToClauses) and the ones that       *)
(* SetResourceSelectorClause (query/resource_selector.go) adds.            *)
(*                                                                         *)
(* A row has the columns of config_items, Null where it has no value.  A   *)
(* clause is "t", "f" or "n" (SQL's unknown) of a row, and "error" when it *)
(* cannot be made.  Dates, limits and orders are left out.                 *)
(***************************************************************************)
EXTENDS ResourceSelectors, TLC

CONSTANTS
  AgentIds,   \* the id of each agent that FindCachedAgent finds by its name
  AllTypes    \* the types of the table, that a job keeps in allTypesCache

Null == <<"NULL">>
LocalAgent == <<"00000000">>   \* uuid.Nil

\* QueryModel: what a table has.
Model(columns, maps, aliases, has) ==
  [columns |-> columns, maps |-> maps, aliases |-> aliases, has |-> has]

\* Aliases of every table that has the columns.
Dates == [created |-> <<"created_at">>, updated |-> <<"updated_at">>, deleted |-> <<"deleted_at">>]
WithAgent(aliases) == [f \in DOMAIN aliases \union {"agent"} |-> IF f = "agent" THEN <<"agent_id">> ELSE aliases[f]]
WithType(aliases, name) == [f \in DOMAIN aliases \union {name} |-> IF f = name THEN <<"type">> ELSE aliases[f]]
WithNamespace(aliases) ==
  [f \in DOMAIN aliases \union {"namespace"} |-> IF f = "namespace" THEN <<"tags", ".", "namespace">> ELSE aliases[f]]
DateColumns == {"created_at", "updated_at", "deleted_at"}

ConfigItemQueryModel ==
  Model({"id", "name", "source", "type", "status", "agent_id", "health", "external_id", "config_class"} \union DateColumns,
        {"labels", "tags", "config"}, WithNamespace(WithType(WithAgent(Dates), "config_type")),
        {"properties", "tags", "agents", "labels", "deleted_at"})

ConfigItemSummaryQueryModel ==
  Model({"id", "scraper_id", "config_class", "external_id", "type", "name", "namespace", "source", "created_by",
         "agent_id", "status", "health", "ready", "path", "changes", "analysis"} \union DateColumns,
        {"labels", "tags"},
        WithType(WithAgent(Dates @@ [changes_count |-> <<"changes">>, analysis_count |-> <<"analysis">>]), "config_type"),
        {"properties", "tags", "agents", "labels", "deleted_at"})

ComponentQueryModel ==
  Model({"id", "name", "namespace", "topology_id", "external_id", "type", "status", "health", "agent_id"} \union DateColumns,
        {"labels", "summary"}, WithType(WithAgent(Dates), "component_type"),
        {"properties", "agents", "labels", "deleted_at"})

CheckQueryModel ==
  Model({"id", "name", "namespace", "canary_id", "type", "status", "agent_id"} \union DateColumns,
        {"spec", "labels"}, WithType(WithAgent(Dates @@ [health |-> <<"status">>]), "check_type"),
        {"agents", "labels", "deleted_at"})

PlaybookQueryModel == Model({"id", "name", "namespace"} \union DateColumns, {}, Dates, {"tags", "deleted_at"})

ConnectionQueryModel == Model({"id", "name", "namespace", "type"}, {}, << >>, {"deleted_at"})

\* The field is in lower case when it is looked up, so the alias changeType is not found.
ConfigChangeQueryModel ==
  Model({"id", "config_id", "name", "type", "created_at", "severity", "change_type", "summary", "count",
         "first_observed", "agent_id"},
        {"tags", "details"}, [created |-> <<"created_at">>, external_id |-> <<"external_created_by">>],
        {"agents", "tags", "deleted_at"})

ViewQueryModel == Model({"name", "namespace"}, {"labels"}, << >>, {"labels", "deleted_at"})

CanaryQueryModel ==
  Model({"id", "name", "namespace", "agent_id"} \union DateColumns, {"labels", "spec"}, WithAgent(Dates),
        {"labels", "agents", "deleted_at"})

ConfigAnalysisQueryModel ==
  Model({"id", "config_id", "scraper_id", "source", "analyzer", "analysis_type", "severity", "status", "summary",
         "message", "first_observed", "last_observed", "name", "type", "config_type", "config_class", "agent_id",
         "deleted_at", "path"},
        {"tags", "labels", "config"},
        WithNamespace(WithType(WithAgent([analyzer_type |-> <<"analysis_type">>]), "config_type")),
        {"properties", "tags", "labels", "agents", "deleted_at"})

\* GetModelFromTable
GetModelFromTable(table) ==
  CASE table = "config_items" -> ConfigItemQueryModel
    [] table = "components" -> ComponentQueryModel
    [] table = "checks" -> CheckQueryModel
    [] table = "canaries" -> CanaryQueryModel
    [] table = "playbooks" -> PlaybookQueryModel
    [] table = "connections" -> ConnectionQueryModel
    [] table = "catalog_changes" -> ConfigChangeQueryModel
    [] table = "configs" -> ConfigItemSummaryQueryModel
    [] table = "views" -> ViewQueryModel
    [] table = "config_analysis" -> ConfigAnalysisQueryModel

-----------------------------------------------------------------------------
(* Clauses.                                                                *)

Known(b) == IF b THEN "t" ELSE "f"
Not3(c) == CASE c = "t" -> "f" [] c = "f" -> "t" [] OTHER -> c
And3(cs) == IF "error" \in cs THEN "error" ELSE IF "f" \in cs THEN "f" ELSE IF "n" \in cs THEN "n" ELSE "t"
Or3(cs) == Not3(And3({Not3(c) : c \in cs}))

\* A comparison with a value: unknown of Null.
Compared(value, holds) == IF value = Null THEN "n" ELSE Known(holds)

\* Variant: an excluded item that is a pattern is taken for a pattern to match.
FiltersPatternsFirst(text) ==
  LET items == Range(Split(text, ","))
      pattern(i) == i # << >> /\ "*" \in {Head(i), Last(i)}
      positive == {i \in items : i = << >> \/ Head(i) # "!" \/ pattern(i)}
      bare == {IF i # << >> /\ Head(i) = "!" THEN Tail(i) ELSE i : i \in positive}
      kinds(is) == [in |-> {i \in is : ~ pattern(i)}, like |-> {i \in is : pattern(i)}]
  IN  IF text = << >> THEN [yes |-> kinds({}), no |-> kinds({})]
      ELSE [yes |-> kinds(bare), no |-> kinds({Tail(i) : i \in items \ positive})]

\* ParseFilteringQueryV2: the items of a list, by what they are.
Filters(text) ==
  LET items == Range(Split(text, ","))
      positive == {i \in items : i = << >> \/ Head(i) # "!"}
      pattern(i) == i # << >> /\ "*" \in {Head(i), Last(i)}
      kinds(is) == [in |-> {i \in is : ~ pattern(i)}, like |-> {i \in is : pattern(i)}]
  IN  IF text = << >> THEN [yes |-> kinds({}), no |-> kinds({})]
      ELSE [yes |-> kinds(positive), no |-> kinds({Tail(i) : i \in items \ positive})]

\* textFieldExpression: one clause for the plain items, one for each pattern.
TextFieldExpression(kinds, value) ==
  (IF kinds.in = {} THEN {} ELSE {Compared(value, value \in kinds.in)})
  \union {Compared(value, MatchPattern(value, p)) : p \in kinds.like}

\* jsonbListFieldExpression: the same, of any of several values.
JSONBListFieldExpression(kinds, values) ==
  (IF kinds.in = {} THEN {} ELSE {Known(values \intersect kinds.in # {})})
  \union {Known(\E value \in values : MatchPattern(value, p)) : p \in kinds.like}

\* FilteringQuery.ToExpression: clauses that the query joins with AND.
ToExpression(text, Expression(_)) ==
  Expression(Filters(text).yes) \union {Not3(c) : c \in Expression(Filters(text).no)}

\* The two operators that lists are for.
ListClause(op, expressions) ==
  CASE op = <<"=">> -> And3(expressions)
    [] op = <<"!", "=">> -> IF expressions = {} THEN "t" ELSE Not3(Or3(expressions))

\* QueryField.ToClauses
ToClauses(op, text, value) ==
  CASE op \in {<<"=">>, <<"!", "=">>} ->
         ListClause(op, ToExpression(text, LAMBDA kinds : TextFieldExpression(kinds, value)))
    [] op = <<"<">> -> Compared(value, L!IntegerOf(value) < L!IntegerOf(text))
    [] op = <<">">> -> Compared(value, L!IntegerOf(value) > L!IntegerOf(text))
    [] op = <<"exists">> -> Known(value # Null)
    [] op = <<"notexists">> -> Known(value = Null)
    [] OTHER -> "error"

\* JSONPathMapper: a clause for each of the values of a list.
JSONPathMapper(map, op, key, text) ==
  LET value == IF key \in DOMAIN map THEN map[key] ELSE Null
      values == Range(IF text = << >> THEN << << >> >> ELSE Split(text, ","))
  IN  CASE op = <<"exists">> -> Known(key \in DOMAIN map)
        [] op = <<"notexists">> -> Known(key \notin DOMAIN map)
        [] op = <<"!", "=">> -> And3({Compared(value, value # v) : v \in values})
        [] OTHER -> And3({Compared(value, value = v) : v \in values})

\* filterJSONColumnValues: any key has one of the values; in tags and properties they
\* may be patterns.
FilterJSONColumnValues(column, map, op, text) ==
  LET values == {map[key] : key \in DOMAIN map}
      found == values \intersect Range(Split(text, ",")) # {}
  IN  IF column \in {"tags", "properties"}
      THEN ListClause(IF op = <<"!", "=">> THEN op ELSE <<"=">>,
                      ToExpression(text, LAMBDA kinds : JSONBListFieldExpression(kinds, values)))
      ELSE Known(IF op = <<"!", "=">> THEN ~ found ELSE found)

\* filterProperties
FilterProperties(map, op, key, text) ==
  LET has == key \in DOMAIN map
  IN  CASE op = <<"exists">> -> Known(has)
        [] op = <<"notexists">> -> Known(~ has)
        [] op = <<">">> -> Known(has /\ L!IntegerOf(map[key]) > L!IntegerOf(text))
        [] op = <<"<">> -> Known(has /\ L!IntegerOf(map[key]) < L!IntegerOf(text))
        [] op = <<"!", "=">> -> Known(~ has \/ map[key] \notin Range(Split(text, ",")))
        [] OTHER -> Known(has /\ map[key] \in Range(Split(text, ",")))

\* The special case of the column type: pod finds Kubernetes::Pod.
TypeTerm(text) ==
  LET found == {t \in AllTypes : MatchPattern(t, <<"*">> \o text)}
  IN  IF Range(text) \intersect {"*", "!"} # {} \/ found = {} THEN text ELSE L!Joined(SetToSeq(found))

\* What Apply calls the field of a condition.
Resolved(qm, field) ==
  IF Len(field) = 1 /\ field[1] \in DOMAIN qm.aliases THEN qm.aliases[field[1]] ELSE field

\* Fields that add to the query itself, or do nothing.
IgnoreFieldsForClauses == {<<f>> : f \in {"sort", "offset", "limit", "labels", "config", "tags", "properties"}}

\* AgentMapper: the id that a text is, or that the agent of this name has, unless it is
\* the local one; there is no agent of several names.
AgentMapper(text) ==
  {id \in Range(AgentIds) \union {LocalAgent} :
     id = text \/ (text \in DOMAIN AgentIds /\ AgentIds[text] = id /\ id # LocalAgent)}

\* A condition on the agent; of all agents it asks nothing.
AgentClause(q, row) ==
  CASE q.op \in {<<"exists">>, <<"notexists">>} -> ToClauses(q.op, << >>, row.agent)
    [] q.value = <<"all">> -> "t"
    [] AgentMapper(q.value) = {} -> "error"
    [] OTHER -> ToClauses(q.op, CHOOSE id \in AgentMapper(q.value) : TRUE, row.agent)

\* QueryModel.Apply for one condition
Apply(qm, q, row) ==
  LET field == Resolved(qm, q.field)
      keyed == {m \in qm.maps : Keyed(field, m)}
      whole == {m \in qm.maps \union (qm.has \intersect {"properties"}) : q.field = <<m>>}
  IN  CASE field = <<"agent_id">> /\ "agents" \in qm.has -> AgentClause(q, row)
        [] keyed # {} -> JSONPathMapper(row[CHOOSE m \in keyed : TRUE], q.op, KeyOf(field), q.value)
        [] Keyed(q.field, "properties") /\ "properties" \in qm.has ->
             FilterProperties(row.properties, q.op, KeyOf(q.field), q.value)
        [] whole # {} /\ q.op \in {<<"=">>, <<"!", "=">>} ->
             LET m == CHOOSE w \in whole : TRUE IN FilterJSONColumnValues(m, row[m], q.op, q.value)
        [] OTHER ->
             IF field \in IgnoreFieldsForClauses THEN "t"
             ELSE IF field \notin {<<c>> : c \in qm.columns} THEN "error"
             ELSE IF field = <<"type">> /\ q.type = "string" THEN ToClauses(q.op, TypeTerm(q.value), row.type)
             ELSE ToClauses(q.op, q.value, row[field[1]])

\* jsonColumnRequirementsToGormClause
JSONColumnClause(map, r) ==
  LET value == IF r.key \in DOMAIN map THEN map[r.key] ELSE Null
  IN  CASE r.op \in {"=", "=="} -> Known(value \in r.values)
        [] r.op = "in" -> Compared(value, value \in r.values)
        [] r.op \in {"!=", "notin"} -> Compared(value, value \notin r.values)
        [] r.op = "exists" -> Known(value # Null)
        [] r.op = "!" -> Known(value = Null)
        [] r.op = ">" -> Compared(value, \A v \in r.values : L!IntegerOf(value) > L!IntegerOf(v))
        [] r.op = "<" -> Compared(value, \A v \in r.values : L!IntegerOf(value) < L!IntegerOf(v))

\* A field that Apply would not refuse.
KnownField(qm, key) ==
  LET field == Resolved(qm, key)
  IN  \/ field \in {<<c>> : c \in qm.columns \union qm.maps}
      \/ \E m \in qm.maps : Keyed(field, m)
      \/ "properties" \in qm.has /\ (field = <<"properties">> \/ Keyed(field, "properties"))

\* applyFieldSelectorRequirement: an unknown field is that of a property.
FieldClause(qm, r, row) ==
  Apply(qm, RequirementCondition(IF KnownField(qm, r.key) THEN << >> ELSE <<"properties", ".">>, r), row)

\* A query that says nothing of the agent or the id is about the local agent.
DefaultAgent(fields) == fields \intersect {<<"agent_id">>, <<"id">>} = {}

\* What the database is to find for a selector: the conditions of its search and fields,
\* and its requirements.
SelectorQuery(rs) ==
  ToQuery(rs, FALSE) @@ [tags |-> L!Parse(rs.tagSelector).value, labels |-> L!Parse(rs.labelSelector).value,
                         fields |-> L!Parse(rs.fieldSelector).value]

\* SetResourceSelectorClause: the clause of the whole selector.
SelectorClause(qm, rs, query, row) ==
  LET fields == {Resolved(qm, query.conditions[i].field) : i \in DOMAIN query.conditions}
  IN  IF \/ ~ query.ok
         \/ rs.tagSelector # << >> /\ "tags" \notin qm.has
         \/ rs.labelSelector # << >> /\ "labels" \notin qm.has
      THEN "error"
      ELSE And3({Apply(qm, query.conditions[i], row) : i \in DOMAIN query.conditions}
                \union {Known(<<"deleted_at">> \in fields \/ "deleted_at" \notin qm.has \/ row.deleted_at = Null)}
                \union {Known("agents" \notin qm.has \/ ~ DefaultAgent(fields) \/ row.agent = LocalAgent)}
                \union {JSONColumnClause(row.tags, r) : r \in query.tags}
                \union {JSONColumnClause(row.labels, r) : r \in query.labels}
                \union {FieldClause(qm, r, row) : r \in query.fields})

\* queryResourceSelector: an empty selector asks nothing; a row is found when the clause
\* is true of it.
FoundBy(qm, rs, query, rows) == {row \in rows : SelectorClause(qm, rs, query, row) = "t"}
Found(qm, rs, rows) ==
  LET canonical == Canonical(rs) IN IF IsEmpty(rs) THEN {} ELSE FoundBy(qm, canonical, SelectorQuery(canonical), rows)

-----------------------------------------------------------------------------
(* Properties.                                                             *)

\* The same resource in memory: what is Null in its row is the empty text, and so is the
\* id of the local agent (GetAgentID).
InMemory(row) ==
  [f \in DOMAIN row |->
     IF f \notin {"labels", "tags", "properties"} /\ (row[f] = Null \/ (f = "agent" /\ row[f] = LocalAgent))
     THEN << >> ELSE row[f]]

\* A condition that the database and the memory read the same way: of a string, not of a
\* type, which the database also finds by the end of its name, nor of a whole map; not a
\* comparison, and not with nothing, which the database leaves out; and of an agent by
\* the id of one that is not local, or of all: the memory knows no names of agents.
Comparable(q) ==
  /\ q.type \notin {"number", "measure"}
  /\ q.field \notin {<<"type">>, <<"labels">>, <<"tags">>, <<"properties">>}
  /\ q.op \notin {<<"<">>, <<">">>}
  /\ q.op \in {<<"=">>, <<"!", "=">>} => q.value # << >>
  /\ q.field = <<"agent">> /\ q.op = <<"=">> => q.value \in {<<"all">>} \union (Range(AgentIds) \ {LocalAgent})

\* A row that a selector finds in a table matches the selector in memory
\* (SetResourceSelectorClause against ResourceSelector.Matches), although conditions,
\* patterns and requirements go through two implementations, if its conditions are
\* comparable, the wildcards leave any and its field selector is about the values of
\* fields of the table.
ReadAlike(qm, rs, query) ==
  /\ query.ok /\ query.conditions # << >> /\ \A q \in Range(query.conditions) : Comparable(q)
  /\ \A r \in L!Parse(rs.fieldSelector).value : r.op \notin {"exists", "!"} /\ KnownField(qm, r.key)
FoundAreMatched(qm, rs, rows) ==
  LET canonical == Canonical(rs)
  IN  ReadAlike(qm, canonical, ToQuery(canonical, TRUE))
      => LET matched == Matched(rs, {InMemory(row) : row \in rows})
         IN  \A row \in Found(qm, rs, rows) : InMemory(row) \in matched
=============================================================================
