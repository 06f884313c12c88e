--------------------------- MODULE ResourceSelectors ---------------------------
(***************************************************************************)
(* Resource selectors (types/resource_selector.go and its canonical form): *)
(* the search text a selector becomes, and the resources in memory that it *)
(* matches.  The text is parsed by QueryGrammar; its label, tag and field  *)
(* selectors by LabelSelectors.  All texts are in lower case.              *)
(***************************************************************************)
EXTENDS QueryGrammar, FiniteSets

L == INSTANCE LabelSelectors

\* A selector: texts, lists of texts, and the three selectors as texts.
NoSelector ==
  [id |-> << >>, name |-> << >>, namespace |-> << >>, agent |-> << >>, scope |-> << >>,
   types |-> << >>, statuses |-> << >>, health |-> << >>, search |-> << >>,
   tagSelector |-> << >>, labelSelector |-> << >>, fieldSelector |-> << >>]

AllEmptyButName(rs) == [rs EXCEPT !.name = << >>] = NoSelector
Wildcard(rs) == AllEmptyButName(rs) /\ rs.name = <<"*">>
IsEmpty(rs) == rs = NoSelector

\* strings.Split(text, separator)
Split(text, separator) ==
  LET cuts == <<0>> \o SelectSeq([i \in DOMAIN text |-> i], LAMBDA i : text[i] = separator) \o <<Len(text) + 1>>
  IN  [i \in 1 .. Len(cuts) - 1 |-> SubSeq(text, cuts[i] + 1, cuts[i + 1] - 1)]

Trimmed(text) == SelectSeq(text, LAMBDA c : c # " ")

\* ResourceSelector.Expand: the union of the selectors of the parts of the search.
Expand(rs) ==
  LET parts == SelectSeq([i \in DOMAIN Split(rs.search, ";") |-> Split(rs.search, ";")[i]],
                         LAMBDA part : Trimmed(part) # << >>)
  IN  IF ";" \notin Range(rs.search) \/ parts = << >> THEN <<rs>>
      ELSE [i \in DOMAIN parts |-> [rs EXCEPT !.search = parts[i]]]

-----------------------------------------------------------------------------
(* Canonical.                                                              *)

IsWildcardValue(text) == Trimmed(text) = <<"*">>

\* filterWildcardItems
FilterWildcardItems(items) ==
  SelectSeq(items, LAMBDA item : Trimmed(item) \notin {<<"*">>, <<"!", "*">>})

\* filterWildcardCSV
FilterWildcardCSV(text) ==
  L!Joined(SelectSeq(Split(Trimmed(text), ","), LAMBDA part : part \notin {<< >>, <<"*">>}))

\* A word that stands for the stars of a selector while it is parsed.
Sentinel == "__duty_wildcard__"

\* requirementHasWildcard: a star anywhere in a value.
RequirementHasWildcard(r) == \E v \in r.values : Sentinel \in Range(v)

\* canonicalizeSelector: a requirement that a value matches a pattern becomes one that
\* the key exists, or is left out; so is one that the value does not match it.
CanonicalizeSelector(selector, exists) ==
  LET parsed == L!Parse([i \in DOMAIN selector |-> IF selector[i] = "*" THEN Sentinel ELSE selector[i]])
      kept == {r \in parsed.value : ~ RequirementHasWildcard(r)}
      converted == {L!Requirement(r.key, "exists", {}) :
                      r \in {q \in parsed.value : RequirementHasWildcard(q) /\ exists /\ q.op \in {"=", "==", "in"}}}
  IN  IF Trimmed(selector) \in {<< >>, <<"*">>} THEN << >>
      ELSE IF ~ parsed.ok THEN selector
      ELSE L!String(kept \union converted)

Canonical(rs) ==
  [rs EXCEPT !.id = IF IsWildcardValue(@) THEN << >> ELSE @,
             !.namespace = IF IsWildcardValue(@) THEN << >> ELSE @,
             !.scope = IF IsWildcardValue(@) THEN << >> ELSE @,
             !.agent = IF IsWildcardValue(@) THEN <<"all">> ELSE @,
             !.types = FilterWildcardItems(@),
             !.statuses = FilterWildcardItems(@),
             !.health = FilterWildcardCSV(@),
             !.tagSelector = CanonicalizeSelector(@, TRUE),
             !.labelSelector = CanonicalizeSelector(@, TRUE),
             !.fieldSelector = CanonicalizeSelector(@, FALSE)]

-----------------------------------------------------------------------------
(* The search text.                                                        *)

\* The verb %q: quotes and backslashes are escaped, which a String of the grammar is not.
Quoted(text) ==
  <<"\"">> \o FlattenSeq([i \in DOMAIN text |-> IF text[i] \in {"\"", "\\"} THEN <<"\\", text[i]>> ELSE <<text[i]>>])
  \o <<"\"">>

\* selectorToPegCondition for one requirement
PegCondition(prefix, r) ==
  LET op == CASE r.op \in {"!=", "notin"} -> <<"!", "=">> [] r.op = ">" -> <<">">>
              [] r.op = "<" -> <<"<">> [] OTHER -> <<"=">>
  IN  CASE r.op = "exists" -> prefix \o r.key
        [] r.op = "!" -> <<"!">> \o prefix \o r.key
        [] OTHER -> prefix \o r.key \o <<" ">> \o op \o <<" ">> \o Quoted(L!Joined(SetToSeq(r.values)))

\* The texts of the requirements of a selector, in some fixed order.
PegConditions(prefix, selector) ==
  LET rs == SetToSeq(L!Parse(selector).value) IN [i \in DOMAIN rs |-> PegCondition(prefix, rs[i])]

\* The fields of a selector, as ToPeg names them.
Columns(rs) ==
  SelectSeq(<< <<"id", rs.id>>, <<"name", rs.name>>, <<"namespace", rs.namespace>>, <<"health", rs.health>>,
               <<"type", L!Joined(rs.types)>>, <<"status", L!Joined(rs.statuses)>>, <<"agent", rs.agent>> >>,
            LAMBDA column : column[2] # << >>)

\* ResourceSelector.ToPeg: the search, then the fields, then, in memory, the selectors.
ToPeg(rs, convertSelectors) ==
  FoldLeft(LAMBDA peg, c : peg \o <<" ">> \o c, rs.search,
           [i \in DOMAIN Columns(rs) |-> <<Columns(rs)[i][1], "=">> \o Quoted(Columns(rs)[i][2])]
           \o IF ~ convertSelectors THEN << >>
              ELSE PegConditions(<<"labels", ".">>, rs.labelSelector) \o PegConditions(<<"tags", ".">>, rs.tagSelector)
                   \o PegConditions(<< >>, rs.fieldSelector))

\* The selectors that ToPeg has to parse are selectors.
Convertible(rs) == \A s \in {rs.labelSelector, rs.tagSelector, rs.fieldSelector} : L!Parse(s).ok

-----------------------------------------------------------------------------
(* Matching a resource in memory.                                          *)

HasPart(text, part) == \E i \in 0 .. Len(text) - Len(part) : SubSeq(text, i + 1, i + Len(part)) = part

\* matchPattern of the commons library
MatchPattern(item, pattern) ==
  LET part == SelectSeq(pattern, LAMBDA c : c # "*")
      starts == pattern # << >> /\ Head(pattern) = "*"
      ends == pattern # << >> /\ Last(pattern) = "*"
  IN  CASE starts /\ ends -> HasPart(item, part)
        [] starts /\ ~ ends -> IsSuffix(part, item)
        [] ~ starts /\ ends -> IsPrefix(part, item)
        [] OTHER -> item = pattern

\* collections.MatchItems of the commons library: exclusions first; no patterns match
\* everything, and so do exclusions alone that do not apply.
MatchItems(item, patterns) ==
  LET excluded == {i \in DOMAIN patterns : patterns[i] # << >> /\ Head(patterns[i]) = "!"}
      wanted == DOMAIN patterns \ excluded
  IN  /\ \A i \in excluded : ~ MatchPattern(item, Tail(patterns[i]))
      /\ wanted = {} \/ \E i \in wanted : MatchPattern(item, patterns[i])

\* A key of one of the maps of a resource: labels.key, tags.key or properties.key.
Keyed(field, map) == Len(field) > 2 /\ field[1] = map /\ field[2] = "."
KeyOf(field) == SubSeq(field, 3, Len(field))
Lookup(map, key) == IF key \in DOMAIN map THEN map[key] ELSE << >>

\* extractResourceFieldValue: what is not there is the empty text.
ExtractResourceFieldValue(s, field) ==
  CASE field \in {<<c>> : c \in {"name", "namespace", "id", "type", "status", "health", "agent"}} -> s[field[1]]
    [] Keyed(field, "labels") -> Lookup(s.labels, KeyOf(field))
    [] Keyed(field, "tags") -> Lookup(s.tags, KeyOf(field))
    [] Keyed(field, "properties") -> Lookup(s.properties, KeyOf(field))
    [] OTHER -> << >>

\* resourceFieldExists
ResourceFieldExists(s, field) ==
  \/ Keyed(field, "labels") /\ KeyOf(field) \in DOMAIN s.labels
  \/ Keyed(field, "tags") /\ KeyOf(field) \in DOMAIN s.tags
  \/ Keyed(field, "properties") /\ KeyOf(field) \in DOMAIN s.properties

\* matchGrammar for one condition: "yes", "no", or "panic" for a comparison with a number
\* that is not quoted, whose value is asserted to be a string.
MatchCondition(q, s) ==
  LET value == ExtractResourceFieldValue(s, q.field)
      patterns == IF q.type = "string" THEN Split(q.value, ",") ELSE << >>
      yes(b) == IF b THEN "yes" ELSE "no"
      number == L!IsInteger(value)
  IN  CASE q.op = <<"exists">> -> yes(ResourceFieldExists(s, q.field))
        [] q.op = <<"notexists">> -> yes(~ ResourceFieldExists(s, q.field))
        [] q.op = <<"=">> -> yes((q.field = <<"agent">> /\ patterns = << <<"all">> >>) \/ MatchItems(value, patterns))
        [] q.op = <<"!", "=">> -> yes(~ MatchItems(value, patterns))
        [] q.op \in {<<"<">>, <<">">>} /\ ~ number -> "no"
        [] q.op \in {<<"<">>, <<">">>} /\ number /\ q.type # "string" -> "panic"
        [] q.op = <<">">> /\ number /\ q.type = "string" ->
             yes(L!IsInteger(q.value) /\ L!IntegerOf(value) > L!IntegerOf(q.value))
        [] q.op = <<"<">> /\ number /\ q.type = "string" ->
             yes(L!IsInteger(q.value) /\ L!IntegerOf(value) < L!IntegerOf(q.value))
        [] OTHER -> "no"

\* matchGrammar: the first condition that fails decides.
MatchGrammar(conditions, s) ==
  LET others == SelectSeq([i \in DOMAIN conditions |-> MatchCondition(conditions[i], s)], LAMBDA r : r # "yes")
  IN  IF others = << >> THEN "yes" ELSE Head(others)

\* The conditions that a text asks for, and whether it can be parsed: nothing asks for none.
Asks(peg, parsed) ==
  [ok |-> peg = << >> \/ parsed.ok, conditions |-> IF peg = << >> \/ ~ parsed.ok THEN << >> ELSE Conditions(parsed.val)]
QueryOf(peg) == Asks(peg, ParsePEG(peg))

\* A selector as a query: of its fields and, in memory, of its requirements.
ToQuery(rs, convertSelectors) ==
  LET query == QueryOf(ToPeg(rs, convertSelectors)) IN [query EXCEPT !.ok = @ /\ Convertible(rs)]

\* ResourceSelector.Matches: the resources that match; a selector that asks for nothing
\* has none.
MatchedBy(query, resources) ==
  IF ~ query.ok \/ query.conditions = << >> THEN {}
  ELSE {s \in resources : MatchGrammar(query.conditions, s) = "yes"}
Matched(rs, resources) ==
  CASE IsEmpty(rs) -> {}
    [] Wildcard(rs) -> resources
    [] OTHER -> MatchedBy(ToQuery(Canonical(rs), TRUE), resources)

-----------------------------------------------------------------------------
(* Properties.                                                             *)

\* The condition that a requirement is, whatever text it goes through.
RequirementCondition(prefix, r) ==
  CASE r.op = "exists" -> Condition(prefix \o r.key, <<"exists">>, << >>, "nil")
    [] r.op = "!" -> Condition(prefix \o r.key, <<"notexists">>, << >>, "nil")
    [] OTHER -> Condition(prefix \o r.key, CASE r.op \in {"!=", "notin"} -> <<"!", "=">> [] r.op = ">" -> <<">">>
                                              [] r.op = "<" -> <<"<">> [] OTHER -> <<"=">>,
                          L!Joined(SetToSeq(r.values)), "string")

\* What a selector asks for: its search, its fields and its requirements.
Asked(rs) ==
  (IF rs.search = << >> THEN {} ELSE Range(Conditions(ParsePEG(rs.search).val)))
  \union {Condition(<<Columns(rs)[i][1]>>, <<"=">>, Columns(rs)[i][2], "string") : i \in DOMAIN Columns(rs)}
  \union {RequirementCondition(<<"labels", ".">>, r) : r \in L!Parse(rs.labelSelector).value}
  \union {RequirementCondition(<<"tags", ".">>, r) : r \in L!Parse(rs.tagSelector).value}
  \union {RequirementCondition(<< >>, r) : r \in L!Parse(rs.fieldSelector).value}

\* ToPeg and ParsePEG: nothing a selector asks for is lost in the text it becomes, which
\* the parser may leave before its end without an error, and nothing is added to it.
\* The search must be a query as a whole and not end in ':', which would take the next
\* field for a value, values must be free of quotes and backslashes,
\* and a requirement of a field selector must not be about existence, which the grammar
\* knows of maps only.
PegKeepsConditions(rs) ==
  ( /\ Convertible(rs)
    /\ rs.search = << >> \/ (ParsesWhole(rs.search) /\ Last(rs.search \o Trimmed(rs.search)) # ":")
    /\ \A r \in L!Parse(rs.fieldSelector).value : r.op \notin {"exists", "!"} )
  => LET query == ToQuery(rs, TRUE) IN query.ok /\ Range(query.conditions) = Asked(rs)
=============================================================================
