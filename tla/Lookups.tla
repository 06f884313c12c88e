------------------------------ MODULE Lookups ------------------------------
(***************************************************************************)
(* Selectors whose fields are looked up: RelationshipSelectorTemplate in   *)
(* relationship_selector.go, EnvVarResourceSelector in types/envvar.go,    *)
(* and the parameters of a search for related items in query/models.go.    *)
(*                                                                         *)
(* An environment env gives what an expression evaluates to, "!error" if   *)
(* it fails; a selector is a set of conditions <<field, value>>, and       *)
(* {<<"!error", "">>} or Nothing where there is none.                      *)
(***************************************************************************)
EXTENDS Sequences, SequencesExt

Failure == "!error"
Failing == {<<Failure, "">>}
Nothing == {<<"!nil", "">>}

-----------------------------------------------------------------------------
(* relationship_selector.go.  A template is a sequence of <<field, lookup>>*)
(* in the order of its fields, and labels, a set of conditions.            *)

TemplateFields == <<"id", "external_id", "name", "namespace", "type", "agent", "scope">>
NoLookup == [value |-> "", label |-> "", expr |-> ""]

\* Lookup.Eval: the value, or else the label, or else the expression.
EvalLookup(l, labels, env) ==
  CASE l.value # "" -> l.value
    [] l.value = "" /\ l.label # "" -> IF l.label \in DOMAIN labels THEN labels[l.label] ELSE ""
    [] l.value = "" /\ l.label = "" /\ l.expr # "" -> env[l.expr]
    [] OTHER -> ""

\* Variant: a lookup that finds nothing is passed over.
EvalSkipping(t, labels, env) ==
  LET given == SelectSeq(TemplateFields, LAMBDA f : t.lookups[f] # NoLookup)
      Value(f) == EvalLookup(t.lookups[f], labels, env) IN
  IF given = << >> /\ t.labels = {} THEN Nothing
  ELSE IF \E f \in Range(given) : Value(f) = Failure THEN Failing
  ELSE {<<f, Value(f)>> : f \in {g \in Range(given) : Value(g) # ""}} \union t.labels
\* RelationshipSelectorTemplate.Eval: the first lookup that fails or is empty decides.
Eval(t, labels, env) ==
  LET given == SelectSeq(TemplateFields, LAMBDA f : t.lookups[f] # NoLookup)
      Value(f) == EvalLookup(t.lookups[f], labels, env)
      stops == SelectSeq(given, LAMBDA f : Value(f) \in {Failure, ""}) IN
  IF given = << >> /\ t.labels = {} THEN Nothing
  ELSE IF stops # << >> THEN IF Value(stops[1]) = Failure THEN Failing ELSE Nothing
  ELSE {<<f, Value(f)>> : f \in Range(given)} \union t.labels

\* The query of ToResourceSelector: every condition holds.
Selects(row, selector) == \A c \in selector : c \in row

\* LookupComponents
LookupComponents(rows, t, labels, env) ==
  LET s == Eval(t, labels, env) IN
  IF s = Failing THEN [error |-> TRUE, found |-> {}]
  ELSE [error |-> FALSE, found |-> IF s = Nothing THEN {} ELSE {r \in rows : Selects(r, s)}]
\* LookupConfigs: an external id is looked up with a type.
LookupConfigs(rows, t, labels, env) ==
  LET s == Eval(t, labels, env) IN
  IF s # Nothing /\ (\E c \in s : c[1] = "external_id") /\ ~\E c \in s : c[1] = "type"
  THEN [error |-> TRUE, found |-> {}] ELSE LookupComponents(rows, t, labels, env)

-----------------------------------------------------------------------------
(* EnvVarResourceSelector: a function of its fields to expressions, each a *)
(* value or an expression.                                                 *)

\* ValueExpression.Eval
EvalExpression(x, env) == IF x.value # "" THEN x.value ELSE env[x.expr]
\* EnvVarResourceSelector.Hydrate: a field that is empty, or comes out empty, is not asked for.
Hydrate(fields, env) ==
  LET given == {f \in DOMAIN fields : fields[f].value # "" \/ fields[f].expr # ""} IN
  IF \E f \in given : EvalExpression(fields[f], env) = Failure THEN Failing
  ELSE {<<f, EvalExpression(fields[f], env)>> : f \in {g \in given : EvalExpression(fields[g], env) # ""}}

-----------------------------------------------------------------------------
(* relatedConfigsMapper: the parts of the text between commas, in order.   *)

NoQuery == [ok |-> TRUE, id |-> "", relation |-> "all", type |-> "both", depth |-> 5]
Bad == [NoQuery EXCEPT !.ok = FALSE]
WithPart(q, p) ==
  CASE p.key = "" -> IF p.value = "bad" THEN Bad ELSE [q EXCEPT !.id = p.value]
    [] p.key = "direction" -> IF p.value \in {"incoming", "outgoing", "all"} THEN [q EXCEPT !.relation = p.value] ELSE Bad
    [] p.key = "type" -> IF p.value \in {"hard", "soft", "both"} THEN [q EXCEPT !.type = p.value] ELSE Bad
    [] p.key = "depth" -> IF p.value \in {"1", "2"} THEN [q EXCEPT !.depth = IF p.value = "1" THEN 1 ELSE 2] ELSE Bad
    [] OTHER -> Bad
RelatedQuery(parts) ==
  LET q == FoldLeft(LAMBDA acc, p : IF acc.ok THEN WithPart(acc, p) ELSE acc, NoQuery, parts) IN
  IF q.ok /\ q.id = "" THEN Bad ELSE q

-----------------------------------------------------------------------------
(* Properties.                                                             *)

\* Eval: "if a lookup is non-empty, it must return a non-empty value".  What is found by
\* a template satisfies every lookup of it, and a lookup that fails is an error unless an
\* earlier one came out empty.
NeverWidens(rows, t, labels, env) ==
  LET given == {f \in Range(TemplateFields) : t.lookups[f] # NoLookup}
      Value(f) == EvalLookup(t.lookups[f], labels, env) IN
  \A out \in {LookupComponents(rows, t, labels, env), LookupConfigs(rows, t, labels, env)} :
    /\ \A r \in out.found : \A f \in given : Value(f) # "" /\ Value(f) # Failure /\ <<f, Value(f)>> \in r
    /\ (\E f \in given : Value(f) = Failure) /\ (\A f \in given : Value(f) # "") => out.error

\* The two kinds of selectors find the same when every lookup finds a value.
KindsAgree(rows, t, env) ==
  LET s == Hydrate(t.lookups, env) IN
  t.labels = {} /\ s \notin {{}, Failing} /\ (\A f \in DOMAIN t.lookups : t.lookups[f].label = "")
    /\ (\A f \in DOMAIN t.lookups : t.lookups[f] # NoLookup => EvalExpression(t.lookups[f], env) # "")
    => {r \in rows : Selects(r, s)} = LookupComponents(rows, t, << >>, env).found

\* relatedConfigsMapper: the order of the parameters does not matter.
ParametersCommute(parts) ==
  (\A i, j \in DOMAIN parts : i # j => parts[i].key # parts[j].key)
    => LET q == RelatedQuery(parts)  p == RelatedQuery(Reverse(parts)) IN q = p
=============================================================================
