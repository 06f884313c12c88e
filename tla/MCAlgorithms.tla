---------------------------- MODULE MCAlgorithms ----------------------------
(***************************************************************************)
(* The pure functions of the project, each compared with a reference       *)
(* definition on every input up to a bound.  A behaviour picks what it is  *)
(* about and then an input, which it may extend.                           *)
(***************************************************************************)
EXTENDS PropertyLookup, Integers, Sequences, FiniteSets, TLC, SequencesExt

CONSTANTS
  MaxSelector,   \* bound: symbols of a label selector, or after one of the Starts
  MaxSearch      \* bound: symbols of a search

VARIABLES
  about,   \* the function it is an input of
  input

vars == <<about, input>>

Types == {<<"a">>, <<"b">>, <<"a", "b">>}
Nil == <<"00000000">>
QM == INSTANCE QueryModels WITH MaxInt <- 2, AgentIds <- (<<"b">> :> <<"uuid">>) @@ (<<"local">> :> Nil), AllTypes <- Types
LS == INSTANCE LabelSelectors

CT == INSTANCE ConfigTrees
CM == INSTANCE ComponentTrees
AC == INSTANCE AccessControl WITH Ids <- {"i1", "i2"}
CN == INSTANCE Connections
LU == INSTANCE Lookups
LG == INSTANCE LogLines
SC == INSTANCE ShellCommands
CS == INSTANCE CatalogSearch
AG == INSTANCE Aggregation

NoKeys == [k \in {} |-> ""]
UpTo2(S) == {<< >>} \union {<<a>> : a \in S} \union {<<a, b>> : a, b \in S}

-----------------------------------------------------------------------------
(* Trees: forests of four, in which a parent has a lower id, with a path   *)
(* or without one.                                                         *)

Parents == [1 .. 4 -> 0 .. 3]
Forests == {p \in Parents : \A i \in 1 .. 4 : p[i] < i}
RECURSIVE Up(_, _)
Up(parent, id) == IF id = 0 THEN << >> ELSE Append(Up(parent, parent[id]), id)

Relations == {<<a, b, kind>> : a, b \in 1 .. 4, kind \in {"hard", "soft"}} \ {<<a, a, kind>> : a \in 1 .. 4, kind \in {"hard", "soft"}}
Catalogs ==
  {[parent |-> p, path |-> [i \in 1 .. 4 |-> Up(p, i)], deleted |-> d, cached |-> {2}, relations |-> {}] :
     p \in Forests, d \in {{}, {1}, {2}}}
  \union {[parent |-> p, path |-> [i \in 1 .. 4 |-> IF i = 4 THEN << >> ELSE Up(p, i)], deleted |-> {}, cached |-> {}, relations |-> {}] : p \in Forests}
Cycle == {<<2, 3, "hard">>, <<3, 4, "soft">>, <<4, 2, "hard">>}

\* A component that is well, warned of, ill, ill by its expression, or deleted.
Kinds == {"healthy", "warning", "unhealthy", "strict", "deleted"}
Component(id, parent, kind) ==
  [id |-> id, parent |-> parent[id], path |-> ToSet(Up(parent, parent[id])), type |-> "t", owner |-> "", agent |-> "", labels |-> {},
   deleted |-> kind = "deleted", health |-> IF kind \in {"strict", "deleted"} THEN "healthy" ELSE kind,
   status |-> IF kind \in {"strict", "deleted"} THEN "healthy" ELSE kind, statusExpr |-> "",
   healthExpr |-> IF kind = "strict" THEN "strict" ELSE "", checks |-> {}]
Topologies(parent) ==
  {{Component(id, parent, kinds[id]) : id \in 1 .. 4} : kinds \in {k \in [1 .. 4 -> Kinds] : k[1] \in {"healthy", "strict"}}}
Relationships == {{}} \union {{<<c, p>>} : c \in 3 .. 4, p \in 1 .. 2} \union {{<<4, 2>>, <<3, 2>>}}

-----------------------------------------------------------------------------
(* Access.                                                                 *)

NoIds == [t \in AC!Types |-> ""]
Permissions ==
  {[subjects |-> <<"", "s">>, object |-> o, action |-> a, deny |-> deny, ids |-> ids, selector |-> sel] :
     o \in {"", "playbooks", "catalog", "views", "connection"},
     a \in {<<"read">>, <<"playbook", "run">>, <<"update">>, <<"invoke", "p", "*">>, <<"*">>}, deny \in BOOLEAN,
     ids \in {NoIds} \union {[NoIds EXCEPT ![t] = "i1"] : t \in {"playbook", "config", "canary"}},
     sel \in {AC!NoSelectors} \union {[AC!NoSelectors EXCEPT ![t] = s] : t \in {"playbook", "view"}, s \in {{"*"}, {"i1"}, {"i1", "i2"}}}}
Objects ==
  {[name |-> n] : n \in {"playbooks", "catalog", "views"}}
  \union {[attr |-> [NoIds EXCEPT ![t] = i]] : t \in {"playbook", "config", "canary", "view", "connection"}, i \in {"i1", "i2"}}
  \union {[attr |-> [NoIds EXCEPT !.playbook = "i1", !.config = i]] : i \in {"i1", "i2"}}
Actions == {<<"read">>, <<"playbook", "run">>, <<"invoke", "p", "x">>}

\* Worlds of two subjects, one of them in a role.
Rules ==
  {[sub |-> s, obj |-> "*", act |-> a, eft |-> e, conditions |-> c] :
     s \in {"s", "role", "everyone"}, a \in {<<"read">>, <<"*">>}, e \in {"allow", "deny"},
     c \in {{}, {[type |-> "playbook", id |-> "i1"]}, {[selector |-> [AC!NoSelectors EXCEPT !.view = {"i2"}]]}}}
Worlds(rules) ==
  [rules |-> rules, groups |-> {<<"t", "role">>}, subjects |-> {"s", "t", ""},
   resources |-> {<<"playbook", "i1">>, <<"playbook", "i2">>, <<"view", "i2">>}]

Scopes == {[parts |-> p, deny |-> FALSE] : p \in {{}, {"a"}, {"b"}}} \union {[parts |-> p, deny |-> TRUE] : p \in {{}, {"a"}}}
NoScopes == [config |-> << >>, component |-> << >>, playbook |-> << >>, canary |-> << >>, view |-> << >>, scopes |-> {}, disable |-> FALSE]
Payloads ==
  {[NoScopes EXCEPT !.config = s, !.playbook = t, !.scopes = g, !.disable = d] :
     s \in UpTo2(Scopes), t \in {<< >>, <<[parts |-> {"a"}, deny |-> FALSE]>>}, g \in {{}, {"g"}}, d \in BOOLEAN}

-----------------------------------------------------------------------------
(* Connections: what a cluster knows in two namespaces, and a connection   *)
(* that is stored in one of them.                                          *)

Ref(kind, name, key) == [static |-> <<"">>, from |-> kind :> <<name, key>>]
Cluster ==
  (<<"secret", "a", <<"n">>, <<"k">>>> :> <<"sa">>) @@ (<<"secret", "b", <<"n">>, <<"k">>>> :> <<"sb">>)
  @@ (<<"configmap", "b", <<"n">>, <<"k">>>> :> <<"cb">>) @@ (<<"helm", "a", <<"n">>, <<"k">>>> :> <<"ha">>)
  @@ (<<"chart", "a", <<"n">>, <<"j">>>> :> <<"ca">>) @@ (<<"serviceaccount", "a", <<"n">>, <<"">>>> :> <<"ta">>)
Kubernetes == {"secret", "configmap", "helm", "serviceaccount"}
EnvVars ==
  {CN!Static(t) : t \in {<<"">>, <<"x">>, <<"x", "y">>, <<"secret:", "", "n">>}}
  \union {Ref(kind, n, k) : kind \in Kubernetes, n \in {<<"n">>, <<"m", "n">>}, k \in {<<"k">>, <<"j">>, <<"">>}}
Stored ==
  [name : {"c"}, namespace : {"b"}, type : {"http", "postgres", "aws", "azure"}, deleted : BOOLEAN,
   fields : {[username |-> u, password |-> p, certificate |-> <<"z">>, url |-> l, bearer |-> r, clientID |-> <<"id">>, clientSecret |-> <<"cs">>] :
               u \in {<<"">>, <<"u">>, <<"secret:", "", "n", "k">>}, p \in {<<"">>, <<"secret:", "", "n", "q">>},
               l \in {<<"">>, <<"configmap:", "", "n", "k">>}, r \in {<<"">>, <<"t">>}},
   headers : {<<[name |-> "h", var |-> CN!Static(<<"1">>)], [name |-> "g", var |-> CN!Static(<<"2">>)]>>}, insecure : {FALSE}, tokenURL : {"o"}, sigv4 : {FALSE}]
Databases == {[cluster |-> Cluster, rows |-> {}]} \union {[cluster |-> Cluster, rows |-> {c}] : c \in Stored}
URLs == {<<"">>, <<"connection:", "", "c">>, <<"connection:", "", "b", "c">>, <<"connection:", "", "http", "c">>}
Inline ==
  {[connection |-> url, vars |-> [username |-> u, password |-> CN!NotSet, certificate |-> CN!NotSet, url |-> l]] :
     url \in URLs, u \in {CN!NotSet, CN!Static(<<"x">>), Ref("secret", <<"n">>, <<"k">>), Ref("secret", <<"n">>, <<"q">>)},
     l \in {CN!NotSet, Ref("helm", <<"n">>, <<"j">>)}}
InlineHTTP ==
  {[CN!NoHTTP EXCEPT !.connection = url, !.vars.username = u, !.vars.bearer = b, !.headers = h, !.tokenURL = o] :
     url \in URLs, u \in {CN!NotSet, Ref("secret", <<"n">>, <<"k">>)}, b \in {CN!NotSet, CN!Static(<<"y">>)},
     h \in {<< >>, <<[name |-> "h", var |-> Ref("secret", <<"n">>, <<"k">>)]>>}, o \in {"", "i"}}

\* Templates of selectors, for rows with some of their conditions.
LookupsOf(f) == {LU!NoLookup, [value |-> "v", label |-> "", expr |-> ""], [value |-> "", label |-> "l", expr |-> ""],
                 [value |-> "", label |-> "", expr |-> "e"]} \union (IF f = "name" THEN {[value |-> "w", label |-> "l", expr |-> ""]} ELSE {})
NoTemplate == [lookups |-> [f \in ToSet(LU!TemplateFields) |-> LU!NoLookup], labels |-> {}]
Templates ==
  {[NoTemplate EXCEPT !.lookups["name"] = n, !.lookups["external_id"] = x, !.lookups["type"] = t, !.labels = s] :
     n \in LookupsOf("name"), x \in LookupsOf("external_id"), t \in LookupsOf("type"), s \in {{}, {<<"tier", "v">>}}}
LookupRows == SUBSET {<<"name", "v">>, <<"external_id", "v">>, <<"type", "v">>, <<"tier", "v">>}
LookupLabels == {NoKeys, [l |-> "v"], [l |-> ""]}
LookupEnvs == {[e |-> v] : v \in {"v", "", LU!Failure}}
RelatedParts ==
  {[key |-> "", value |-> v] : v \in {"i", "bad"}} \union {[key |-> "direction", value |-> v] : v \in {"incoming", "up"}}
  \union {[key |-> "type", value |-> "hard"], [key |-> "depth", value |-> "2"], [key |-> "x", value |-> ""]}

-----------------------------------------------------------------------------
(* Log lines, as entries of fields, as lines and as streams.               *)

NoFields == [ignore |-> {}, message |-> {}, severity |-> {}, source |-> {}, host |-> {}]
DefaultFields == [NoFields EXCEPT !.ignore = {"i"}, !.message = {"m"}, !.severity = {"s"}, !.host = {"p"}]
Mappings == {NoFields, [NoFields EXCEPT !.ignore = {"s"}, !.message = {"m2", "m"}]}
Entries == UpTo2({<<"m", "u">>, <<"m2", "v">>, <<"s", "v">>, <<"p", "u">>, <<"i", "u">>, <<"a", "u">>, <<"a", "v">>, <<"b", "u">>})
OtherEntries == UpTo2({<<"m", "u">>, <<"s", "v">>, <<"a", "u">>, <<"b", "u">>})
Messages ==
  {[form |-> f, message |-> m, severity |-> "v", source |-> "u", host |-> "h", pid |-> "7", fields |-> fs] :
     f \in {"json", "logfmt", "klogfmt"}, m \in {"", "u"},
     fs \in {<< >>, <<<<"msg", "v">>>>, <<<<"level", "v">>, <<"a", "v">>>>, <<<<"msg", "u">>, <<"message", "v">>>>}}
  \union {[form |-> f, message |-> "u", severity |-> s, source |-> "u", host |-> "h", pid |-> p, fields |-> << >>] :
            f \in {"syslog", "text"}, s \in {"", "v"}, p \in {"", "7"}}
Formats == {"json", "logfmt", "klogfmt", "syslog", "autodetect"}

LabelsOf(keys) == UNION {[ks -> {"u", "v"}] : ks \in keys}
LineLabels == LabelsOf({{}, {"a"}, {"a", "b"}})
Lines(i, firsts) ==
  {[LG!NewLine(i, r) EXCEPT !.message = m, !.hash = m, !.first = f, !.last = l] : r \in {i, LG!Nil}, m \in {"", "u"}, f \in firsts, l \in {0, 3}}
Streams(times) == {[labels |-> m, values |-> [i \in DOMAIN ts |-> <<ts[i], "u">>]] : m \in LineLabels, ts \in times}

-----------------------------------------------------------------------------
(* Shell commands.                                                         *)

In(dir, base) == [dir |-> dir, base |-> base]
Words ==
  {SC!Program(b) : b \in {"python3", "python3.11", "bun", "pwsh", "node", "perl"}} \union {In("/usr/bin", "python3"), In("/opt", "powershell")}
Scripts ==
  {[shebang |-> FALSE, words |-> << >>, empty |-> FALSE], [shebang |-> TRUE, words |-> << >>, empty |-> FALSE],
   [shebang |-> TRUE, words |-> <<SC!Program("bun")>>, empty |-> TRUE], [shebang |-> TRUE, words |-> <<In("/usr/bin", "env")>>, empty |-> FALSE]}
  \union {[shebang |-> TRUE, words |-> ws, empty |-> FALSE] :
            ws \in {<<w>> : w \in Words} \union {<<In("/usr/bin", "env"), w>> : w \in Words} \union {<<SC!Program("bun"), SC!Program("-e")>>}}
Setups ==
  {NoKeys} \union UNION {[rs -> {"", "1"}] : rs \in {{"python"}, {"bun"}, {"powershell"}, {"playwright"}, {"bun", "playwright"}, {"python", "powershell"}}}
UserEnvs == {<< >>, <<<<"PATH", <<<<"mine">>>>>>>>, <<<<"A", "x">>, <<"PATH", << >>>>>>}
Execs ==
  {[script |-> s, env |-> e, given |-> given, setup |-> setup] : s \in Scripts, e \in UserEnvs, given \in {TRUE}, setup \in Setups}
  \union {[script |-> s, env |-> e, given |-> FALSE, setup |-> NoKeys] : s \in Scripts, e \in UserEnvs}
Hosts ==
  {[env |-> <<<<"HOME", "h">>, <<"B", "b">>>>, path |-> path, allowed |-> {"PATH", "HOME"}, disk |-> disk, broken |-> broken, present |-> present] :
     path \in {<<<<"bin">>>>, <<<<"bin">>, <<"local">>>>},
     disk \in {{}, {<<<<"bin">>, "sh">>, <<<<"local">>, "uv">>, <<<<"local">>, "node">>},
               {<<<<"bin">>, "bash">>, <<<<"bin">>, "node">>, <<<<"bin">>, "npm">>, <<<<"bin">>, "npx">>, <<<<"bin">>, "bun">>, <<<<"mine">>, "uv">>, <<<<"mine">>, "pwsh">>}},
     broken \in {{}, {"uv", "node"}}, present \in {{}, {"node"}, {"uv"}}}

-----------------------------------------------------------------------------
(* Searches of changes.  Config 3 is below 2, which is below 1; 4 stands   *)
(* beside 1.                                                               *)

In1(S) == [ok |-> TRUE, not |-> FALSE, in |-> S]
Undecodable == [ok |-> FALSE, not |-> FALSE, in |-> {}]
Row(id, config) ==
  [id |-> id, config |-> config, created |-> config + 1, inserted |-> 5 - config, deleted |-> config = 3, agent |-> IF config = 4 THEN "b" ELSE "local",
   type |-> IF config = 1 THEN "x" ELSE "y", tag |-> IF config = 2 THEN "" ELSE "t", change |-> "diff",
   severity |-> CS!Severities[id], summary |-> "s", source |-> "k", createdBy |-> IF id = 1 THEN "" ELSE "u"]
Catalog(searched) ==
  [configs |-> 1 .. 4, path |-> <<<< >>, <<1>>, <<1, 2>>, << >>>>, soft |-> {<<4, 1>>}, all |-> [c \in 1 .. 4 |-> 1 .. 3],
   changes |-> {Row(1, 1), Row(2, 2), Row(3, 3), Row(4, 4), Row(5, 2)}, searched |-> searched]
SearchWorlds == {Catalog(s) : s \in {CS!Failed, [err |-> FALSE, ids |-> << >>], [err |-> FALSE, ids |-> <<2>>], [err |-> FALSE, ids |-> <<2, 4>>]}}
Uuid(c) == <<"uuid", c>>
RequestParts ==
  [id |-> {<<Uuid(1)>>, <<Uuid(2), Uuid(3)>>, <<<<"search", "q">>>>, <<Uuid(3), <<"search", "q">>>>, <<<<"not", 2>>>>, <<<<"not", 2>>, Uuid(1)>>},
   configType |-> {In1({"y"})}, deleted |-> {TRUE}, agent |-> {"b", "bad"}, tags |-> {In1({"t"}), Undecodable}, from |-> {1, 3, CS!BadTime},
   to |-> {2, 3, CS!BadTime}, fromInserted |-> {3, CS!BadTime}, toInserted |-> {2, 4}, recursive |-> {"upstream", "none", "all", "sideways"}, soft |-> {TRUE},
   page |-> {2}, sortBy |-> {"name", "id"}, changeType |-> {In1({"diff"}), In1({"x"})}, severity |-> {<<"is", "low">>, <<"not", "high">>, <<"is", "odd">>},
   summary |-> {Undecodable}, createdBy |-> {In1({"u"}), Undecodable}]
WithPart(req) == UNION {{[req EXCEPT ![part] = v] : v \in RequestParts[part]} : part \in {p \in DOMAIN RequestParts : req[p] = CS!Defaults[p]}}

-----------------------------------------------------------------------------
(* Aggregates of a table with two columns and two maps.                    *)

Key(word) == <<word>>
Table == [columns |-> {"name", "count"}, maps |-> {"labels", "config"}, hasProperties |-> FALSE]
MapsOfRows ==
  {NoKeys, <<Key("a")>> :> 1, (<<Key("a"), Key("b")>> :> 1) @@ (<<Key("a")>> :> 2), <<<<"a", "_", "b">>>> :> AG!Text}
TableRows(id) ==
  {[id |-> id, name |-> n, count |-> 1, labels |-> l, config |-> <<Key("a")>> :> 1, deleted |-> d] : n \in 1 .. 2, l \in MapsOfRows, d \in BOOLEAN}
GroupFields ==
  {<<"name">>, <<"labels", Key("a")>>, <<"labels", Key("a"), Key("b")>>, <<"labels", <<"a", "_", "b">>>>, <<"config", Key("a")>>, <<"labels">>, <<"spec", Key("a")>>}
Aggregates ==
  {[function |-> f, field |-> field, alias |-> <<"n">>] :
     f \in {"COUNT", "SUM", "AVG", "MAX", "MIN", "MEDIAN"}, field \in {<<"count">>, <<"labels", Key("a")>>, <<"labels", Key("a"), Key("b")>>}}
  \union {[function |-> "COUNT", field |-> AG!Star, alias |-> a] : a \in {<<"c">>, <<"a">>, << >>}}

-----------------------------------------------------------------------------
(* Choosing an input.                                                     *)

Init == about = "none" /\ input = << >>

Pick(name, value) == about = "none" /\ about' = name /\ input' = value
Take(value) == about' = about \o "!" /\ input' = value
Grow(value) == UNCHANGED about /\ input' = value

-----------------------------------------------------------------------------
(* Inputs.                                                                 *)

SelectorSymbols == {"a", "in", "=", "!", "(", ")", ",", "1", " ", ">"}
Starts == {<< >>, <<"a", " ", "in", " ", "(">>, <<"a", "=", "1">>}   \* a selector, a set, another requirement
SearchSymbols == {"a", "labels", ".", "=", "(", ")", "1", "-", " ", "|", ">", "\"", ":"}

NoMap == [k \in {} |-> << >>]
LabelMaps == {NoMap} \union {[k \in {<<"a">>} |-> v] : v \in {<<"a">>, <<"b">>}}
             \union {[k \in {<<"a">>, <<"b">>} |-> IF k = <<"a">> THEN <<"a">> ELSE << >>]}

Texts == {<<"a">>, <<"!", "a">>, <<"a", ",", "b", "*">>, <<"*">>, <<"*", "b">>, <<"!", "b", "*">>}
LabelTexts ==
  {<<"a">>, <<"!", "a">>, <<"a", "=">>, <<"a", "=", "b", "*">>, <<"a", "!", "=", "b">>, <<"a", ">", "1", ",", "b">>,
   <<"a", " ", "in", " ", "(", "b", ",", "a", ")">>, <<"a", " ", "notin", " ", "(", "b", ",", "c", ")">>}
FieldTexts ==
  {<<"!", "name">>, <<"name", "!", "=", "a">>, <<"x", "=", "a">>, <<"labels", ".", "a", "=", "b">>, <<"agent", "=", "uuid">>,
   <<"agent", "!", "=", "b">>}
Searches ==
  {<<"a">>, <<"-", "a">>, <<"labels", ".", "a", "=", "a", ",", "b">>, <<"labels", ".", "a", "!", "=", "a", ",", "b">>,
   <<"tags", "=", "b">>, <<"!", "properties", ".", "a">>, <<"properties", ".", "a", "=", "a">>, <<"type", "=", "a">>,
   <<"limit", "=", "1">>, <<"name", "!", "=", "\"", "!", "a", ",", "b", "\"">>,
   <<"status", "=", "a", "|", "health", "=", "b">>, <<"config_type", "!", "=", "a">>}

\* A selector has one or two of these.
SelectorParts ==
  [search |-> Searches, name |-> Texts, health |-> {<<"b", ",", "*">>}, agent |-> {<<"*">>, <<"b">>, <<"uuid">>},
   labelSelector |-> LabelTexts, tagSelector |-> {<<"a", "=", "b">>}, fieldSelector |-> FieldTexts]
With(rs) == UNION {{[rs EXCEPT ![part] = text] : text \in SelectorParts[part]} :
                     part \in {p \in DOMAIN SelectorParts : rs[p] = << >>}}
Searching == {QM!NoSelector, [QM!NoSelector EXCEPT !.name = <<"a">>, !.labelSelector = <<"a">>]}

Rows ==
  {[id |-> <<"a">>, name |-> n, namespace |-> <<"a">>, type |-> <<"a">>, status |-> s, health |-> <<"b">>, agent |-> a,
    labels |-> l, tags |-> t, properties |-> p, deleted_at |-> QM!Null] :
     n \in Types \union {QM!Null}, s \in {QM!Null, <<"a">>}, a \in {QM!LocalAgent, <<"uuid">>},
     l \in {NoMap, [k \in {<<"a">>} |-> <<"a">>], [k \in {<<"a">>} |-> <<"b">>]},
     t \in {NoMap, [k \in {<<"a">>} |-> <<"b">>]}, p \in {NoMap, [k \in {<<"a">>} |-> <<"b">>]}}

-----------------------------------------------------------------------------

Next ==
  \/ \E cli \in Maps : Pick("properties", cli)
  \/ about = "properties" /\ \E h \in Hierarchies : h.cli = input /\ Take(h)
  \/ \E start \in Starts : Pick("labels", start)
  \/ about = "labels" /\ (\E start \in Starts : IsPrefix(start, input) /\ Len(input) - Len(start) < MaxSelector)
     /\ \E c \in SelectorSymbols : Grow(Append(input, c))
  \/ \E ls \in LabelMaps : Pick("maps", ls)
  \/ about = "maps" /\ \E ls \in LabelMaps : Take(<<input, ls>>)
  \/ \E rs \in Searching : Pick("search", rs)
  \/ about = "search" /\ Len(input.search) < MaxSearch
     /\ \E c \in SearchSymbols : Grow([input EXCEPT !.search = Append(@, c)])
  \/ \E rs \in With(QM!NoSelector) : Pick("selector", rs)
  \/ about = "selector" /\ \E rs \in With(input) \union {input} : Take(rs)
  \/ \E c \in Catalogs : Pick("catalog", c)
  \/ about = "catalog" /\ Cardinality(input.relations) < 2 /\ \E r \in Relations : Grow([input EXCEPT !.relations = @ \union {r}])
  \/ about = "catalog" /\ input.relations = {} /\ Grow([input EXCEPT !.relations = Cycle])
  \/ \E p \in Forests : Pick("topology", p)
  \/ about = "topology" /\ \E cs \in Topologies(input), rels \in Relationships : Take(<<cs, rels>>)
  \/ \E p \in Permissions : Pick("permission", p)
  \/ \E r \in Rules : Pick("review", {r})
  \/ about = "review" /\ \E r \in Rules : Take(input \union {r})
  \/ \E p \in Payloads : Pick("payload", p)
  \/ \E w \in Databases : Pick("connection", w)
  \/ about = "connection" /\ \E c \in Inline \union InlineHTTP : Take(<<input, c>>)
  \/ \E e \in EnvVars : Pick("envvar", e)
  \/ \E t \in Templates : Pick("lookups", t)
  \/ \E ps \in UpTo2(RelatedParts) : Pick("related", ps)
  \/ about = "related" /\ Len(input) = 2 /\ \E p \in RelatedParts : Take(Append(input, p))
  \/ \E e \in Entries : Pick("entries", <<e>>)
  \/ about = "entries" /\ \E e \in OtherEntries : Take(Append(input, e))
  \/ \E l \in Lines(1, {1}), m \in LineLabels : Pick("lines", <<<<l>>, <<m>>>>)
  \/ about = "lines" /\ \E l \in Lines(2, {1, 2}), m \in LineLabels : Take(<<Append(input[1], l), Append(input[2], m)>>)
  \/ \E s \in Streams({<<1>>, <<1, 2>>}) : Pick("streams", <<s>>)
  \/ about = "streams" /\ \E s \in Streams({<<2>>, <<2, 2>>}) : Take(Append(input, s))
  \/ \E h \in Hosts : Pick("shell", h)
  \/ about = "shell" /\ \E e \in Execs : Take(<<input, e>>)
  \/ Pick("changes", CS!Defaults)
  \/ about = "changes" /\ Cardinality({f \in DOMAIN input : input[f] # CS!Defaults[f]}) < 2 /\ \E req \in WithPart(input) : Grow(req)
  \/ \E r \in TableRows(1) : Pick("aggregate", <<r>>)
  \/ about = "aggregate" /\ \E r \in TableRows(2) : Take(Append(input, r))

Spec == Init /\ [][Next]_vars

-----------------------------------------------------------------------------
(* Properties.                                                             *)

\* getProperty: the first source that sets a key wins, "CLI/env -> local -> parent chain
\* -> global DB", for every hierarchy of annotated objects; and WithPrefix sets for a
\* session what getProperty finds key by key, but for what only the table sets while the
\* context has annotated objects.
LookupFollowsPrecedence == about = "properties!" => FollowsPrecedence(input) /\ AgreesOnObjects(input)

\* labels.Parse and String, ToPeg and ParsePEG: a selector survives being printed and parsed
\* again, as it is by Canonical, and so does the map of labels it is made of; a resource
\* selector asks the same after it was printed as a search and parsed, whatever the search
\* is that it starts with.
SelectorsSurviveText ==
  /\ about = "labels" => LS!PrintsBack(input)
  /\ about = "maps!" => LS!MapsPrintBack(input[1], input[2])
  /\ about \in {"search", "selector!"} => QM!PegKeepsConditions(input)

\* SetResourceSelectorClause and Matches: the rows that a selector finds in the database
\* match it in memory.
FoundRowsMatch ==
  about = "selector!" =>
    \A table \in {"config_items", "components", "canaries"} :
      QM!FoundAreMatched(QM!GetModelFromTable(table), input, Rows)

\* ConfigTree, MergeConfigTrees and Topology: a tree has every item that belongs to it once,
\* below its parent; merged trees keep what is in one of them; and a topology shows every
\* component that hangs from a root, with the worst health of what is below it.
TreesShowAll ==
  /\ about = "catalog" =>
       /\ \A id \in 1 .. 4 : CT!Complete(input, id, CT!DefaultOptions)
       /\ CT!MergeKeeps([i \in 1 .. 3 |-> CT!ConfigTree(input, <<3, 1, 2>>[i], CT!DefaultOptions)])
  /\ about = "topology!" => CM!TreeShowsHealth(input[1], input[2])

\* Enforce, the rules of permissions and the reviews of access: a permission tied to
\* resources is about those alone; a search for what a subject may do finds what a review
\* of every subject says; and a fingerprint does not depend on the order of a user's scopes and
\* changes with the scopes of one resource, if not with those of several at once.
GrantsFollowResources ==
  /\ about = "permission" => \A obj \in Objects, act \in Actions : AC!GrantsFollowResources(input, obj, act)
  /\ about = "review!" => AC!SearchAgreesWithReview(Worlds(input), <<"read">>)
  /\ about = "payload" => \A q \in Payloads : AC!FingerprintFollowsScopes(input, q)

\* The connection types and the selectors that are looked up: what is given inline wins
\* over what is stored, and each is looked up in its own namespace; a reference finds the
\* same after it was stored as text; and a lookup that finds nothing never finds more.
Only(c, fields) == [c EXCEPT !.vars = [f \in fields |-> c.vars[f]]]
ReferencesResolve ==
  /\ about = "connection!" =>
       LET w == input[1]  c == input[2]
           Wins(Hydrate(_, _, _), fields) == CN!InlineWins(w, Hydrate(w, Only(c, fields), "a"), Only(c, fields), "a")
           database == {"username", "password", "url"} IN
       IF c \in InlineHTTP THEN CN!HTTPSendsInline(w, c, "a")
       ELSE /\ Wins(CN!PopulateAWS, database) /\ Wins(CN!HydrateSQL, database) /\ Wins(CN!HydrateOpenSearch, database)
            /\ Wins(CN!PopulateKubeconfig, {"certificate"}) /\ Wins(CN!HydrateGCP, {"certificate", "url"})
            /\ Wins(CN!HydrateGit, database \union {"certificate"})
  /\ about = "envvar" => \A ns \in {"a", "b"} : CN!StoredReferencesFind([cluster |-> Cluster, rows |-> {}], input, ns)
  /\ about = "lookups" => \A labels \in LookupLabels, env \in LookupEnvs :
                           LU!NeverWidens(LookupRows, input, labels, env) /\ LU!KindsAgree(LookupRows, input, env)
  /\ about \in {"related", "related!"} => LU!ParametersCommute(input)

\* GroupLogs and Aggregate: what is grouped is in one group, which counts it and keeps what
\* it says, in the fields of a line or the labels of its group.
GroupsAddUp ==
  /\ about = "entries!" => \A config \in Mappings, by \in {<<"a">>, <<"message">>, <<"b", "severity">>} :
                            LG!EntriesKeepFields(input, config, DefaultFields, by, CHOOSE t \in Messages : t.form = "json", "json")
  /\ about = "entries" => \A text \in Messages, format \in Formats :
                           LG!EntriesKeepFields(input, NoFields, DefaultFields, <<"a">>, text, format)
  /\ about = "lines!" => \A by \in {<<"a">>, <<"message">>}, dedup \in {<< >>, <<"message">>, <<"b">>} :
                          LG!GroupsKeepLines(input[1], input[2], by, dedup)
  /\ about = "streams!" => \A by \in {<<"a">>, <<"host", "b">>} : LG!StreamsKeepLabels(input, [NoFields EXCEPT !.host = {"b"}], by)
  /\ about = "aggregate!" =>
       \A by \in UpTo2(GroupFields), agg \in Aggregates, selector \in {{}, {1, 2}} :
         AG!AnswersAddUp(Table, {input[1], input[2]}, selector, by, <<agg>>)

\* shell.Run: a script runs in the runtime that was set up for it.
RunsOwnRuntime == about = "shell!" => SC!RunsOwnRuntime(input[2], input[1])

\* FindCatalogChanges: a lenient search finds what the search without its invalid filters
\* finds, and one for a severity nothing that is less severe.
SearchesAgree ==
  about = "changes" => \A w \in SearchWorlds : CS!LenientIgnores(w, input) /\ CS!SeveritiesNest(w, input)
=============================================================================
