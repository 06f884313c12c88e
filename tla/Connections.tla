---------------------------- MODULE Connections ----------------------------
(***************************************************************************)
(* Where the values of a connection come from: types/envvar.go and         *)
(* context/envvar.go (references to keys of a cluster's secrets, config    *)
(* maps and releases), context/connection.go (stored connections by URL),  *)
(* and the connection types that fill what is not given inline from a      *)
(* stored connection.                                                      *)
(*                                                                         *)
(* A text is the sequence of its parts between slashes, so that a          *)
(* reference is printed by concatenation and parsed by counting parts.     *)
(* A world w has the stored connections, w.rows, and what the cluster      *)
(* knows, w.cluster, a function of <<kind, namespace, name, key>>.         *)
(* Templates in a connection's fields, expanded last, and the spaces       *)
(* trimmed from them are left out.                                         *)
(***************************************************************************)
EXTENDS Sequences, FiniteSets, TLC, SequencesExt

Empty == <<"">>
Error == <<"!error">>     \* a call that returned one
Nil == <<"!nil">>         \* no connection and no error

-----------------------------------------------------------------------------
(* types/envvar.go.  An EnvVar has a static text and sources, from, a      *)
(* function of their kinds to <<name, key>>; none is a nil ValueFrom.      *)

Static(text) == [static |-> text, from |-> << >>]
NotSet == Static(Empty)
KeyOf(kind, ref) == IF kind = "serviceaccount" THEN ref[1] ELSE ref[2]
Given(e, kind) == kind \in DOMAIN e.from /\ KeyOf(kind, e.from[kind]) # Empty
IsEmpty(e) == e.static = Empty /\ \A kind \in DOMAIN e.from : ~Given(e, kind)

First(e, order) == LET has == SelectSeq(order, LAMBDA kind : kind \in DOMAIN e.from) IN has[1]
\* EnvVar.String and Value
String(e) ==
  IF DOMAIN e.from = {} THEN e.static
  ELSE LET kind == First(e, <<"configmap", "secret", "serviceaccount", "helm">>) IN
       <<kind \o ":", "">> \o e.from[kind][1] \o (IF kind = "serviceaccount" THEN << >> ELSE e.from[kind][2])

Refers(text, kind) == Len(text) >= 3 /\ text[1] = kind \o ":" /\ text[2] = ""
\* EnvVar.Scan
Scan(text) ==
  LET kinds == {kind \in {"configmap", "secret", "helm", "serviceaccount"} : Refers(text, kind)} IN
  IF kinds = {} THEN Static(text)
  ELSE LET kind == CHOOSE k \in kinds : TRUE IN
       IF kind = "serviceaccount"
       THEN IF Len(text) # 3 \/ text[3] = "" THEN Static(Error) ELSE [static |-> Empty, from |-> kind :> <<<<text[3]>>, Empty>>]
       ELSE IF Len(text) # 4 THEN Static(Error)
            ELSE [static |-> Empty, from |-> kind :> <<<<text[3]>>, <<text[4]>>>>]

-----------------------------------------------------------------------------
(* context/envvar.go.                                                      *)

\* GetSecretFromCache, GetConfigMapFromCache
LookupKey(w, kind, ns, ref) ==
  IF <<kind, ns, ref[1], ref[2]>> \in DOMAIN w.cluster THEN w.cluster[<<kind, ns, ref[1], ref[2]>>] ELSE Error
\* GetHelmValueFromCache: the values of the deployed release, over those of its chart.
GetHelmValue(w, ns, ref) ==
  LET config == LookupKey(w, "helm", ns, ref)  values == LookupKey(w, "chart", ns, ref) IN
  IF config # Error THEN config ELSE values
\* GetServiceAccountTokenFromCache
GetServiceAccountToken(w, ns, ref) == LookupKey(w, "serviceaccount", ns, <<ref[1], Empty>>)

\* GetEnvValueFromCache, in the namespace given or the context's.
GetEnvValue(w, e, namespace, ctxNamespace) ==
  LET ns == IF namespace = "" THEN ctxNamespace ELSE namespace IN
  CASE IsEmpty(e) -> Empty
    [] DOMAIN e.from = {} -> e.static
    [] Given(e, "secret") -> LookupKey(w, "secret", ns, e.from["secret"])
    [] ~Given(e, "secret") /\ Given(e, "configmap") -> LookupKey(w, "configmap", ns, e.from["configmap"])
    [] ~Given(e, "secret") /\ ~Given(e, "configmap") /\ Given(e, "helm") -> GetHelmValue(w, ns, e.from["helm"])
    [] ~Given(e, "secret") /\ ~Given(e, "configmap") /\ ~Given(e, "helm") /\ Given(e, "serviceaccount")
         -> GetServiceAccountToken(w, ns, e.from["serviceaccount"])
    [] OTHER -> Empty
\* GetEnvStringFromCache
GetEnvString(w, text, ns, ctxNs) ==
  IF Scan(text).static = Error THEN Error ELSE GetEnvValue(w, Scan(text), ns, ctxNs)

-----------------------------------------------------------------------------
(* context/connection.go.  A stored connection has a name, a namespace, a  *)
(* type, whether it is deleted, and its fields, a function to texts.       *)

\* extractConnectionNameType
ExtractConnectionNameType(text) ==
  LET parts == SubSeq(text, 3, Len(text))
      name == IF Len(parts) \in 1..3 THEN Last(parts) ELSE ""
      ns == IF Len(parts) \in 2..3 THEN parts[Len(parts) - 1] ELSE "" IN
  [found |-> Refers(text, "connection") /\ name # "", name |-> name, namespace |-> ns]

\* FindConnection: by name and namespace, or else with the namespace for its type.
FindConnection(w, name, namespace, ctxNs) ==
  LET ns == IF namespace = "" THEN ctxNs ELSE namespace
      named == {c \in w.rows : c.name = name /\ ~c.deleted}
      here == {c \in named : c.namespace = ns}
      typed == {c \in named : c.type = ns} IN
  IF here # {} THEN here ELSE typed

\* HydrateConnection
HydrateConnection(w, c, ctxNs) == [c EXCEPT !.fields = [f \in DOMAIN @ |-> GetEnvString(w, @[f], c.namespace, ctxNs)]]
Failed(c) == Error \in Range(c.fields)
NoConnection == [name |-> "", namespace |-> "", type |-> "", deleted |-> FALSE, fields |-> << >>]

\* HydrateConnectionByURL, of a connection:// URL; what comes with it is ok, error or nil.
HydrateConnectionByURL(w, url, ctxNs) ==
  LET at == ExtractConnectionNameType(url)
      found == FindConnection(w, at.name, at.namespace, ctxNs)
      hydrated == HydrateConnection(w, CHOOSE c \in found : TRUE, ctxNs) IN
  IF url = Empty THEN [is |-> "nil", it |-> NoConnection]
  ELSE IF ~at.found \/ found = {} \/ Failed(hydrated) THEN [is |-> "error", it |-> NoConnection]
  ELSE [is |-> "ok", it |-> hydrated]

\* A field of a stored connection.
FieldOf(c, f) == IF f \in DOMAIN c.fields THEN c.fields[f] ELSE Empty

-----------------------------------------------------------------------------
(* The connection types.  inline has the connection's URL and, in vars,    *)
(* the EnvVars given; ctxNs is the namespace of the context.               *)

\* What is given inline is kept.
Filled(inline, c, source) ==
  [f \in DOMAIN inline.vars |-> IF IsEmpty(inline.vars[f]) /\ f \in DOMAIN source THEN Static(FieldOf(c, source[f])) ELSE inline.vars[f]]
\* The static text of every variable is its value.
Evaluated(w, vars, ns, ctxNs) == [f \in DOMAIN vars |-> [vars[f] EXCEPT !.static = GetEnvValue(w, vars[f], ns, ctxNs)]]
Result(w, vars, ns, ctxNs) ==
  LET out == Evaluated(w, vars, ns, ctxNs) IN
  IF \E f \in DOMAIN out : out[f].static = Error THEN [is |-> "error", vars |-> << >>] ELSE [is |-> "ok", vars |-> out]
Refused == [is |-> "error", vars |-> << >>]

\* A type that needs the connection it names.
Required(w, inline, ctxNs, source) ==
  LET found == HydrateConnectionByURL(w, inline.connection, ctxNs) IN
  IF inline.connection # Empty /\ found.is # "ok" THEN Refused
  ELSE Result(w, IF inline.connection = Empty THEN inline.vars ELSE Filled(inline, found.it, source), "", ctxNs)
\* A type that goes on without it.
Optional(w, inline, ctxNs, source) ==
  LET found == HydrateConnectionByURL(w, inline.connection, ctxNs) IN
  IF found.is = "error" THEN Refused
  ELSE Result(w, IF found.is = "nil" THEN inline.vars ELSE Filled(inline, found.it, source), "", ctxNs)

\* AWSConnection.Populate
PopulateAWS(w, inline, ctxNs) == Required(w, inline, ctxNs, [username |-> "username", password |-> "password", url |-> "url"])
\* SQLConnection.HydrateConnection
HydrateSQL(w, inline, ctxNs) ==
  LET found == HydrateConnectionByURL(w, inline.connection, ctxNs) IN
  IF inline.connection # Empty /\ found.it.type \notin {"postgres", "mysql", "sql_server"} THEN Refused
  ELSE Required(w, inline, ctxNs, [username |-> "username", password |-> "password", url |-> "url"])
\* OpensearchConnection.Hydrate: a stored connection without a URL is refused.
HydrateOpenSearch(w, inline, ctxNs) ==
  LET found == HydrateConnectionByURL(w, inline.connection, ctxNs) IN
  IF inline.connection # Empty /\ FieldOf(found.it, "url") = Empty THEN Refused
  ELSE Required(w, inline, ctxNs, [username |-> "username", password |-> "password", url |-> "url"])
\* KubeconfigConnection.Populate
PopulateKubeconfig(w, inline, ctxNs) == Required(w, inline, ctxNs, [certificate |-> "certificate"])
\* GCPConnection.HydrateConnection
HydrateGCP(w, inline, ctxNs) == Optional(w, inline, ctxNs, [certificate |-> "certificate", url |-> "url"])
\* GitConnection.HydrateConnection
HydrateGit(w, inline, ctxNs) ==
  Optional(w, inline, ctxNs, [username |-> "username", password |-> "password", certificate |-> "certificate", url |-> "url"])

-----------------------------------------------------------------------------
(* connection/http.go.  An HTTP connection has more: headers, TLS          *)
(* settings (with insecure), the URL of OAuth tokens and AWS signatures.   *)

Basic == {"username", "password"}
TLS == {"ca", "cert", "key"}
HTTPVars == {"url", "bearer", "clientID", "clientSecret"} \union Basic \union TLS
NoHTTP ==
  [connection |-> Empty, vars |-> [f \in HTTPVars |-> NotSet], headers |-> << >>, insecure |-> FALSE, tokenURL |-> "", sigv4 |-> FALSE]

\* mergeHeaders
MergeHeaders(conn, inline) ==
  LET names == {inline[i].name : i \in DOMAIN inline} IN SelectSeq(conn, LAMBDA h : h.name \notin names) \o inline

\* HTTPConnection.FromModel and, for AWS and Azure, NewHTTPConnection.
FromModel(c) ==
  LET of == [username |-> "username", password |-> "password", url |-> "url", bearer |-> "bearer",
             clientID |-> IF c.type = "azure" THEN "username" ELSE "clientID",
             clientSecret |-> IF c.type = "azure" THEN "password" ELSE "clientSecret"]
      kept == CASE c.type = "aws" -> {"url"} [] c.type = "azure" -> DOMAIN of \ Basic [] OTHER -> DOMAIN of IN
  [NoHTTP EXCEPT !.vars = [f \in HTTPVars |-> IF f \in kept THEN Scan(FieldOf(c, of[f])) ELSE NotSet],
                 !.headers = c.headers, !.insecure = c.insecure,
                 !.tokenURL = IF c.type = "azure" /\ c.tokenURL = "" THEN "azure" ELSE IF c.type = "aws" THEN "" ELSE c.tokenURL,
                 !.sigv4 = (c.type = "aws" \/ c.sigv4)]

\* The second half of Hydrate, in the namespace given.
Hydrated(w, h, ns, ctxNs) ==
  LET vars == Evaluated(w, [h.vars EXCEPT !.url = Scan(String(@))], ns, ctxNs)
      headers == [i \in DOMAIN h.headers |-> [h.headers[i] EXCEPT !.var.static = GetEnvValue(w, h.headers[i].var, ns, ctxNs)]]
      bad == (\E f \in HTTPVars : vars[f].static = Error) \/ \E i \in DOMAIN headers : headers[i].var.static = Error IN
  IF bad THEN [is |-> "error", http |-> NoHTTP]
  ELSE [is |-> "ok", http |-> [h EXCEPT !.vars = [vars EXCEPT !.url = Static(vars.url.static)], !.headers = headers]]

\* NewHTTPConnection
NewHTTPConnection(w, c, ctxNs) ==
  IF c.type \notin {"http", "prometheus", "", "aws", "azure"} THEN [is |-> "error", http |-> NoHTTP]
  ELSE Hydrated(w, FromModel(c), c.namespace, ctxNs)

\* What is given inline over what is stored; basic auth and TLS as a whole, headers by
\* name.
OverStored(stored, h) ==
  LET Has(fs) == \E f \in fs : ~IsEmpty(h.vars[f])
      tls == Has(TLS) \/ h.insecure
      inline(f) == CASE f \in Basic -> Has(Basic) [] f \in TLS -> tls [] OTHER -> Has({f}) IN
  [stored EXCEPT !.vars = [f \in HTTPVars |-> IF inline(f) THEN h.vars[f] ELSE @[f]],
                 !.headers = IF h.headers = << >> THEN @ ELSE MergeHeaders(@, h.headers),
                 !.insecure = IF tls THEN h.insecure ELSE @,
                 !.tokenURL = IF h.tokenURL = "" THEN @ ELSE h.tokenURL,
                 !.sigv4 = @ \/ h.sigv4]

\* HTTPConnection.Hydrate
HydrateHTTP(w, h, ns, ctxNs) ==
  LET found == HydrateConnectionByURL(w, h.connection, ctxNs)
      new == NewHTTPConnection(w, found.it, ctxNs) IN
  IF h.connection # Empty /\ (found.is # "ok" \/ new.is # "ok") THEN [is |-> "error", http |-> NoHTTP]
  ELSE Hydrated(w, IF h.connection = Empty THEN h ELSE OverStored(new.http, h), ns, ctxNs)

\* Which credentials are sent: basic auth, or else a bearer token, or else OAuth's, whose
\* variables are read by the text that Of gives.
Auth(h, Of(_)) ==
  LET Has(f) == ~IsEmpty(h.vars[f]) IN
  CASE Has("username") \/ Has("password") -> <<"basic", h.vars.username.static, h.vars.password.static>>
    [] ~(Has("username") \/ Has("password")) /\ Has("bearer") -> <<"bearer", h.vars.bearer.static>>
    [] ~(Has("username") \/ Has("password") \/ Has("bearer")) /\ Has("clientID") /\ Has("clientSecret") /\ h.tokenURL # ""
         -> <<"oauth", Of(h.vars.clientID), Of(h.vars.clientSecret), h.tokenURL>>
    [] OTHER -> <<"none">>
Sent(h, auth) ==
  [auth |-> auth, sigv4 |-> h.sigv4,
   headers |-> {<<h.headers[i].name, h.headers[i].var.static>> : i \in {j \in DOMAIN h.headers : ~IsEmpty(h.headers[j].var)}}]
\* httpConnectionRoundTripper.RoundTrip
RoundTrip(h) == Sent(h, Auth(h, String))
\* CreateHTTPClient
CreateHTTPClient(h) == Sent(h, Auth(h, LAMBDA e : e.static))
\* TLSConfig.clientConfig: a certificate and its key, or neither.
ClientConfig(h) == IsEmpty(h.vars.cert) = IsEmpty(h.vars.key)

-----------------------------------------------------------------------------
(* Properties.                                                             *)

\* EnvVar.String and Scan: a reference to one key of one object finds the same after it
\* was stored as text, unless a slash in it makes the text one that is refused.
StoredReferencesFind(w, e, ns) ==
  Cardinality(DOMAIN e.from) <= 1 /\ (DOMAIN e.from = {} => ~\E kind \in {"secret", "configmap", "helm", "serviceaccount"} : Refers(e.static, kind))
    => \/ GetEnvString(w, String(e), ns, "") = GetEnvValue(w, e, ns, "")
       \/ /\ GetEnvString(w, String(e), ns, "") = Error
          /\ \E kind \in DOMAIN e.from : Len(e.from[kind][1]) > 1 \/ Len(e.from[kind][2]) > 1 \/ ~Given(e, kind)

\* Every connection type: a value is the one given inline, looked up in the namespace of
\* the context, or else the stored one, looked up in the namespace of its connection, and
\* a value that cannot be had, or a missing connection, is an error.
Wanted(w, c, inline, ctxNs, f) ==
  IF ~IsEmpty(inline.vars[f]) THEN GetEnvValue(w, inline.vars[f], "", ctxNs)
  ELSE IF c = {} THEN Empty ELSE GetEnvString(w, FieldOf(CHOOSE x \in c : TRUE, f), (CHOOSE x \in c : TRUE).namespace, ctxNs)
InlineWins(w, out, inline, ctxNs) ==
  LET at == ExtractConnectionNameType(inline.connection)
      c == IF inline.connection = Empty THEN {} ELSE FindConnection(w, at.name, at.namespace, ctxNs) IN
  /\ out.is = "ok" => \A f \in DOMAIN inline.vars : out.vars[f].static = Wanted(w, c, inline, ctxNs, f) /\ out.vars[f].static # Error
  /\ inline.connection # Empty /\ c = {} => out.is = "error"

\* HTTPConnection: the same of what is sent, for the first of basic auth, a bearer token
\* and OAuth that there is inline or stored; and both ways to make a client send it.
SendsInline(w, h, ctxNs, out, sent) ==
  LET at == ExtractConnectionNameType(h.connection)
      c == IF h.connection = Empty THEN {} ELSE FindConnection(w, at.name, at.namespace, ctxNs)
      Want(f) == Wanted(w, c, h, ctxNs, f)
      basic == IF \E f \in Basic : ~IsEmpty(h.vars[f]) THEN {<<Wanted(w, {}, h, ctxNs, "username"), Wanted(w, {}, h, ctxNs, "password")>>}
               ELSE {<<Want("username"), Want("password")>>} \ {<<Empty, Empty>>}
      stored == UNION {{<<x.headers[i].name, x.headers[i].var.static>> : i \in DOMAIN x.headers} : x \in c}
      given == {<<h.headers[i].name, GetEnvValue(w, h.headers[i].var, ctxNs, ctxNs)>> : i \in DOMAIN h.headers} IN
  out.is = "ok" /\ (\A x \in c : x.type = "http" /\ \A i \in DOMAIN x.headers : DOMAIN x.headers[i].var.from = {}) =>
    /\ basic # {} => \E b \in basic : sent.auth = <<"basic">> \o b
    /\ basic = {} /\ Want("bearer") # Empty => sent.auth = <<"bearer", Want("bearer")>>
    /\ basic = {} /\ Want("bearer") = Empty /\ sent.auth[1] = "oauth" => sent.auth[2] = Want("clientID") /\ sent.auth[3] = Want("clientSecret")
    /\ \A p \in stored : p \in sent.headers \/ \E g \in given : g[1] = p[1]
    /\ \A g \in given : g \in sent.headers
    /\ (sent.auth[1] = "oauth" => \A f \in {"clientID", "clientSecret"} : DOMAIN out.http.vars[f].from = {}) => RoundTrip(out.http) = sent
HTTPSendsInline(w, h, ctxNs) ==
  LET out == HydrateHTTP(w, h, ctxNs, ctxNs) IN SendsInline(w, h, ctxNs, out, CreateHTTPClient(out.http))
=============================================================================
