---------------------------- MODULE KubeClients ----------------------------
(***************************************************************************)
(* The clients of a cluster that a process keeps: context.Kubernetes and   *)
(* context/kuberetes_client.go with their cache of clients, the            *)
(* Authenticator of pkg/kube/auth, and the cached reads behind             *)
(* KubernetesConnection.Populate.                                          *)
(*                                                                         *)
(* A connection is "ref", a kubeconfig read from a key of a secret in the  *)
(* namespace of the caller, or "named", a stored connection.  The token in *)
(* it is replaced from time to time, and a replaced one may be refused.    *)
(* Tokens are opaque, so that a client expires a fixed time after it was   *)
(* filled.  A client that is used through its clientset sends the token it *)
(* was last filled with; one that is used through the dynamic client asks  *)
(* its authenticator.                                                      *)
(***************************************************************************)
EXTENDS Naturals, FiniteSets

CONSTANTS
  Conns, Namespaces, Requests,
  Expiry,       \* defaultExpiry, and that of the authenticator's credentials
  Buffer,       \* how much earlier a client has expired
  ReadTTL,      \* how long a value that was read is cached
  MaxTokens     \* bound: the tokens of a namespace

\* No connection, no namespace.
NoName == "none"

KubeClientsAssumption ==
  /\ {Expiry, Buffer, ReadTTL, MaxTokens} \subseteq Nat
  /\ Buffer < Expiry /\ MaxTokens > 0 /\ NoName \notin Namespaces \union Conns

VARIABLES
  source,     \* the token of each namespace, and how long ago each earlier one was replaced
  read,       \* the cached reads, and how long they stay
  clients,    \* k8sclientcache, by hash
  auth,       \* the authenticator of each one's dynamic client
  requests,   \* what each request under way was sent with
  got,        \* the token the last step used: for whom, and how long after it was replaced
  rotated     \* the last step was no refusal, or was followed by the token there is

vars == <<source, read, clients, auth, requests, got, rotated>>

None == <<NoName, 0>>
NoToken == [conn |-> NoName, from |-> NoName, ns |-> NoName, age |-> 0]
LongAgo == ReadTTL + 2 * Expiry + 1
Age(token) == source[token[1]].age[token[2]]

\* KubernetesConnection.Hash
Hash(conn, ns) == IF conn = "named" THEN <<conn, NoName>> ELSE <<conn, ns>>
Hashes == {<<conn, ns>> : conn \in Conns, ns \in Namespaces \union {NoName}}
\* KubernetesConnection.CanExpire
CanExpire(hash) == hash[1] = "ref"

NoClient == [sends |-> None, token |-> None, left |-> 0]
\* newAuthenticator
NewAuthenticator == [token |-> None, left |-> 0]
Idle == [hash |-> None, ns |-> NoName, token |-> None, renewed |-> FALSE]

Init ==
  /\ source = [ns \in Namespaces |-> [last |-> 1, age |-> [t \in 1..MaxTokens |-> 0]]]
  /\ read = [k \in Conns \X Namespaces |-> [token |-> None, left |-> 0]]
  /\ clients = [h \in Hashes |-> NoClient]
  /\ auth = [h \in Hashes |-> NewAuthenticator]
  /\ requests = [r \in Requests |-> Idle]
  /\ got = NoToken /\ rotated = TRUE

Used(hash, ns, token) == got' = [conn |-> hash[1], from |-> token[1], ns |-> ns, age |-> Age(token)]
Unused == got' = NoToken /\ rotated' = TRUE

\* A unit of time.
Less(r) == [r EXCEPT !.left = IF @ = 0 THEN 0 ELSE @ - 1]
Tick ==
  /\ source' = [ns \in Namespaces |-> [source[ns] EXCEPT !.age =
                 [t \in 1..MaxTokens |-> IF t < source[ns].last /\ @[t] < LongAgo THEN @[t] + 1 ELSE @[t]]]]
  /\ read' = [k \in DOMAIN read |-> Less(read[k])]
  /\ clients' = [h \in Hashes |-> Less(clients[h])]
  /\ auth' = [h \in Hashes |-> Less(auth[h])]
  /\ Unused /\ UNCHANGED requests

\* The token of a namespace is replaced.
Replace(ns) ==
  /\ source[ns].last < MaxTokens
  /\ source' = [source EXCEPT ![ns].last = @ + 1]
  /\ Unused /\ UNCHANGED <<read, clients, auth, requests>>

\* GetSecretFromCache and HydrateConnectionByURL: what Populate finds now.
Found(conn, ns) ==
  IF read[<<conn, ns>>].left > 0 THEN read[<<conn, ns>>] ELSE [token |-> <<ns, source[ns].last>>, left |-> ReadTTL]

\* Variant: only what is filled for the first time is read.
HasExpiredNever(hash) == FALSE
\* HasExpired
HasExpired(hash) == CanExpire(hash) /\ clients[hash].left <= Buffer
\* Refresh is not needed: it is not expired, and has been filled since it was made.
Keeps(hash) == ~HasExpired(hash) /\ clients[hash].token # None

\* Populate and SetExpiry.
Fill(hash, conn, ns, new) ==
  LET token == Found(conn, ns).token IN
  /\ read' = [read EXCEPT ![<<conn, ns>>] = Found(conn, ns)]
  /\ clients' = [clients EXCEPT ![hash] = [sends |-> token, token |-> IF new THEN None ELSE token, left |-> Expiry]]
\* The credentials of a client's authenticator are others now.
Renew(hash) == [r \in Requests |-> IF requests[r].hash = hash THEN [requests[r] EXCEPT !.renewed = TRUE] ELSE requests[r]]

\* NewKubernetesClient: an authenticator that calls back takes the place of the token.
NewKubernetesClient(conn, ns) ==
  LET hash == Hash(conn, ns) IN
  /\ clients[hash] = NoClient
  /\ Fill(hash, conn, ns, TRUE)
  /\ auth' = [auth EXCEPT ![hash] = NewAuthenticator]
  /\ Used(hash, ns, clients'[hash].sends)
  /\ rotated' = TRUE /\ UNCHANGED <<source, requests>>

\* Context.Kubernetes of a cached client, with Refresh, and a call of its clientset.
\* Reset drops the dynamic client when the token is another one.
Kubernetes(conn, ns) ==
  LET hash == Hash(conn, ns) IN
  /\ clients[hash] # NoClient
  /\ IF Keeps(hash) THEN UNCHANGED <<read, clients>> ELSE Fill(hash, conn, ns, FALSE)
  /\ IF clients'[hash].token = clients[hash].token THEN UNCHANGED <<auth, requests>>
     ELSE auth' = [auth EXCEPT ![hash] = NewAuthenticator] /\ requests' = Renew(hash)
  /\ Used(hash, ns, clients'[hash].sends)
  /\ rotated' = TRUE /\ UNCHANGED source

\* A client is dropped from the cache after a day.
Evict(hash) ==
  /\ clients[hash] # NoClient /\ \A r \in Requests : requests[r].hash # hash
  /\ clients' = [clients EXCEPT ![hash] = NoClient]
  /\ Unused /\ UNCHANGED <<source, read, auth, requests>>

\* refreshCredsLocked: the callback is Refresh, by whoever made the client.
RefreshCredsLocked(hash, conn, ns) ==
  /\ IF Keeps(hash) THEN UNCHANGED <<read, clients>> ELSE Fill(hash, conn, ns, FALSE)
  /\ auth' = [auth EXCEPT ![hash] = [token |-> clients'[hash].token, left |-> Expiry + 1]]

\* RoundTrip and getCreds, up to when the request is sent.
Send(r, conn, ns) ==
  LET hash == Hash(conn, ns)
      sent == [hash |-> hash, ns |-> ns, token |-> auth'[hash].token, renewed |-> FALSE] IN
  /\ requests[r] = Idle /\ clients[hash] # NoClient
  /\ IF auth[hash].left > 0
     THEN UNCHANGED <<read, clients, auth>> /\ requests' = [requests EXCEPT ![r] = sent]
     ELSE RefreshCredsLocked(hash, conn, ns) /\ requests' = [Renew(hash) EXCEPT ![r] = sent]
  /\ Used(hash, ns, auth'[hash].token)
  /\ rotated' = TRUE /\ UNCHANGED source

\* RoundTrip: it is answered, or refused because the token was replaced; then
\* maybeRefreshCreds, unless the credentials are others by now.
Answered(r) ==
  /\ requests[r] # Idle
  /\ requests' = [requests EXCEPT ![r] = Idle]
  /\ Unused /\ UNCHANGED <<source, read, clients, auth>>
Unauthorized(r) ==
  LET req == requests[r]  hash == req.hash IN
  /\ req # Idle /\ req.token[2] < source[req.token[1]].last
  /\ IF req.renewed
     THEN /\ requests' = [requests EXCEPT ![r] = Idle] /\ rotated' = TRUE
          /\ UNCHANGED <<read, clients, auth>>
     ELSE /\ RefreshCredsLocked(hash, hash[1], req.ns)
          /\ requests' = [Renew(hash) EXCEPT ![r] = Idle]
          /\ rotated' = (auth'[hash].token = Found(hash[1], req.ns).token)
  /\ got' = NoToken /\ UNCHANGED source

Next ==
  \/ Tick
  \/ \E ns \in Namespaces : Replace(ns)
  \/ \E c \in Conns, ns \in Namespaces :
       NewKubernetesClient(c, ns) \/ Kubernetes(c, ns) \/ \E r \in Requests : Send(r, c, ns)
  \/ \E h \in Hashes : Evict(h)
  \/ \E r \in Requests : Answered(r) \/ Unauthorized(r)

Spec == Init /\ [][Next]_vars

-----------------------------------------------------------------------------

\* Hash: a client made for a kubeconfig of one namespace is not used in another, and
\* Kubernetes, Refresh and getCreds: a token read from a secret is used for no longer
\* after it was replaced than the read, the client and the authenticator may keep it.
TokensAreOwnAndRecent ==
  got.conn = "ref" =>
    /\ got.from = got.ns
    /\ got.age < ReadTTL + (Expiry - Buffer) + Expiry + 1

\* maybeRefreshCreds: "executes the plugin to force a rotation of the credentials, unless
\* they were rotated already", so the next request is sent with what Populate finds.
RefusedAreRotated == rotated
=============================================================================
