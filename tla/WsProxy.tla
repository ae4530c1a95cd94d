------------------------------- MODULE WsProxy -------------------------------
(***************************************************************************)
(* One WebSocket upgrade of a workspace route, from the request to the end *)
(* of the tunnel (src/server/ws-proxy.ts), while other requests verify     *)
(* tokens too.                                                             *)
(*                                                                         *)
(* The handler pushes what the client sends before the pod is connected    *)
(* into a buffer.  Error and close handlers are put on the two sockets     *)
(* only when the connection to the pod is begun.  Sockets of the HTTP      *)
(* server stay half open when the client ends its side.                    *)
(***************************************************************************)
EXTENDS Access, Verification

CONSTANTS
    Ws,             \* the verifier that is this upgrade
    Setups,         \* what is looked at: a configuration, whether the pod goes on talking to
                    \* its clients, and the bounds used, on changes of the key set and on
                    \* what the client sends
    Callers,        \* tokens an upgrade can carry
    NoToken,
    Claims,         \* what a token can say of its bearer
    Listings,       \* answers to the listing of the workspace's pods
    Paths           \* paths below the workspace

ASSUME WsAssumption ==
    /\ Ws \in Verifiers
    /\ \A s \in Setups : /\ s.rotations <= MaxRotations /\ s.chunks \in Nat
                         /\ s.talks \in BOOLEAN
    /\ NoClaims \notin Claims
    /\ \A path \in Paths : Len(path) \in Nat

\* A listing is a sequence of pods, each with its endpoints.
ASSUME ListingsAssumption ==
    /\ <<>> \in Listings
    /\ \A pods \in Listings :
          /\ Len(pods) \in Nat /\ DOMAIN pods = 1..Len(pods)
          /\ pods # <<>> => Len(pods) > 0
          /\ \A i \in DOMAIN pods : \A a \in pods[i].apis :
                Len(a.path) \in Nat /\ a.visibility.kind \in Kinds

VARIABLES
    setup,      \* never changes
    stage,      \* of the handler
    asked,      \* the token and the pods it decides about, while it does
    client,     \* the socket of the client: "open", "ended" (half open), "closed"
    upstream,   \* the socket to the pod
    clientBuffer,
    written,    \* what is written to the pod, in order
    head,       \* whether the first bytes came with the request
    patient,    \* whether the client waits for the answer before it sends
    chunks,     \* how much the client has sent
    answered    \* the pod's answer was passed on

tunnelVars == <<client, upstream, clientBuffer, written, head, patient, chunks, answered>>
vars == <<setup, stage, asked, keyVars, tunnelVars>>

Request == 0    \* the request as it is written to the pod; chunks are 1, 2, ...

Nothing == [token |-> NoToken, pods |-> <<>>]

TypeOK ==
    /\ KeysTypeOK
    /\ stage \in {"none", "listing", "verifying", "introspecting", "tunnel", "refused",
                  "crashed"}
    /\ setup \in Setups
    /\ asked \in [token : Callers \cup {NoToken}, pods : Listings]
    /\ client \in {"none", "open", "ended", "closed"}
    /\ upstream \in {"none", "connecting", "open", "ending", "closed"}
    /\ clientBuffer \in Seq(1..setup.chunks)
    /\ written \in Seq(0..setup.chunks)
    /\ chunks \in 0..setup.chunks
    /\ {head, patient, answered} \subseteq BOOLEAN
    /\ (upstream # "none") => stage \in {"tunnel", "crashed"}
    /\ (lookups[Ws].step # "idle") => stage = "verifying"
    /\ (asked.pods # <<>>) = (stage \in {"verifying", "introspecting"})

Init ==
    /\ KeysInit
    /\ setup \in Setups
    /\ stage = "none"
    /\ asked = Nothing
    /\ client = "none"
    /\ upstream = "none"
    /\ clientBuffer = <<>>
    /\ written = <<>>
    /\ head = FALSE
    /\ patient \in BOOLEAN
    /\ chunks = 0
    /\ answered = FALSE

-----------------------------------------------------------------------------
(* The handler *)

\* The request, perhaps with the first bytes behind it.
Upgrade ==
    /\ stage = "none"
    /\ stage' = "listing"
    /\ \E token \in Callers \cup {NoToken} : asked' = [Nothing EXCEPT !.token = token]
    /\ client' = "open"
    /\ head' \in {FALSE} \cup (IF patient \/ setup.chunks = 0 THEN {} ELSE {TRUE})
    /\ chunks' = IF head' THEN 1 ELSE 0
    /\ clientBuffer' = IF head' THEN <<1>> ELSE <<>>
    /\ UNCHANGED <<setup, keyVars, upstream, written, patient, answered>>

\* An answer without upgrade, and the socket is destroyed.
Refuse ==
    /\ stage' = "refused"
    /\ asked' = Nothing
    /\ client' = "closed"
    /\ clientBuffer' = <<>>
    /\ UNCHANGED <<upstream, written, head, patient, chunks, answered>>

Hooked == upstream # "none"
Close(socket) == socket' = "closed"
PortNumbers == 0..65535

\* The decision on the claims of the caller.  The connection is begun and the handlers
\* are installed.  A port that is not one makes net.connect throw where nothing catches it.
Connect(claims, pods) ==
    \E path \in Paths :
       LET decision == WsDecision(setup.conf, claims, pods, path)
       IN  \/ decision.status # 200 /\ Refuse
           \/ /\ decision.status = 200
              /\ asked' = Nothing
              /\ IF decision.port \in PortNumbers
                 THEN stage' = "tunnel" /\ upstream' = "connecting" /\ UNCHANGED client
                 ELSE stage' = "crashed" /\ Close(client) /\ UNCHANGED upstream
              /\ UNCHANGED <<clientBuffer, written, head, patient, chunks, answered>>

\* The pods of the workspace are listed and one is chosen; then the token is looked
\* for where the workspace asks for one.  Without a pod (404), a listing (500) or the
\* token (401) the upgrade is refused.  The pod is not read again.
Resolve ==
    /\ stage = "listing"
    /\ \/ \E pods \in Listings \ {<<>>} :
             IF WsAuthenticates(setup.conf, pods)
             THEN /\ asked.token # NoToken
                  /\ asked' = [asked EXCEPT !.pods = pods]
                  /\ stage' = IF setup.conf.verify = "introspection" THEN "introspecting"
                              ELSE "verifying"
                  /\ UNCHANGED tunnelVars
             ELSE Connect(NoClaims, pods)
       \/ Refuse
    /\ UNCHANGED <<setup, keyVars>>

\* The claims of a verified token are what is decided on.
Decide(verified) ==
    IF verified THEN \E claims \in Claims : Connect(claims, asked.pods) ELSE Refuse

Introspect ==
    /\ stage = "introspecting"
    /\ \/ Decide(Introspected(asked.token)) /\ UNCHANGED keyVars
       \/ /\ failures < MaxFailures /\ failures' = failures + 1
          /\ Refuse
          /\ UNCHANGED <<now, rotations, jwksCache, lookups>>
    /\ UNCHANGED setup

\* Expiry is looked at before the keys.
VerifyBegins ==
    /\ stage = "verifying"
    /\ lookups[Ws].step = "idle"
    /\ \/ /\ Expired(asked.token)
          /\ Decide(FALSE) /\ UNCHANGED keyVars
       \/ /\ ~Expired(asked.token) /\ setup.conf.verify = "key"
          /\ Decide(Accepts(asked.token, KnownKey)) /\ UNCHANGED keyVars
       \/ /\ ~Expired(asked.token) /\ setup.conf.verify = "jwks"
          /\ Lookup(Ws) /\ UNCHANGED <<stage, asked, tunnelVars>>
    /\ UNCHANGED setup

\* Bug: the keys are kept for the next token.
VerifyEndsKept ==
    /\ stage = "verifying"
    /\ lookups[Ws].step = "done"
    /\ Decide(Accepts(asked.token, lookups[Ws].keys))
    /\ UNCHANGED <<setup, keyVars>>

VerifyEnds ==
    /\ stage = "verifying"
    /\ lookups[Ws].step = "done"
    /\ Decide(Accepts(asked.token, lookups[Ws].keys))
    /\ Forget(Ws)
    /\ UNCHANGED <<setup, now, rotations, jwksCache, failures>>

-----------------------------------------------------------------------------
(* The tunnel *)

\* Bug: data goes into the buffer until the pod has answered.
ClientSendsBuffered ==
    /\ client = "open"
    /\ chunks < setup.chunks
    /\ patient => answered
    /\ chunks' = chunks + 1
    /\ IF answered
       THEN written' = Append(written, chunks') /\ UNCHANGED clientBuffer
       ELSE clientBuffer' = Append(clientBuffer, chunks') /\ UNCHANGED written
    /\ UNCHANGED <<setup, stage, asked, keyVars, client, upstream, head, patient, answered>>

\* onClientData: written at once when there is a socket that can be written to, also
\* one that is not connected yet.
ClientSends ==
    /\ client = "open"
    /\ chunks < setup.chunks
    /\ patient => answered
    /\ chunks' = chunks + 1
    /\ IF upstream \in {"connecting", "open"}
       THEN written' = Append(written, chunks') /\ UNCHANGED clientBuffer
       ELSE clientBuffer' = Append(clientBuffer, chunks') /\ UNCHANGED written
    /\ UNCHANGED <<setup, stage, asked, keyVars, client, upstream, head, patient, answered>>

\* The request, the first bytes, and the buffer, which holds them once more.
Connected ==
    /\ upstream = "connecting"
    /\ upstream' = "open"
    /\ written' = written \o <<Request>> \o (IF head THEN <<1>> ELSE <<>>) \o clientBuffer
    /\ clientBuffer' = <<>>
    /\ UNCHANGED <<setup, stage, asked, keyVars, client, head, patient, chunks, answered>>

\* 'error' of the socket to the pod: the client is cut off without an answer.
ConnectFails ==
    /\ upstream = "connecting"
    /\ Close(upstream) /\ Close(client)
    /\ UNCHANGED <<setup, stage, asked, keyVars, clientBuffer, written, head, patient, chunks, answered>>

\* The pod sends something; a client that has gone answers with a reset.
UpstreamTalks ==
    /\ upstream = "open"
    /\ IF client = "ended"
       THEN Close(upstream) /\ Close(client)
       ELSE UNCHANGED <<upstream, client>>
    /\ answered' = TRUE
    /\ UNCHANGED <<setup, stage, asked, keyVars, clientBuffer, written, head, patient, chunks>>

UpstreamEnds ==
    /\ upstream = "open"
    /\ upstream' = "ending"
    /\ UNCHANGED <<setup, stage, asked, keyVars, client, clientBuffer, written, head, patient, chunks,
                   answered>>

\* Bug: the end of the pod's side is not passed on.
UpstreamClosedAlone ==
    /\ upstream = "ending"
    /\ Close(upstream)
    /\ UNCHANGED <<setup, stage, asked, keyVars, client, clientBuffer, written, head, patient, chunks,
                   answered>>

\* 'close' of the socket to the pod.
UpstreamClosed ==
    /\ upstream = "ending"
    /\ Close(upstream) /\ Close(client)
    /\ UNCHANGED <<setup, stage, asked, keyVars, clientBuffer, written, head, patient, chunks, answered>>

\* The client ends its side; nothing listens to that.
ClientEnds ==
    /\ client = "open"
    /\ client' = "ended"
    /\ UNCHANGED <<setup, stage, asked, keyVars, upstream, clientBuffer, written, head, patient, chunks,
                   answered>>

\* The connection of the client breaks: an 'error' without a handler ends the process.
ClientResets ==
    /\ client \in {"open", "ended"}
    /\ Close(client)
    /\ asked' = Nothing
    /\ IF Hooked
       THEN Close(upstream) /\ UNCHANGED <<stage, lookups>>
       ELSE stage' = "crashed" /\ Forget(Ws) /\ UNCHANGED upstream
    /\ UNCHANGED <<setup, now, rotations, jwksCache, failures,
                   clientBuffer, written, head, patient, chunks, answered>>

-----------------------------------------------------------------------------
\* Another request that verifies a token.
OtherVerifies(v) ==
    /\ v # Ws /\ setup.conf.verify = "jwks"
    /\ \/ Lookup(v)
       \/ lookups[v].step = "done" /\ Forget(v) /\ UNCHANGED <<now, rotations, jwksCache, failures>>
    /\ UNCHANGED <<setup, stage, asked, tunnelVars>>

Provider ==
    /\ \/ Tick
       \/ Len(rotations) < setup.rotations /\ Rotate
       \/ \E v \in Verifiers : FetchKeys(v) \/ FetchFails(v)
    /\ UNCHANGED <<setup, stage, asked, tunnelVars>>

Handler == Resolve \/ Introspect \/ VerifyBegins \/ VerifyEnds

Tunnel ==
    \/ ClientSends \/ Connected \/ ConnectFails \/ UpstreamTalks \/ UpstreamEnds
    \/ UpstreamClosed \/ ClientEnds \/ ClientResets

Next ==
    \/ Upgrade \/ Handler \/ Tunnel \/ Provider
    \/ \E v \in Verifiers : OtherVerifies(v)

Spec == Init /\ [][Next]_vars

\* The handler goes on, requests to the provider and connections to the pod come to an
\* end.  Nothing here makes a pod talk: some do (they answer or ping), others stay silent.
Fairness ==
    /\ WF_vars(Handler)
    /\ WF_vars(FetchKeys(Ws) /\ UNCHANGED <<setup, stage, asked, tunnelVars>>)
    /\ WF_vars(Connected) /\ WF_vars(UpstreamClosed)
    /\ WF_vars(setup.talks /\ UpstreamTalks)

FairSpec == Spec /\ Fairness

-----------------------------------------------------------------------------
(* Properties *)

\* HTTP and WebSocket requests of one caller to one address of a workspace reach the same
\* place or neither does, and the workspace is told the same of the caller: both the decision
\* and the headers are written twice (auth.ts:507-825, proxy.ts:30-67, ws-proxy.ts:98-463).
\* Endpoints that are limited to methods differ, and so do those with a port of their own
\* where the workspace has a SUBFOLDER; what is told differs where the workspace asks for no
\* authentication or the identity is not the claim "sub".
RoutesAgree ==
    stage = "none" =>
        \A claims \in Claims, pods \in Listings \ {<<>>}, path \in Paths :
            LET pod == RoutedPod(pods)
                ws == WsDecision(setup.conf, claims, pods, path)
                http == HttpDecision(setup.conf, claims, TRUE, pods, path, "GET")
            IN  (\A a \in UnderPath(pod.apis, path) :
                    a.methods = {} /\ (pod.subfolder => a.port = pod.port)) =>
                /\ [ws EXCEPT !.told = Nobody] = [http EXCEPT !.told = Nobody]
                /\ ~pod.noAuth /\ claims.sub = claims.claim => ws = http

\* ADR-028: buffering prevents losing early data.  While the pod is connected everything
\* the client has sent is written to it, and what a client that waits for the answer sent
\* arrives once and in order (ws-proxy.ts:55-70, 477-494).
BytesDelivered ==
    upstream = "open" =>
        /\ \A i \in 1..chunks : \E j \in DOMAIN written : written[j] = i
        /\ patient => written = [j \in 1..(chunks + 1) |-> j - 1]

\* ADR-028 claims full integrity of frames, also of what the client sends before the pod is
\* known: the pod gets the request and then every chunk once and in order, whatever kind of
\* client it is (ws-proxy.ts:55-70, 477-494).
FrameIntegrity == upstream = "open" => written = [j \in 1..(chunks + 1) |-> j - 1]

\* A tunnel does not outlive either end: what the client or the pod has left is closed on
\* the other side too, also when the client left before the pod was connected.  A client
\* that has only ended its side is noticed when the pod writes to it, so this much holds for
\* pods that talk; with a silent one the half-open connection stays (ws-proxy.ts:529-553 has
\* neither an "end" handler nor a timeout).
NoOrphan ==
    /\ (stage = "tunnel" /\ (client = "closed" \/ upstream = "ending"))
          ~> (client = "closed" /\ upstream = "closed")
    /\ (stage = "tunnel" /\ client = "ended" /\ setup.talks)
          ~> (client = "closed" /\ upstream = "closed")
=============================================================================
