------------------------------- MODULE Access -------------------------------
(***************************************************************************)
(* Who may do what: src/k8s/auth.ts and the two routing handlers that      *)
(* decide about a workspace, proxyPreHandler (HTTP) and                    *)
(* handleUpgradeRequest (WebSocket).  The module has no state: it is the   *)
(* decision as a function of the configuration, the verified claims of the *)
(* caller and the annotations of the pod.                                  *)
(*                                                                         *)
(* A configuration is a record [readScope, writeScope, adminScope,         *)
(* readRole, writeRole, adminRole, defaultRole, adminUsers, enabled],      *)
(* where Unset stands for a setting that is empty.  Claims are a record    *)
(* [sub, claim, scopes, roles]: sub is what AUTH_SUB_JSONPATH finds in the *)
(* token and claim is its "sub".  Where the other claims sit is abstracted.*)
(***************************************************************************)
EXTENDS Naturals, FiniteSets, Sequences

CONSTANT Unset   \* a scope or role setting without a value

\* hasRequiredScope: a token without any scope passes unless the caller of
\* the function asks for strictness; the admin scope stands for every scope
\* and nogoo9:write for nogoo9:read.
HasScope(conf, claims, scope, strict) ==
    \/ scope = Unset
    \/ claims.scopes = {} /\ ~strict
    \/ scope \in claims.scopes
    \/ conf.adminScope # Unset /\ conf.adminScope \in claims.scopes
    \/ scope = "nogoo9:read" /\ "nogoo9:write" \in claims.scopes

\* extractAdminRole.
HasAdminRole(conf, claims) == conf.adminRole \in claims.roles

\* hasRequiredRole: an admin has every role, and a token without roles has
\* the default role.
HasRole(conf, claims, role) ==
    \/ role = Unset
    \/ HasAdminRole(conf, claims)
    \/ claims.roles = {} /\ role = conf.defaultRole
    \/ role \in claims.roles

ScopeFor(conf, action) ==
    CASE action = "admin" -> conf.adminScope
      [] action = "read"  -> conf.readScope
      [] OTHER            -> conf.writeScope

\* The roles verifyAccessOrThrow tries, the one it insists on first.
RolesFor(conf, action) ==
    CASE action = "admin" -> <<conf.adminRole>>
      [] action \in {"write", "template:create", "template:write"} ->
            <<conf.writeRole, conf.adminRole>>
      [] OTHER -> <<conf.readRole, conf.adminRole, conf.writeRole>>

Whitelisted(conf, claims) == claims.sub \in conf.adminUsers

\* verifyAccessOrThrow: the scope and one of the roles, or the white list.
VerifyAccess(conf, claims, action) ==
    LET roles == RolesFor(conf, action)
    IN  \/ Whitelisted(conf, claims)
        \/ /\ HasScope(conf, claims, ScopeFor(conf, action), FALSE)
           /\ \/ roles[1] = Unset
              \/ \E i \in DOMAIN roles : /\ roles[i] # Unset
                                         /\ HasRole(conf, claims, roles[i])

IsAdminUser(conf, claims) == VerifyAccess(conf, claims, "admin")

-----------------------------------------------------------------------------
(* The two routing handlers.  A pod is a record [owner, phase, ip, noAuth,
   requireToken, port, apis, subfolder] and its endpoints are records [path,
   port, methods, visibility], where a path is a sequence of segments, no method
   stands for every method, and a visibility is a record [kind, name, names].
   The caller is NoClaims without a token that verifies. *)

CONSTANT NoClaims

\* The running pod with an address that the listing, newest first, has first, or
\* else the newest pod.
RoutedPod(pods) ==
    LET ready == {i \in DOMAIN pods : pods[i].phase = "Running" /\ pods[i].ip}
    IN  pods[IF ready = {} THEN 1 ELSE CHOOSE i \in ready : \A j \in ready : i <= j]

\* What a visibility can be; one that is nothing else is a list of users.
Kinds == {"private", "internal", "admin", "scope", "role", "list"}

\* An endpoint without a visibility is private, one that serves statistics is for
\* admins (parseWorkspaceApis).
Private == [kind |-> "private", name |-> Unset, names |-> {}]

\* The endpoints a path falls under; the one for everything is never matched.
UnderPath(apis, path) ==
    {a \in apis : /\ a.path # <<>>
                  /\ Len(a.path) <= Len(path)
                  /\ a.path = SubSeq(path, 1, Len(a.path))}

\* The most specific one.
Deepest(apis) == CHOOSE a \in apis : \A b \in apis : Len(b.path) <= Len(a.path)

\* The port and the path the request goes to: the prefix is kept where the endpoint
\* is served on the port of the workspace.
Target(pod, found, path) ==
    IF found = {} THEN [port |-> pod.port, path |-> path]
    ELSE LET api == Deepest(found)
         IN [port |-> api.port,
             path |-> IF api.port = pod.port THEN path
                      ELSE SubSeq(path, Len(api.path) + 1, Len(path))]

VisibilityOf(found) == IF found = {} THEN Private ELSE Deepest(found).visibility

AdminClaims(conf, claims) ==
    /\ HasScope(conf, claims, conf.adminScope, FALSE)
    /\ HasRole(conf, claims, conf.adminRole)

\* What the workspace is told of its caller in headers: x-user-sub, x-user-roles and,
\* as Authorization, the token.
Told(sub, roles, token) == [sub |-> sub, roles |-> roles, token |-> token]
Nobody == Told(Unset, {}, FALSE)

\* rewriteHeaders: also where the workspace asks for no authentication, and the token
\* also when it did not verify.
HttpTold(conf, claims, token) ==
    CASE ~conf.enabled -> Nobody
      [] conf.enabled /\ claims = NoClaims -> [Nobody EXCEPT !.token = token]
      [] OTHER -> Told(claims.claim, claims.roles, token)

Refused(status) == [status |-> status, port |-> Unset, path |-> <<>>, told |-> Nobody]
Routed(target, told) ==
    [status |-> 200, port |-> target.port, path |-> target.path, told |-> told]

\* A workspace with a SUBFOLDER is served under the prefix of its route.
InSubfolder(target) == [target EXCEPT !.path = <<"route">> \o @]

\* requireRouteAuth: 0 lets the request pass.
RouteAuth(conf, claims, method) ==
    LET reads == method \in {"GET", "HEAD", "OPTIONS"}
    IN  CASE ~conf.enabled -> 0
          [] conf.enabled /\ claims = NoClaims -> 401
          [] conf.enabled /\ claims # NoClaims
             /\ HasScope(conf, claims, IF reads THEN conf.readScope ELSE conf.writeScope, FALSE)
             /\ HasRole(conf, claims, IF reads THEN conf.readRole ELSE conf.writeRole) -> 0
          [] OTHER -> 403

\* proxyPreHandler on the visibility of the matched endpoint.
HttpVisible(conf, claims, owner, vis) ==
    CASE vis.kind = "internal" -> TRUE
      [] vis.kind = "admin"    -> claims.sub = owner \/ AdminClaims(conf, claims)
      [] vis.kind = "scope"    -> HasScope(conf, claims, vis.name, TRUE)
      [] vis.kind = "role"     -> HasRole(conf, claims, vis.name)
      [] vis.kind = "private"  -> claims.sub = owner
      [] OTHER                 -> claims.sub = owner \/ claims.sub \in vis.names

\* proxyPreHandler.  A workspace that requires the token itself does not accept a
\* caller that is known by the session cookie only.
HttpDecision(conf, claims, token, pods, path, method) ==
    IF pods = <<>>
    THEN LET auth == RouteAuth(conf, claims, method)
         IN  Refused(IF auth = 0 THEN 404 ELSE auth)
    ELSE LET pod == RoutedPod(pods)
             known == IF pod.requireToken /\ ~token THEN NoClaims ELSE claims
             found == {a \in UnderPath(pod.apis, path) : a.methods = {} \/ method \in a.methods}
             auth == IF pod.noAuth THEN 0 ELSE RouteAuth(conf, known, method)
         IN  CASE auth # 0 -> Refused(auth)
               [] auth = 0 /\ ~pod.noAuth /\ conf.enabled
                  /\ ~HttpVisible(conf, known, pod.owner, VisibilityOf(found)) -> Refused(403)
               [] OTHER -> LET target == Target(pod, found, path)
                           IN  IF ~(pod.phase = "Running" /\ pod.ip) THEN Refused(503)
                               ELSE Routed(IF pod.subfolder THEN InSubfolder(target) ELSE target,
                                           HttpTold(conf, known, token))

\* handleUpgradeRequest on the visibility of the matched endpoint: written out a
\* second time in the source, and so here.
WsVisible(conf, claims, owner, vis) ==
    LET isOwner == claims.sub = owner
    IN  \/ vis.kind = "internal"
        \/ vis.kind = "admin"   /\ (isOwner \/ AdminClaims(conf, claims))
        \/ vis.kind = "scope"   /\ HasScope(conf, claims, vis.name, TRUE)
        \/ vis.kind = "role"    /\ HasRole(conf, claims, vis.name)
        \/ vis.kind = "private" /\ isOwner
        \/ vis.kind = "list"    /\ (isOwner \/ claims.sub \in vis.names)

\* Whether the handler looks at a token at all.
WsAuthenticates(conf, pods) == conf.enabled /\ ~RoutedPod(pods).noAuth

\* The scope and the role it asks of a verified token.
WsTokenAccepted(conf, claims) ==
    /\ HasScope(conf, claims, conf.readScope, FALSE)
    /\ HasRole(conf, claims, conf.readRole)

\* Written out a second time: the caller is who the token was verified to be.
WsTold(conf, claims, pods) ==
    IF WsAuthenticates(conf, pods) THEN Told(claims.sub, claims.roles, TRUE) ELSE Nobody

\* Bug: the endpoint with the shortest path wins.
WsShallow(apis, path) == {a \in UnderPath(apis, path) : Len(a.path) = 1}

\* The endpoints an upgrade falls under; their methods are not looked at.
WsFound(apis, path) == UnderPath(apis, path)

\* What handleUpgradeRequest does once the pods are listed and the token verified.  Only
\* a path that is not rewritten gets the prefix.
WsDecision(conf, claims, pods, path) ==
    LET pod == RoutedPod(pods)
        found == WsFound(pod.apis, path)
    IN  CASE WsAuthenticates(conf, pods) /\ ~WsTokenAccepted(conf, claims) -> Refused(403)
          [] WsAuthenticates(conf, pods) /\ WsTokenAccepted(conf, claims)
             /\ ~WsVisible(conf, claims, pod.owner, VisibilityOf(found)) -> Refused(403)
          [] OTHER -> LET target == Target(pod, found, path)
                      IN  IF ~(pod.phase = "Running" /\ pod.ip) THEN Refused(503)
                          ELSE Routed(IF pod.subfolder /\ target.path = path
                                      THEN InSubfolder(target) ELSE target,
                                      WsTold(conf, claims, pods))
=============================================================================
