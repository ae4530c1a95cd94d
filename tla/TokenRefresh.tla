---------------------------- MODULE TokenRefresh ----------------------------
(***************************************************************************)
(* The cookies of a browser, the requests that carry copies of them, and   *)
(* the exchange of refresh tokens at an identity provider that makes a     *)
(* refresh token invalid when it is used.  Exchanges of one token in one   *)
(* replica are coalesced (auth-singleflight.ts); responses reach the       *)
(* browser in any order; somebody else may sign in at the same browser.    *)
(* Each action runs a handler up to its next await.                        *)
(***************************************************************************)
EXTENDS Naturals, FiniteSets, Sequences

CONSTANTS
    Users,          \* who sign in at the browser
    Replicas,
    KeyAssignments, \* session keys the replicas may have: functions on Replicas
    Slots,          \* bounds the requests under way
    MaxRequests,    \* bound on the requests sent
    MaxTokens,      \* bound on the refresh tokens issued
    MaxFaults,      \* bound on exchanges that fail without being refused
    MaxLogouts

ASSUME TokenRefreshAssumption ==
    /\ \A k \in KeyAssignments : DOMAIN k = Replicas
    /\ {MaxRequests, MaxTokens, MaxFaults, MaxLogouts} \subseteq Nat
    /\ <<>> \notin Users

VARIABLES
    keyOf,      \* the session key of each replica, never changes
    jar,        \* the cookies of the browser
    signedIn,   \* who signed in last
    requests,   \* the requests under way, by slot
    flights,    \* inflightRefreshes of all replicas, by replica and token
    issued,     \* number of refresh tokens the provider has issued to a user
    live,       \* the one that is valid, 0 when there is none
    aged,       \* access tokens up to this one have expired
    sent, faults, logouts,
    disturbed   \* history: something happened that may cost a user the session

vars == <<keyOf, jar, signedIn, requests, flights, issued, live, aged, sent,
          faults, logouts, disturbed>>

None == <<>>
Token(b, g) == <<b, g>>
UserOf(token) == token[1]
GenOf(token) == token[2]

\* encryptRefreshToken, createSessionCookie: only the key they are made with opens them.
Sealed(what, key) == <<what, key>>
Opens(p, cookie) == cookie # None /\ cookie[2] = keyOf[p]
\* verifySessionCookie; in time the browser drops the cookie.
Verifies(p, cookie) == Opens(p, cookie)

\* A response sets a cookie, clears it (None) or leaves it alone.
Keep == <<"keep">>
NoCookies == [access |-> None, sess |-> None, refresh |-> None]
Unset == [access |-> Keep, sess |-> Keep, refresh |-> Keep]

\* all refresh tokens so far
Issued == {t \in Users \X (1..MaxTokens) : GenOf(t) <= issued[UserOf(t)]}

Kinds == {"page", "refresh", "logout", "set"}

TypeOK ==
    /\ keyOf \in KeyAssignments
    /\ signedIn \in Users \cup {None}
    /\ \A u \in Users :
          /\ live[u] \in {0, issued[u]}
          /\ aged[u] <= issued[u]
    /\ Cardinality(Issued) <= MaxTokens
    /\ jar.access # None => GenOf(jar.access) <= issued[UserOf(jar.access)]
    /\ jar.refresh # None => GenOf(jar.refresh[1]) <= issued[UserOf(jar.refresh[1])]
    /\ DOMAIN requests \subseteq Slots
    /\ \A i \in DOMAIN requests :
          /\ requests[i].kind \in Kinds
          /\ requests[i].step \in {"sent", "waiting", "resumed", "answered"}
          /\ requests[i].step = "waiting" <=> requests[i].flight \in DOMAIN flights
    /\ \A k \in DOMAIN flights :
          /\ flights[k].state \in {"asked", "won", "failed"}
          /\ \E i \in DOMAIN requests : requests[i].flight = k
    /\ sent \in 0..MaxRequests
    /\ faults \in 0..MaxFaults
    /\ logouts \in 0..MaxLogouts
    /\ disturbed \in BOOLEAN

Init ==
    /\ keyOf \in KeyAssignments
    /\ jar = NoCookies
    /\ signedIn = None
    /\ requests = <<>>
    /\ flights = <<>>
    /\ issued = [u \in Users |-> 0]
    /\ live = [u \in Users |-> 0]
    /\ aged = [u \in Users |-> 0]
    /\ sent = 0
    /\ faults = 0
    /\ logouts = 0
    /\ disturbed = (\E p, q \in Replicas : keyOf[p] # keyOf[q])

Valid(access) == access # None /\ GenOf(access) > aged[UserOf(access)]

With(f, k, v) == [x \in DOMAIN f \cup {k} |-> IF x = k THEN v ELSE f[x]]
Without(f, k) == [x \in DOMAIN f \ {k} |-> f[x]]

idpVars == <<issued, live, aged, faults, sent>>

-----------------------------------------------------------------------------
(* The browser *)

Request(p, kind, cookies, body) ==
    [at |-> p, kind |-> kind, cookies |-> cookies, body |-> body,
     user |-> FALSE, token |-> None, stage |-> "hook", step |-> "sent",
     flight |-> None, result |-> None, set |-> Unset,
     of |-> {UserOf(t) : t \in {cookies.access, body} \ {None}}
            \cup {c[1] : c \in {cookies.sess} \ {None}}
            \cup {UserOf(c[1]) : c \in {cookies.refresh} \ {None}}]

\* A request takes a free slot.
Issues(i, request) ==
    /\ i \in Slots \ DOMAIN requests
    /\ sent < MaxRequests
    /\ sent' = sent + 1
    /\ requests' = With(requests, i, request)

\* The user signs in at the provider, and the page hands the refresh token over.
Login(u, p, i) ==
    /\ jar.access = None /\ live[u] = 0 /\ Cardinality(Issued) < MaxTokens
    /\ signedIn' = u
    /\ LET token == Token(u, issued[u] + 1) IN
          /\ jar' = [jar EXCEPT !.access = token]
          /\ Issues(i, Request(p, "set", jar', token))
    /\ issued' = [issued EXCEPT ![u] = @ + 1]
    /\ live' = [live EXCEPT ![u] = issued[u] + 1]
    /\ disturbed' = (disturbed \/ requests # <<>> \/ jar.refresh # None)
    /\ UNCHANGED <<keyOf, flights, aged, faults, logouts>>

\* A proxied page, POST /route/:workspaceId/_auth/refresh, or POST /logout.
Send(p, i, kind) ==
    /\ jar # NoCookies
    /\ Issues(i, Request(p, kind, jar, None))
    /\ logouts' = logouts + IF kind = "logout" THEN 1 ELSE 0
    /\ logouts' <= MaxLogouts
    /\ disturbed' = (disturbed \/ kind = "logout")
    /\ UNCHANGED <<keyOf, jar, signedIn, flights, issued, live, aged, faults>>

\* The cookie goes away with its Max-Age; a token kept by a page is still sent.  It
\* lives longer than the request that follows a sign-in.
AccessExpires(u) ==
    /\ aged[u] < issued[u]
    /\ \A i \in DOMAIN requests : requests[i].kind # "set"
    /\ aged' = [aged EXCEPT ![u] = issued[u]]
    /\ \/ UNCHANGED jar
       \/ /\ jar.access # None /\ UserOf(jar.access) = u
          /\ jar' = [jar EXCEPT !.access = None]
    /\ UNCHANGED <<keyOf, signedIn, requests, flights, issued, live, sent, faults,
                   logouts, disturbed>>

SessionExpires ==
    /\ jar.sess # None
    /\ jar' = [jar EXCEPT !.sess = None]
    /\ UNCHANGED <<keyOf, signedIn, requests, flights, idpVars, logouts, disturbed>>

Replaced(old, new) == IF new = Keep THEN old ELSE new

\* The response arrives.  One that is overtaken by a later one puts back an older token.
Receive(i) ==
    /\ i \in DOMAIN requests /\ requests[i].step = "answered"
    /\ LET set == requests[i].set
           overtaken == /\ set.refresh \notin {Keep, None}
                        /\ GenOf(set.refresh[1]) # issued[UserOf(set.refresh[1])]
       IN /\ jar' = [c \in DOMAIN jar |-> Replaced(jar[c], set[c])]
          /\ disturbed' = (disturbed \/ overtaken)
    /\ requests' = Without(requests, i)
    /\ UNCHANGED <<keyOf, signedIn, flights, idpVars, logouts>>

-----------------------------------------------------------------------------
(* A replica *)

\* Bug: no request waits for the exchange of another one.
FlightKeyOwn(p, token, i) == <<p, token, i>>

\* Bug: one exchange at a time, whosever token it is.
FlightKeyShared(p, token, i) == <<p>>

FlightKey(p, token, i) == <<p, token>>

\* A second replica exchanges the same token.
ElsewhereInFlight(p, token) ==
    \E k \in DOMAIN flights : flights[k].token = token /\ k[1] # p

\* deduplicateRefreshCall with the token in the cookie.
Joins(i, q) ==
    LET token == q.cookies.refresh[1]
        key == FlightKey(q.at, token, i)
    IN /\ requests' = [requests EXCEPT ![i] = [q EXCEPT !.step = "waiting", !.flight = key]]
       /\ IF key \in DOMAIN flights
          THEN UNCHANGED <<flights, disturbed>>
          ELSE /\ flights' = With(flights, key,
                      [token |-> token, state |-> "asked", new |-> None])
               /\ disturbed' = (disturbed \/ GenOf(token) # live[UserOf(token)]
                                          \/ ElsewhereInFlight(q.at, token))

\* Of a request that is answered only the cookies it sets matter.
Answers(i, q) ==
    /\ requests' = [requests EXCEPT ![i] =
           [Request(q.at, "page", NoCookies, None)
               EXCEPT !.step = "answered", !.set = q.set, !.of = q.of]]
    /\ UNCHANGED <<flights, disturbed>>

SessCookie(q, token) == Sealed(UserOf(token), keyOf[q.at])

\* The handler behind the hook, q being what the hook has made of the request: a
\* proxied response carries the token as a cookie, a page without a user gets a 401.
Route(i, q) ==
    CASE q.kind = "page" ->
            Answers(i, IF q.user /\ q.token # None
                       THEN [q EXCEPT !.set.access = q.token] ELSE q)
      [] q.kind = "logout" -> Answers(i, [q EXCEPT !.set = NoCookies])
      [] q.kind = "set" ->
            Answers(i, IF q.user
                       THEN [q EXCEPT !.set.refresh = Sealed(q.body, keyOf[q.at])]
                       ELSE q)
      [] q.kind = "refresh" ->
            IF Opens(q.at, q.cookies.refresh)
            THEN Joins(i, [q EXCEPT !.stage = "route"])
            ELSE Answers(i, q)

\* The preHandler hook, for every kind.  A token hides the session cookie even when it
\* is not valid.
Hook(i) ==
    /\ i \in DOMAIN requests /\ requests[i].step = "sent"
    /\ LET q == requests[i]
           c == q.cookies
       IN IF Valid(c.access)
          THEN Route(i, [q EXCEPT !.user = TRUE, !.token = c.access,
                                  !.set.sess = SessCookie(q, c.access)])
          ELSE IF c.access = None /\ Verifies(q.at, c.sess)
          THEN Route(i, [q EXCEPT !.user = TRUE])
          ELSE IF Opens(q.at, c.refresh)
          THEN Joins(i, q)
          ELSE Route(i, q)
    /\ UNCHANGED <<keyOf, jar, signedIn, idpVars, logouts>>

\* Both the hook and _auth/refresh set the rotated cookies, or clear the refresh cookie
\* when the exchange has failed.
Rotated(q) ==
    [q.set EXCEPT !.sess = SessCookie(q, q.result),
                  !.refresh = Sealed(q.result, keyOf[q.at])]

Cleared(q) == [q.set EXCEPT !.refresh = None]

Resumed(i, stage) ==
    i \in DOMAIN requests /\ requests[i].step = "resumed" /\ requests[i].stage = stage

Settled(q) ==
    [q EXCEPT !.flight = None, !.result = None,
              !.set = IF q.result # None THEN Rotated(q) ELSE Cleared(q)]

\* The hook goes on with the result of the exchange, and then the handler.
HookEnds(i) ==
    /\ Resumed(i, "hook")
    /\ LET result == requests[i].result
       IN Route(i, [Settled(requests[i]) EXCEPT !.user = result # None,
                        !.token = IF result # None THEN result ELSE @])
    /\ UNCHANGED <<keyOf, jar, signedIn, idpVars, logouts>>

\* _auth/refresh, which has read the cookie of the request again behind the hook.
RefreshEnds(i) ==
    /\ Resumed(i, "route")
    /\ LET result == requests[i].result
       IN Answers(i, IF result # None
                     THEN [Settled(requests[i]) EXCEPT !.set.access = result]
                     ELSE Settled(requests[i]))
    /\ UNCHANGED <<keyOf, jar, signedIn, idpVars, logouts>>

-----------------------------------------------------------------------------
(* The exchange *)

Landed(k, state, new) ==
    flights' = [flights EXCEPT ![k].state = state, ![k].new = new]

\* Strict rotation.  After the last token the user's session at the provider has ended.
IdpAnswers(k) ==
    /\ k \in DOMAIN flights /\ flights[k].state = "asked"
    /\ LET b == UserOf(flights[k].token)
           g == GenOf(flights[k].token)
       IN IF g # live[b]
          THEN Landed(k, "failed", None) /\ UNCHANGED <<issued, live>>
          ELSE IF Cardinality(Issued) = MaxTokens
          THEN Landed(k, "failed", None) /\ live' = [live EXCEPT ![b] = 0] /\ UNCHANGED issued
          ELSE /\ Landed(k, "won", Token(b, g + 1))
               /\ issued' = [issued EXCEPT ![b] = g + 1]
               /\ live' = [live EXCEPT ![b] = g + 1]
    /\ UNCHANGED <<keyOf, jar, signedIn, requests, aged, sent, faults, logouts, disturbed>>

\* The provider cannot be reached, answers with an error or too late, or the new token
\* cannot be verified; it may have rotated the token before.
IdpFails(k) ==
    /\ k \in DOMAIN flights /\ flights[k].state = "asked"
    /\ faults < MaxFaults
    /\ faults' = faults + 1
    /\ Landed(k, "failed", None)
    /\ LET b == UserOf(flights[k].token) IN
          /\ disturbed' = TRUE
          /\ \/ UNCHANGED <<issued, live>>
             \/ /\ GenOf(flights[k].token) = live[b] /\ Cardinality(Issued) < MaxTokens
                /\ issued' = [issued EXCEPT ![b] = @ + 1]
                /\ live' = [live EXCEPT ![b] = @ + 1]
    /\ UNCHANGED <<keyOf, jar, signedIn, requests, aged, sent, logouts>>

\* Bug: the entry stays when the promise settles.
FlightEndsKept(k) ==
    /\ k \in DOMAIN flights /\ flights[k].state # "asked"
    /\ requests' = [i \in DOMAIN requests |->
           IF requests[i].step = "waiting" /\ requests[i].flight = k
           THEN [requests[i] EXCEPT !.step = "resumed", !.result = flights[k].new,
                                    !.flight = None]
           ELSE requests[i]]
    /\ UNCHANGED <<keyOf, jar, signedIn, flights, idpVars, logouts, disturbed>>

\* The promise settles: the entry goes, everybody who waits gets the same result.
FlightEnds(k) ==
    /\ k \in DOMAIN flights /\ flights[k].state # "asked"
    /\ flights' = Without(flights, k)
    /\ requests' = [i \in DOMAIN requests |->
           IF requests[i].step = "waiting" /\ requests[i].flight = k
           THEN [requests[i] EXCEPT !.step = "resumed", !.result = flights[k].new,
                                    !.flight = None]
           ELSE requests[i]]
    /\ UNCHANGED <<keyOf, jar, signedIn, idpVars, logouts, disturbed>>

-----------------------------------------------------------------------------
Served(i) == Hook(i) \/ HookEnds(i) \/ RefreshEnds(i) \/ Receive(i)
Exchange(k) == IdpAnswers(k) \/ FlightEnds(k)

Next ==
    \/ \E p \in Replicas, i \in Slots :
          \/ \E u \in Users : Login(u, p, i)
          \/ \E kind \in Kinds \ {"set"} : Send(p, i, kind)
    \/ \E u \in Users : AccessExpires(u)
    \/ SessionExpires
    \/ \E i \in Slots : Served(i)
    \/ \E k \in DOMAIN flights : Exchange(k) \/ IdpFails(k)

Spec == Init /\ [][Next]_vars

-----------------------------------------------------------------------------
(* Properties *)

\* Coalescing never hands the session of one user to another: whatever a response sets
\* belongs to a user whose credentials the request carried (auth-singleflight.ts:27-41).
NoCrossTalk ==
    \A i \in DOMAIN requests :
        LET q == requests[i] IN
        /\ q.set.access \in {Keep, None} \/ UserOf(q.set.access) \in q.of
        /\ q.set.sess \in {Keep, None} \/ q.set.sess[1] \in q.of
        /\ q.set.refresh \in {Keep, None} \/ UserOf(q.set.refresh[1]) \in q.of

\* ADR-023: concurrent requests with one refresh token do not lose the session.  When
\* no exchange fails, no response is overtaken, no token is presented after it was
\* exchanged or to two replicas at once, the keys agree and nobody signs out, the
\* browser ends with the token that is valid at the provider (auth.ts:288-353,
\* proxy-auth.ts:241-283).
Holds(u) == jar.refresh # None /\ jar.refresh[1] = Token(u, live[u])

KeepsSession ==
    signedIn # None /\ live[signedIn] # 0 /\ requests = <<>> => Holds(signedIn)

CoalescingKeepsSession == ~disturbed => KeepsSession

\* docs/deploy/sso-identity.md:302-308: a page that calls _auth/refresh with a valid
\* refresh cookie gets a new one.
RefreshKeepsSession == KeepsSession

=============================================================================
