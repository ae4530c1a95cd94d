------------------------- MODULE TokenRefreshProofs -------------------------
(***************************************************************************)
(* Proofs about TokenRefresh for any users, replicas, session keys,        *)
(* requests under way and bounds: cookies never change hands, and an       *)
(* undisturbed browser keeps its session.                                  *)
(***************************************************************************)
EXTENDS TokenRefresh, FiniteSetTheorems, TLAPS

-----------------------------------------------------------------------------
(* What is invariant whatever happens. *)

Key == {keyOf[p] : p \in Replicas}

\* Every token anywhere has been issued.
Known == {t \in Users \X (Nat \ {0}) : GenOf(t) <= issued[UserOf(t)]}

\* The cookies of a browser or a request, and what a response sets, over the tokens T.
Cookies(T, K) ==
    [access : T \cup {None}, sess : (Users \X K) \cup {None}, refresh : (T \X K) \cup {None}]
Settings(T, K) ==
    [access : T \cup {None, Keep}, sess : (Users \X K) \cup {None, Keep},
     refresh : (T \X K) \cup {None, Keep}]

Requests(T, K) ==
    [at : Replicas, kind : Kinds, cookies : Cookies(T, K), body : T \cup {None},
     user : BOOLEAN, token : T \cup {None}, stage : {"hook", "route"},
     step : {"sent", "waiting", "resumed", "answered"},
     flight : (Replicas \X T) \cup {None}, result : T \cup {None},
     set : Settings(T, K), of : SUBSET Users]

Flights(T) == [token : T, state : {"asked", "won", "failed"}, new : T \cup {None}]

\* All that a request holds belongs to users whose credentials it carried.
Owned(q) ==
    /\ \A t \in {q.cookies.access, q.body, q.token, q.result} : t # None => UserOf(t) \in q.of
    /\ q.cookies.sess # None => q.cookies.sess[1] \in q.of
    /\ q.cookies.refresh # None => UserOf(q.cookies.refresh[1]) \in q.of
    /\ q.set.access \in {Keep, None} \/ UserOf(q.set.access) \in q.of
    /\ q.set.sess \in {Keep, None} \/ q.set.sess[1] \in q.of
    /\ q.set.refresh \in {Keep, None} \/ UserOf(q.set.refresh[1]) \in q.of

\* A request waits for the exchange of its refresh cookie and goes on with the next token.
Exchanges(q) ==
    /\ (q.step = "waiting") <=> (q.flight # None)
    /\ q.step \in {"waiting", "resumed"} => q.cookies.refresh # None
    /\ q.step = "waiting" => q.flight = <<q.at, q.cookies.refresh[1]>>
    /\ q.step = "resumed" /\ q.result # None =>
          q.result = Token(UserOf(q.cookies.refresh[1]), GenOf(q.cookies.refresh[1]) + 1)

\* The request that hands over a refresh token, with the access token of the sign-in.
Delivers(q, expiry) ==
    q.kind = "set" => /\ q.step = "sent" /\ q.body # None /\ q.cookies.access = q.body
                      /\ GenOf(q.body) > expiry[UserOf(q.body)]

RequestOK(q, T, K, expiry, keys) ==
    /\ q \in Requests(T, K)
    /\ Owned(q) /\ Exchanges(q) /\ Delivers(q, expiry)
    /\ q.step = "waiting" => q.flight \in keys

FlightOK(k, flight, T) ==
    /\ k \in Replicas \X T
    /\ flight \in Flights(T)
    /\ flight.token = k[2]
    /\ flight.new # None => flight.new = Token(UserOf(k[2]), GenOf(k[2]) + 1)

ProviderOK ==
    /\ issued \in [Users -> Nat] /\ live \in [Users -> Nat] /\ aged \in [Users -> Nat]
    /\ \A u \in Users : live[u] \in {0, issued[u]} /\ aged[u] <= issued[u]
    /\ IsFiniteSet(Issued) /\ Cardinality(Issued) <= MaxTokens

CountersOK ==
    /\ sent \in 0..MaxRequests /\ faults \in 0..MaxFaults /\ logouts \in 0..MaxLogouts
    /\ disturbed \in BOOLEAN

RequestsOK ==
    /\ DOMAIN requests \subseteq Slots
    /\ \A i \in DOMAIN requests : RequestOK(requests[i], Known, Key, aged, DOMAIN flights)

FlightsOK ==
    \A k \in DOMAIN flights : /\ FlightOK(k, flights[k], Known)
                              /\ \E i \in DOMAIN requests : requests[i].flight = k

Inv ==
    /\ keyOf \in KeyAssignments /\ signedIn \in Users \cup {None}
    /\ ProviderOK /\ CountersOK
    /\ jar \in Cookies(Known, Key)
    /\ RequestsOK /\ FlightsOK

-----------------------------------------------------------------------------
(* What is invariant while nothing has disturbed the session of who has signed in. *)

Newest == Token(signedIn, live[signedIn])

\* What brings the token t to the browser.
Carries(q, t) ==
    \/ q.kind = "set" /\ q.body = t
    \/ q.step = "resumed" /\ q.result = t
    \/ q.step = "answered" /\ q.set.refresh \notin {Keep, None} /\ q.set.refresh[1] = t

Held ==
    \/ jar.refresh # None /\ jar.refresh[1] = Newest
    \/ \E i \in DOMAIN requests : Carries(requests[i], Newest)
    \/ \E k \in DOMAIN flights : flights[k].new = Newest

\* Nothing outside the flights has a refresh token as new as g.
OlderRequest(q, g) ==
    /\ q.cookies.refresh # None => GenOf(q.cookies.refresh[1]) < g
    /\ q.result # None => GenOf(q.result) < g
    /\ q.kind = "set" => GenOf(q.body) < g
    /\ q.set.refresh \notin {Keep, None} => GenOf(q.set.refresh[1]) < g

Older(g) ==
    /\ jar.refresh # None => GenOf(jar.refresh[1]) < g
    /\ \A i \in DOMAIN requests : OlderRequest(requests[i], g)

\* One exchange at a time, of the newest token: no flight has failed.
NewestFlights ==
    /\ \A j, k \in DOMAIN flights : j = k
    /\ \A k \in DOMAIN flights :
          \/ /\ flights[k].state = "asked" /\ GenOf(k[2]) = live[signedIn]
             /\ flights[k].new = None
          \/ /\ flights[k].state = "won" /\ flights[k].new = Newest
             /\ Older(live[signedIn])

Lives(q) == q.set.refresh # None /\ (q.step = "resumed" => q.result # None)

Living ==
    /\ Held /\ NewestFlights
    /\ \A i \in DOMAIN requests : Lives(requests[i])

\* Nobody else has signed in; after the last token no session is left to lose.
Undisturbed ==
    /\ \A u \in Users : u # signedIn => issued[u] = 0
    /\ \A i \in DOMAIN requests : requests[i].kind # "logout"
    /\ signedIn # None /\ live[signedIn] = 0 => Cardinality(Issued) = MaxTokens
    /\ signedIn # None /\ live[signedIn] # 0 => Living

SessionInv == Inv /\ (~disturbed => Undisturbed)

-----------------------------------------------------------------------------
(* Tokens and requests *)

LEMMA KnownFacts ==
    ASSUME NEW t \in Known
    PROVE  /\ t = Token(UserOf(t), GenOf(t)) /\ UserOf(t) \in Users
           /\ GenOf(t) \in Nat /\ GenOf(t) > 0 /\ GenOf(t) <= issued[UserOf(t)]
BY DEF Known, Token, UserOf, GenOf

\* A pair is neither a cleared cookie nor one that is left alone.
LEMMA PairFacts ==
    ASSUME NEW A, NEW B, NEW c \in A \X B
    PROVE  c # None /\ c # Keep /\ c[1] \in A /\ c[2] \in B /\ c = <<c[1], c[2]>>
BY DEF None, Keep

LEMMA KeepFacts == Keep # None
BY DEF Keep, None

LEMMA CookiesGrow ==
    ASSUME NEW T, NEW U, NEW K, T \subseteq U
    PROVE  Cookies(T, K) \subseteq Cookies(U, K) /\ Settings(T, K) \subseteq Settings(U, K)
BY DEF Cookies, Settings

LEMMA RequestGrows ==
    ASSUME NEW T, NEW U, NEW K, T \subseteq U, NEW expiry, NEW expiry2, NEW keys, NEW keys2,
           NEW q, RequestOK(q, T, K, expiry, keys),
           q.kind = "set" => expiry2 = expiry, q.step = "waiting" => q.flight \in keys2
    PROVE  RequestOK(q, U, K, expiry2, keys2)
<1>1. q \in Requests(T, K)
  BY DEF RequestOK
<1>2. q \in Requests(U, K)
  BY <1>1, CookiesGrow DEF Requests
<1> QED
  BY <1>2 DEF RequestOK, Delivers

LEMMA FlightGrows ==
    ASSUME NEW T, NEW U, T \subseteq U, NEW k, NEW flight, FlightOK(k, flight, T)
    PROVE  FlightOK(k, flight, U)
BY DEF FlightOK, Flights

LEMMA KnownGrows ==
    ASSUME ProviderOK, ProviderOK', \A u \in Users : issued[u] <= issued'[u]
    PROVE  Known \subseteq Known'
BY DEF ProviderOK, Known, UserOf, GenOf

\* What the fields of a request are.
LEMMA RequestFields ==
    ASSUME NEW T, NEW K, NEW q \in Requests(T, K)
    PROVE  /\ q.at \in Replicas /\ q.kind \in Kinds /\ q.of \in SUBSET Users
           /\ q.cookies \in Cookies(T, K) /\ q.set \in Settings(T, K)
           /\ q.cookies.access \in T \cup {None}
           /\ q.cookies.sess \in (Users \X K) \cup {None}
           /\ q.cookies.refresh \in (T \X K) \cup {None}
           /\ q.body \in T \cup {None} /\ q.token \in T \cup {None} /\ q.result \in T \cup {None}
           /\ q.set.refresh \in (T \X K) \cup {None, Keep}
BY DEF Requests, Cookies, Settings

\* A new request carries the cookies of its users.
LEMMA NewRequest ==
    ASSUME NEW T, \A t \in T : UserOf(t) \in Users,
           NEW K, NEW expiry, NEW keys, NEW p \in Replicas, NEW kind \in Kinds,
           NEW cookies \in Cookies(T, K), NEW body \in T \cup {None},
           kind = "set" => /\ body # None /\ cookies.access = body
                           /\ GenOf(body) > expiry[UserOf(body)]
    PROVE  RequestOK(Request(p, kind, cookies, body), T, K, expiry, keys)
<1> DEFINE q == Request(p, kind, cookies, body)
<1>1. /\ cookies.access \in T \cup {None}
      /\ cookies.sess \in (Users \X K) \cup {None}
      /\ cookies.refresh \in (T \X K) \cup {None}
  BY DEF Cookies
<1>2. \A c \in Users \X K : c[1] \in Users
  BY PairFacts
<1>3. \A c \in T \X K : UserOf(c[1]) \in Users
  BY PairFacts
<1>4. q.of \in SUBSET Users
  BY <1>1, <1>2, <1>3 DEF Request
<1>5. Unset \in Settings(T, K)
  BY DEF Unset, Settings
<1>6. q \in Requests(T, K)
  BY <1>4, <1>5 DEF Request, Requests
<1>7. Owned(q)
  BY DEF Request, Owned, Unset
<1>8. Exchanges(q) /\ Delivers(q, expiry) /\ q.step # "waiting"
  BY DEF Request, Exchanges, Delivers
<1> QED
  BY <1>6, <1>7, <1>8 DEF RequestOK

Answered(q) ==
    [Request(q.at, "page", NoCookies, None) EXCEPT !.step = "answered", !.set = q.set, !.of = q.of]

LEMMA AnswerOK ==
    ASSUME NEW T, NEW K, NEW expiry, NEW keys, NEW q \in Requests(T, K), Owned(q)
    PROVE  RequestOK(Answered(q), T, K, expiry, keys)
<1>1. q.at \in Replicas /\ q.set \in Settings(T, K) /\ q.of \in SUBSET Users
  BY DEF Requests
<1>2. NoCookies \in Cookies(T, K)
  BY DEF NoCookies, Cookies
<1>3. Answered(q) \in Requests(T, K)
  BY <1>1, <1>2 DEF Answered, Request, Requests, Kinds
<1>4. Owned(Answered(q))
  BY DEF Answered, Request, Owned, NoCookies
<1>5. /\ Exchanges(Answered(q)) /\ Delivers(Answered(q), expiry)
      /\ Answered(q).step # "waiting"
  BY DEF Answered, Request, Exchanges, Delivers
<1> QED
  BY <1>3, <1>4, <1>5 DEF RequestOK

Joining(q) ==
    [q EXCEPT !.step = "waiting", !.flight = <<q.at, q.cookies.refresh[1]>>]

LEMMA JoinOK ==
    ASSUME NEW T, NEW K, NEW expiry, NEW keys, NEW q \in Requests(T, K), Owned(q),
           q.cookies.refresh # None, q.kind # "set", <<q.at, q.cookies.refresh[1]>> \in keys
    PROVE  /\ RequestOK(Joining(q), T, K, expiry, keys)
           /\ <<q.at, q.cookies.refresh[1]>> \in Replicas \X T
<1>1. q.cookies.refresh[1] \in T /\ q.at \in Replicas
  BY RequestFields, PairFacts
<1>2. <<q.at, q.cookies.refresh[1]>> # None
  BY DEF None
<1>3. Joining(q) \in Requests(T, K)
  BY <1>1 DEF Joining, Requests
<1>4. Owned(Joining(q)) /\ Exchanges(Joining(q)) /\ Delivers(Joining(q), expiry)
      /\ Joining(q).flight = <<q.at, q.cookies.refresh[1]>>
  BY <1>2 DEF Joining, Requests, Owned, Exchanges, Delivers
<1> QED
  BY <1>1, <1>3, <1>4 DEF RequestOK

-----------------------------------------------------------------------------
(* One request changes *)

\* Request i, which waits for nothing before, and perhaps a flight that it begins.
LEMMA RequestChanges ==
    ASSUME Inv, NEW i \in Slots, i \in DOMAIN requests => requests[i].flight = None,
           NEW q, RequestOK(q, Known, Key, aged, DOMAIN flights'),
           DOMAIN requests' = DOMAIN requests \cup {i},
           \A j \in DOMAIN requests' : requests'[j] = IF j = i THEN q ELSE requests[j],
           UNCHANGED <<keyOf, issued, aged>>,
           \A k \in DOMAIN flights : k \in DOMAIN flights' /\ flights'[k] = flights[k],
           \A k \in DOMAIN flights' \ DOMAIN flights :
              q.flight = k /\ FlightOK(k, flights'[k], Known)
    PROVE  RequestsOK' /\ FlightsOK'
<1>1. Known' = Known /\ Key' = Key
  BY DEF Known, Key
<1>2. ASSUME NEW j \in DOMAIN requests, j # i
      PROVE  RequestOK(requests[j], Known, Key, aged, DOMAIN flights')
  <2>1. RequestOK(requests[j], Known, Key, aged, DOMAIN flights)
    BY DEF Inv, RequestsOK
  <2> QED
    BY <2>1 DEF RequestOK
<1>3. RequestsOK'
  BY <1>1, <1>2 DEF Inv, RequestsOK
<1>4. ASSUME NEW k \in DOMAIN flights'
      PROVE  FlightOK(k, flights'[k], Known) /\ \E j \in DOMAIN requests' : requests'[j].flight = k
  <2>1. CASE k \in DOMAIN flights
    <3>1. FlightOK(k, flights[k], Known) /\ k # None
      BY <2>1, PairFacts DEF Inv, FlightsOK, FlightOK
    <3>2. PICK j \in DOMAIN requests : requests[j].flight = k
      BY <2>1 DEF Inv, FlightsOK
    <3> QED
      BY <2>1, <3>1, <3>2
  <2>2. CASE k \notin DOMAIN flights
    BY <1>4, <2>2
  <2> QED
    BY <2>1, <2>2
<1> QED
  BY <1>1, <1>3, <1>4 DEF FlightsOK

\* What holds of a request that is dealt with, once it is.
LEMMA ActiveFacts ==
    ASSUME Inv, NEW i \in DOMAIN requests, requests[i].step # "waiting"
    PROVE  /\ requests[i] \in Requests(Known, Key) /\ Owned(requests[i]) /\ i \in Slots
           /\ requests[i].flight = None
BY DEF Inv, RequestsOK, RequestOK, Exchanges

LEMMA AnswersKeeps ==
    ASSUME Inv, NEW i \in DOMAIN requests, requests[i].step # "waiting",
           NEW q \in Requests(Known, Key), Owned(q), Answers(i, q),
           UNCHANGED <<keyOf, issued, aged>>
    PROVE  /\ RequestsOK' /\ FlightsOK' /\ UNCHANGED <<flights, disturbed>>
           /\ requests' = [requests EXCEPT ![i] = Answered(q)]
<1>1. /\ requests' = [requests EXCEPT ![i] = Answered(q)]
      /\ UNCHANGED <<flights, disturbed>>
  BY DEF Answers, Answered
<1>2. RequestOK(Answered(q), Known, Key, aged, DOMAIN flights')
  BY AnswerOK
<1>3. /\ DOMAIN requests' = DOMAIN requests \cup {i}
      /\ \A j \in DOMAIN requests' : requests'[j] = IF j = i THEN Answered(q) ELSE requests[j]
  BY <1>1
<1> QED
  BY <1>1, <1>2, <1>3, ActiveFacts, RequestChanges

LEMMA JoinsKeeps ==
    ASSUME Inv, NEW i \in DOMAIN requests, requests[i].step # "waiting",
           NEW q \in Requests(Known, Key), Owned(q), q.cookies.refresh # None, q.kind # "set",
           Joins(i, q), UNCHANGED <<keyOf, issued, aged>>
    PROVE  /\ RequestsOK' /\ FlightsOK' /\ disturbed' \in BOOLEAN
           /\ requests' = [requests EXCEPT ![i] = Joining(q)]
<1> DEFINE token == q.cookies.refresh[1]
           key == <<q.at, token>>
           flight == [token |-> token, state |-> "asked", new |-> None]
<1>1. requests' = [requests EXCEPT ![i] = Joining(q)] /\ disturbed \in BOOLEAN
  BY DEF Joins, FlightKey, Joining, Inv, CountersOK
<1>2. \/ key \in DOMAIN flights /\ UNCHANGED <<flights, disturbed>>
      \/ /\ key \notin DOMAIN flights /\ flights' = With(flights, key, flight)
         /\ disturbed' \in BOOLEAN
  BY DEF Joins, FlightKey
<1>3. token \in Known /\ q.at \in Replicas
  BY RequestFields, PairFacts
<1>4. FlightOK(key, flight, Known)
  BY <1>3 DEF FlightOK, Flights
<1>5. /\ \A k \in DOMAIN flights : k \in DOMAIN flights' /\ flights'[k] = flights[k]
      /\ \A k \in DOMAIN flights' \ DOMAIN flights : k = key /\ flights'[k] = flight
      /\ key \in DOMAIN flights'
  BY <1>2 DEF With
<1>6. RequestOK(Joining(q), Known, Key, aged, DOMAIN flights')
  BY <1>5, JoinOK
<1>7. Joining(q).flight = key
  BY DEF Joining, Requests
<1>8. /\ DOMAIN requests' = DOMAIN requests \cup {i}
      /\ \A j \in DOMAIN requests' : requests'[j] = IF j = i THEN Joining(q) ELSE requests[j]
  BY <1>1
<1> HIDE DEF key, flight
<1> QED
  BY <1>1, <1>2, <1>4, <1>5, <1>6, <1>7, <1>8, ActiveFacts, RequestChanges

-----------------------------------------------------------------------------
(* The handlers *)

LEMMA SealedOK ==
    ASSUME NEW t \in Known, NEW p \in Replicas
    PROVE  /\ Sealed(UserOf(t), keyOf[p]) \in Users \X Key
           /\ Sealed(t, keyOf[p]) \in Known \X Key
           /\ Sealed(UserOf(t), keyOf[p])[1] = UserOf(t) /\ Sealed(t, keyOf[p])[1] = t
BY KnownFacts DEF Sealed, Key

\* The handler behind the hook answers with what the request is to set, or joins an exchange.
LEMMA RouteCases ==
    ASSUME NEW i, NEW q \in Requests(Known, Key), Owned(q), q.kind = "set" => q.body # None,
           Route(i, q)
    PROVE  \E r \in Requests(Known, Key) :
              /\ Owned(r)
              /\ r.cookies = q.cookies /\ r.result = q.result /\ r.at = q.at
              /\ r.body = q.body /\ r.kind = q.kind
              /\ r.set.refresh = CASE q.kind = "set" /\ q.user -> Sealed(q.body, keyOf[q.at])
                                   [] q.kind = "logout" -> None
                                   [] OTHER -> q.set.refresh
              /\ \/ Answers(i, r)
                 \/ Joins(i, r) /\ r.cookies.refresh # None /\ r.kind = "refresh"
<1>1. /\ q.kind \in Kinds /\ q.set \in Settings(Known, Key)
      /\ q.token \in Known \cup {None} /\ q.body \in Known \cup {None} /\ q.at \in Replicas
  BY RequestFields
<1>2. CASE q.kind = "page"
  <2> DEFINE r == IF q.user /\ q.token # None THEN [q EXCEPT !.set.access = q.token] ELSE q
  <2>1. Answers(i, r)
    BY <1>2 DEF Route
  <2>2. r \in Requests(Known, Key)
    BY <1>1 DEF Requests, Settings
  <2>3. /\ r.cookies = q.cookies /\ r.result = q.result /\ r.at = q.at /\ r.body = q.body
        /\ r.kind = q.kind /\ r.set.refresh = q.set.refresh /\ r.set.sess = q.set.sess
        /\ r.token = q.token /\ r.of = q.of
        /\ r.set.access \in {q.set.access, q.token}
        /\ r.set.access # q.set.access => q.token # None
    BY <1>1 DEF Requests, Settings
  <2>4. Owned(r)
    BY <1>1, <2>3, KnownFacts DEF Owned
  <2> QED
    BY <1>2, <2>1, <2>2, <2>3, <2>4
<1>3. CASE q.kind = "logout"
  <2> DEFINE r == [q EXCEPT !.set = NoCookies]
  <2>1. Answers(i, r)
    BY <1>3 DEF Route
  <2>2. r \in Requests(Known, Key)
    BY <1>1 DEF Requests, Settings, NoCookies
  <2>3. Owned(r) /\ r.set.refresh = None
    BY DEF Requests, Owned, NoCookies
  <2>4. /\ r.cookies = q.cookies /\ r.result = q.result /\ r.at = q.at /\ r.body = q.body
        /\ r.kind = q.kind
    BY DEF Requests
  <2> HIDE DEF r
  <2> QED
    BY <1>3, <2>1, <2>2, <2>3, <2>4
<1>4. CASE q.kind = "set"
  <2> DEFINE r == IF q.user THEN [q EXCEPT !.set.refresh = Sealed(q.body, keyOf[q.at])] ELSE q
  <2>1. Answers(i, r)
    BY <1>4 DEF Route
  <2>2. q.body \in Known /\ UserOf(q.body) \in q.of
    BY <1>1, <1>4, KnownFacts DEF Owned
  <2>3. r \in Requests(Known, Key)
    BY <1>1, <2>2, SealedOK DEF Requests, Settings
  <2>4. /\ r.cookies = q.cookies /\ r.result = q.result /\ r.at = q.at /\ r.body = q.body
        /\ r.kind = q.kind /\ r.token = q.token /\ r.of = q.of /\ r.set.sess = q.set.sess
        /\ r.set.access = q.set.access
        /\ r.set.refresh = IF q.user THEN Sealed(q.body, keyOf[q.at]) ELSE q.set.refresh
    BY <1>1 DEF Requests, Settings
  <2>5. Owned(r)
    BY <1>1, <2>2, <2>4, SealedOK DEF Owned
  <2> HIDE DEF r
  <2> QED
    BY <1>4, <2>1, <2>3, <2>4, <2>5
<1>5. CASE q.kind = "refresh" /\ Opens(q.at, q.cookies.refresh)
  <2> DEFINE r == [q EXCEPT !.stage = "route"]
  <2>1. Joins(i, r) /\ q.cookies.refresh # None
    BY <1>5 DEF Route, Opens
  <2>2. r \in Requests(Known, Key)
    BY DEF Requests
  <2>3. Owned(r)
    BY DEF Requests, Owned
  <2>4. /\ r.cookies = q.cookies /\ r.result = q.result /\ r.at = q.at /\ r.body = q.body
        /\ r.kind = q.kind /\ r.set = q.set
    BY DEF Requests
  <2> HIDE DEF r
  <2> QED
    BY <1>5, <2>1, <2>2, <2>3, <2>4
<1>6. CASE q.kind = "refresh" /\ ~Opens(q.at, q.cookies.refresh)
  BY <1>6 DEF Route
<1> QED
  BY <1>1, <1>2, <1>3, <1>4, <1>5, <1>6 DEF Kinds

LEMMA RouteKeeps ==
    ASSUME Inv, NEW i \in DOMAIN requests, requests[i].step # "waiting",
           NEW q \in Requests(Known, Key), Owned(q), q.kind = "set" => q.body # None,
           Route(i, q), UNCHANGED <<keyOf, issued, aged>>
    PROVE  RequestsOK' /\ FlightsOK' /\ disturbed' \in BOOLEAN
<1>1. disturbed \in BOOLEAN
  BY DEF Inv, CountersOK
<1>2. PICK r \in Requests(Known, Key) :
              /\ Owned(r)
              /\ \/ Answers(i, r)
                 \/ Joins(i, r) /\ r.cookies.refresh # None /\ r.kind = "refresh"
  BY RouteCases
<1>3. CASE Answers(i, r)
  BY <1>1, <1>2, <1>3, AnswersKeeps
<1>4. CASE Joins(i, r) /\ r.cookies.refresh # None /\ r.kind = "refresh"
  BY <1>2, <1>4, JoinsKeeps
<1> QED
  BY <1>2, <1>3, <1>4

\* What the hook makes of a request.
LEMMA HookCases ==
    ASSUME Inv, NEW i, Hook(i)
    PROVE  /\ i \in DOMAIN requests /\ requests[i].step = "sent"
           /\ requests[i] \in Requests(Known, Key)
           /\ UNCHANGED <<keyOf, jar, signedIn, idpVars, logouts>>
           /\ \/ \E q \in Requests(Known, Key) :
                    /\ Owned(q) /\ Route(i, q) /\ (q.kind = "set" => q.body # None /\ q.user)
                    /\ q.cookies = requests[i].cookies /\ q.result = requests[i].result
                    /\ q.kind = requests[i].kind /\ q.body = requests[i].body
                    /\ q.at = requests[i].at /\ q.set.refresh = requests[i].set.refresh
              \/ /\ Joins(i, requests[i]) /\ requests[i].cookies.refresh # None
                 /\ requests[i].kind # "set"
<1> DEFINE o == requests[i]
           c == o.cookies
<1>1. /\ i \in DOMAIN requests /\ o.step = "sent"
      /\ UNCHANGED <<keyOf, jar, signedIn, idpVars, logouts>>
  BY DEF Hook
<1>2. o \in Requests(Known, Key) /\ Owned(o) /\ Delivers(o, aged)
  BY <1>1 DEF Inv, RequestsOK, RequestOK
<1>3. /\ o.at \in Replicas /\ c.access \in Known \cup {None} /\ o.set \in Settings(Known, Key)
      /\ o.kind = "set" => o.body # None /\ Valid(c.access)
  BY <1>2, RequestFields DEF Delivers, Valid
<1>4. CASE Valid(c.access)
  <2> DEFINE s == [o.set EXCEPT !.sess = SessCookie(o, c.access)]
             q == [o EXCEPT !.user = TRUE, !.token = c.access, !.set = s]
  <2>1. Route(i, q)
    BY <1>4 DEF Hook
  <2>2. c.access \in Known /\ UserOf(c.access) \in o.of
    BY <1>2, <1>3, <1>4 DEF Valid, Owned
  <2>3. s \in Settings(Known, Key)
    BY <1>3, <2>2, SealedOK DEF SessCookie, Settings
  <2>4. q \in Requests(Known, Key)
    BY <1>2, <2>2, <2>3 DEF Requests
  <2>5. /\ q.cookies = c /\ q.result = o.result /\ q.kind = o.kind /\ q.body = o.body /\ q.user
        /\ q.at = o.at /\ q.set = s /\ q.of = o.of /\ q.token = c.access
    BY <1>2 DEF Requests
  <2>6. /\ s.refresh = o.set.refresh /\ s.access = o.set.access
        /\ s.sess = Sealed(UserOf(c.access), keyOf[o.at]) /\ s.sess[1] = UserOf(c.access)
    BY <1>3, <2>2, SealedOK DEF Settings, SessCookie
  <2> HIDE DEF q, s
  <2>7. Owned(q)
    BY <1>2, <2>2, <2>5, <2>6 DEF Owned
  <2> QED
    BY <1>1, <1>2, <1>3, <2>1, <2>4, <2>5, <2>6, <2>7
<1>5. CASE ~Valid(c.access) /\ c.access = None /\ Verifies(o.at, c.sess)
  <2> DEFINE q == [o EXCEPT !.user = TRUE]
  <2>1. Route(i, q)
    BY <1>5 DEF Hook
  <2>2. q \in Requests(Known, Key)
    BY <1>2 DEF Requests
  <2>3. /\ q.cookies = c /\ q.result = o.result /\ q.kind = o.kind /\ q.body = o.body /\ q.user
        /\ q.at = o.at /\ q.set = o.set /\ q.of = o.of /\ q.token = o.token
    BY <1>2 DEF Requests
  <2>4. Owned(q)
    BY <1>2, <2>3 DEF Owned
  <2> HIDE DEF q
  <2> QED
    BY <1>1, <1>2, <1>3, <2>1, <2>2, <2>3, <2>4
<1>6. CASE ~Valid(c.access) /\ ~(c.access = None /\ Verifies(o.at, c.sess))
  <2>1. o.kind # "set"
    BY <1>3, <1>6
  <2>2. (Joins(i, o) /\ c.refresh # None) \/ Route(i, o)
    BY <1>6 DEF Hook, Opens
  <2> QED
    BY <1>1, <1>2, <2>1, <2>2
<1> QED
  BY <1>4, <1>5, <1>6

LEMMA HookKeeps ==
    ASSUME Inv, NEW i, Hook(i)
    PROVE  RequestsOK' /\ FlightsOK' /\ disturbed' \in BOOLEAN
<1>1. i \in DOMAIN requests /\ requests[i].step = "sent" /\ UNCHANGED <<keyOf, issued, aged>>
  BY HookCases DEF idpVars
<1>2. Owned(requests[i])
  BY <1>1, ActiveFacts
<1> QED
  BY <1>1, <1>2, HookCases, RouteKeeps, JoinsKeeps

\* What the result of an exchange makes of a request.
LEMMA SettledFacts ==
    ASSUME Inv, NEW i \in DOMAIN requests, requests[i].step = "resumed"
    PROVE  LET o == requests[i]
               q == Settled(o)
           IN  /\ o \in Requests(Known, Key) /\ q \in Requests(Known, Key) /\ Owned(q)
               /\ q.cookies = o.cookies /\ q.kind = o.kind /\ q.body = o.body /\ q.at = o.at
               /\ q.token = o.token /\ q.result = None /\ q.of = o.of
               /\ o.kind # "set"
               /\ o.result # None => /\ q.set.refresh = Sealed(o.result, keyOf[o.at])
                                     /\ o.result \in Known /\ UserOf(o.result) \in o.of
               /\ o.result = None => q.set.refresh = None
<1> DEFINE o == requests[i]
           q == Settled(o)
           s == IF o.result # None
                THEN [o.set EXCEPT !.sess = SessCookie(o, o.result),
                                   !.refresh = Sealed(o.result, keyOf[o.at])]
                ELSE [o.set EXCEPT !.refresh = None]
<1>1. o \in Requests(Known, Key) /\ Owned(o) /\ Delivers(o, aged)
  BY DEF Inv, RequestsOK, RequestOK
<1>2. /\ o.at \in Replicas /\ o.set \in Settings(Known, Key)
      /\ o.result \in Known \cup {None} /\ o.kind # "set"
  BY <1>1, RequestFields DEF Delivers
<1>3. o.result # None => o.result \in Known /\ UserOf(o.result) \in o.of
  BY <1>1, <1>2 DEF Owned
<1>4. s \in Settings(Known, Key)
  BY <1>2, <1>3, SealedOK DEF SessCookie, Settings
<1>5. /\ s.access = o.set.access
      /\ o.result # None => /\ s.refresh = Sealed(o.result, keyOf[o.at])
                            /\ s.sess = Sealed(UserOf(o.result), keyOf[o.at])
      /\ o.result = None => s.refresh = None /\ s.sess = o.set.sess
  BY <1>2 DEF Settings, SessCookie
<1>6. q = [o EXCEPT !.flight = None, !.result = None, !.set = s]
  BY DEF Settled, Rotated, Cleared
<1>7. q \in Requests(Known, Key)
  BY <1>1, <1>4, <1>6 DEF Requests
<1>8. /\ q.cookies = o.cookies /\ q.kind = o.kind /\ q.body = o.body /\ q.at = o.at
      /\ q.token = o.token /\ q.result = None /\ q.of = o.of /\ q.set = s
  BY <1>1, <1>6 DEF Requests
<1> HIDE DEF q, s
<1>9. Owned(q)
  BY <1>1, <1>2, <1>3, <1>5, <1>8, SealedOK DEF Owned
<1> QED
  BY <1>1, <1>2, <1>3, <1>5, <1>7, <1>8, <1>9 DEF q

LEMMA HookEndsCases ==
    ASSUME Inv, NEW i, HookEnds(i)
    PROVE  /\ i \in DOMAIN requests /\ requests[i].step = "resumed"
           /\ requests[i] \in Requests(Known, Key) /\ requests[i].kind # "set"
           /\ UNCHANGED <<keyOf, jar, signedIn, idpVars, logouts>>
           /\ \E q \in Requests(Known, Key) :
                 /\ Owned(q) /\ Route(i, q)
                 /\ q.cookies = requests[i].cookies /\ q.result = None
                 /\ q.kind = requests[i].kind /\ q.at = requests[i].at
                 /\ q.set.refresh = IF requests[i].result # None
                                    THEN Sealed(requests[i].result, keyOf[requests[i].at])
                                    ELSE None
<1> DEFINE o == requests[i]
           p == Settled(o)
           q == [p EXCEPT !.user = o.result # None,
                          !.token = IF o.result # None THEN o.result ELSE @]
<1>1. /\ i \in DOMAIN requests /\ o.step = "resumed"
      /\ Route(i, q) /\ UNCHANGED <<keyOf, jar, signedIn, idpVars, logouts>>
  BY DEF HookEnds, Resumed
<1>2. /\ o \in Requests(Known, Key) /\ p \in Requests(Known, Key) /\ Owned(p)
      /\ p.cookies = o.cookies /\ p.kind = o.kind /\ p.body = o.body /\ p.at = o.at
      /\ p.token = o.token /\ p.result = None /\ p.of = o.of
      /\ o.kind # "set"
      /\ o.result # None => /\ p.set.refresh = Sealed(o.result, keyOf[o.at])
                            /\ o.result \in Known /\ UserOf(o.result) \in o.of
      /\ o.result = None => p.set.refresh = None
  BY <1>1, SettledFacts
<1> HIDE DEF p
<1>3. q \in Requests(Known, Key)
  <2>1. p \in Requests(Known, Key)
    BY <1>2
  <2>2. p.token \in Known \cup {None}
    BY <2>1, RequestFields
  <2>3. \A t \in Known \cup {None} :
           /\ [p EXCEPT !.user = TRUE, !.token = t] \in Requests(Known, Key)
           /\ [p EXCEPT !.user = FALSE, !.token = t] \in Requests(Known, Key)
    BY <2>1 DEF Requests
  <2>4. CASE o.result # None
    BY <1>2, <2>3, <2>4
  <2>5. CASE o.result = None
    BY <2>2, <2>3, <2>5
  <2> QED
    BY <2>4, <2>5
<1>4. /\ q.cookies = o.cookies /\ q.kind = o.kind /\ q.body = o.body /\ q.at = o.at
      /\ q.result = None /\ q.of = o.of /\ q.set = p.set
      /\ q.token = IF o.result # None THEN o.result ELSE p.token
  BY <1>2 DEF Requests
<1> HIDE DEF q
<1>5. Owned(q)
  BY <1>2, <1>4 DEF Owned
<1> QED
  BY <1>1, <1>2, <1>3, <1>4, <1>5

LEMMA HookEndsKeeps ==
    ASSUME Inv, NEW i, HookEnds(i)
    PROVE  RequestsOK' /\ FlightsOK' /\ disturbed' \in BOOLEAN
<1>1. i \in DOMAIN requests /\ requests[i].step = "resumed" /\ UNCHANGED <<keyOf, issued, aged>>
  BY HookEndsCases DEF idpVars
<1> QED
  BY <1>1, HookEndsCases, RouteKeeps

LEMMA RefreshEndsCases ==
    ASSUME Inv, NEW i, RefreshEnds(i)
    PROVE  /\ i \in DOMAIN requests /\ requests[i].step = "resumed"
           /\ requests[i] \in Requests(Known, Key) /\ requests[i].kind # "set"
           /\ UNCHANGED <<keyOf, jar, signedIn, idpVars, logouts>>
           /\ \E q \in Requests(Known, Key) :
                 /\ Owned(q) /\ Answers(i, q)
                 /\ q.set.refresh = IF requests[i].result # None
                                    THEN Sealed(requests[i].result, keyOf[requests[i].at])
                                    ELSE None
<1> DEFINE o == requests[i]
           p == Settled(o)
           q == IF o.result # None THEN [p EXCEPT !.set.access = o.result] ELSE p
<1>1. /\ i \in DOMAIN requests /\ o.step = "resumed"
      /\ Answers(i, q) /\ UNCHANGED <<keyOf, jar, signedIn, idpVars, logouts>>
  BY DEF RefreshEnds, Resumed
<1>2. /\ o \in Requests(Known, Key) /\ p \in Requests(Known, Key) /\ Owned(p)
      /\ p.token = o.token /\ p.result = None /\ p.of = o.of /\ o.kind # "set"
      /\ o.result # None => /\ p.set.refresh = Sealed(o.result, keyOf[o.at])
                            /\ o.result \in Known /\ UserOf(o.result) \in o.of
      /\ o.result = None => p.set.refresh = None
  BY <1>1, SettledFacts
<1> HIDE DEF p
<1>3. p.set \in Settings(Known, Key)
  BY <1>2, RequestFields
<1>4. q \in Requests(Known, Key)
  <2>1. CASE o.result = None
    BY <1>2, <2>1
  <2>2. CASE o.result # None
    <3>1. [p.set EXCEPT !.access = o.result] \in Settings(Known, Key)
      BY <1>2, <1>3, <2>2 DEF Settings
    <3>2. q = [p EXCEPT !.set = [p.set EXCEPT !.access = o.result]]
      BY <2>2
    <3> QED
      BY <1>2, <3>1, <3>2 DEF Requests
  <2> QED
    BY <2>1, <2>2
<1>5. /\ q.cookies = p.cookies /\ q.body = p.body /\ q.result = p.result /\ q.of = p.of
      /\ q.token = p.token /\ q.set.refresh = p.set.refresh /\ q.set.sess = p.set.sess
      /\ q.set.access = IF o.result # None THEN o.result ELSE p.set.access
  BY <1>2, <1>3 DEF Requests, Settings
<1> HIDE DEF q
<1>6. Owned(q)
  BY <1>2, <1>5 DEF Owned
<1> QED
  BY <1>1, <1>2, <1>4, <1>5, <1>6

LEMMA RefreshEndsKeeps ==
    ASSUME Inv, NEW i, RefreshEnds(i)
    PROVE  RequestsOK' /\ FlightsOK' /\ disturbed' \in BOOLEAN
<1>1. i \in DOMAIN requests /\ requests[i].step = "resumed" /\ UNCHANGED <<keyOf, issued, aged>>
  BY RefreshEndsCases DEF idpVars
<1>2. disturbed \in BOOLEAN
  BY DEF Inv, CountersOK
<1> QED
  BY <1>1, <1>2, RefreshEndsCases, AnswersKeeps

-----------------------------------------------------------------------------
(* The browser *)

LEMMA IssuesKeeps ==
    ASSUME Inv, NEW i, NEW q, Issues(i, q), Known \subseteq Known',
           RequestOK(q, Known', Key, aged, DOMAIN flights), UNCHANGED <<keyOf, aged, flights>>
    PROVE  RequestsOK' /\ FlightsOK' /\ sent' \in 0..MaxRequests
<1>1. /\ i \in Slots \ DOMAIN requests /\ DOMAIN requests' = DOMAIN requests \cup {i}
      /\ \A j \in DOMAIN requests' : requests'[j] = IF j = i THEN q ELSE requests[j]
  BY DEF Issues, With
<1>2. Key' = Key
  BY DEF Key
<1>3. \A j \in DOMAIN requests : RequestOK(requests[j], Known', Key, aged, DOMAIN flights)
  <2> TAKE j \in DOMAIN requests
  <2>1. RequestOK(requests[j], Known, Key, aged, DOMAIN flights)
    BY DEF Inv, RequestsOK
  <2>2. requests[j].step = "waiting" => requests[j].flight \in DOMAIN flights
    BY <2>1 DEF RequestOK
  <2> QED
    BY <2>1, <2>2, RequestGrows
<1>4. RequestsOK'
  BY <1>1, <1>2, <1>3 DEF Inv, RequestsOK
<1>5. FlightsOK'
  <2> SUFFICES ASSUME NEW k \in DOMAIN flights
               PROVE  /\ FlightOK(k, flights[k], Known')
                      /\ \E j \in DOMAIN requests' : requests'[j].flight = k
    BY DEF FlightsOK
  <2>1. FlightOK(k, flights[k], Known) /\ \E j \in DOMAIN requests : requests[j].flight = k
    BY DEF Inv, FlightsOK
  <2> QED
    BY <1>1, <2>1, FlightGrows
<1>6. sent' \in 0..MaxRequests
  BY TokenRefreshAssumption DEF Issues, Inv, CountersOK
<1> QED
  BY <1>4, <1>5, <1>6

\* One more token.
LEMMA IssuedGrows ==
    ASSUME ProviderOK, NEW b \in Users, Cardinality(Issued) < MaxTokens,
           issued' = [issued EXCEPT ![b] = issued[b] + 1]
    PROVE  /\ IsFiniteSet(Issued') /\ Cardinality(Issued') <= MaxTokens
           /\ issued' \in [Users -> Nat] /\ Known \subseteq Known'
           /\ Token(b, issued[b] + 1) \in Known' /\ \A u \in Users : issued[u] <= issued'[u]
<1> DEFINE t == Token(b, issued[b] + 1)
<1>1. /\ issued \in [Users -> Nat] /\ issued' \in [Users -> Nat]
      /\ \A u \in Users : issued'[u] = IF u = b THEN issued[b] + 1 ELSE issued[u]
  BY DEF ProviderOK
<1>2. Issued' \subseteq Issued \cup {t}
  BY <1>1, TokenRefreshAssumption DEF Issued, UserOf, GenOf, Token
<1>3. /\ IsFiniteSet(Issued \cup {t}) /\ IsFiniteSet(Issued)
      /\ Cardinality(Issued \cup {t}) \in {Cardinality(Issued), Cardinality(Issued) + 1}
  BY FS_AddElement DEF ProviderOK
<1>4. /\ IsFiniteSet(Issued') /\ Cardinality(Issued') <= Cardinality(Issued \cup {t})
  BY <1>2, <1>3, FS_Subset
<1>5. Cardinality(Issued') \in Nat /\ Cardinality(Issued) \in Nat /\ MaxTokens \in Nat
  BY <1>3, <1>4, FS_CardinalityType, TokenRefreshAssumption
<1>6. Known \subseteq Known' /\ t \in Known'
  BY <1>1 DEF Known, UserOf, GenOf, Token
<1>7. \A u \in Users : issued[u] <= issued'[u]
  BY <1>1
<1> QED
  BY <1>1, <1>3, <1>4, <1>5, <1>6, <1>7

LEMMA LoginKeeps ==
    ASSUME Inv, NEW u \in Users, NEW p \in Replicas, NEW i, Login(u, p, i)
    PROVE  Inv'
<1> DEFINE token == Token(u, issued[u] + 1)
           cookies == [jar EXCEPT !.access = token]
<1>1. /\ jar' = cookies /\ Issues(i, Request(p, "set", cookies, token))
      /\ issued' = [issued EXCEPT ![u] = issued[u] + 1]
      /\ live' = [live EXCEPT ![u] = issued[u] + 1]
      /\ UNCHANGED <<keyOf, flights, aged, faults, logouts>>
      /\ signedIn' = u /\ Cardinality(Issued) < MaxTokens /\ disturbed' \in BOOLEAN
  BY DEF Login, Inv, CountersOK
<1>2. /\ IsFiniteSet(Issued') /\ Cardinality(Issued') <= MaxTokens
      /\ issued' \in [Users -> Nat] /\ Known \subseteq Known' /\ token \in Known'
  BY <1>1, IssuedGrows DEF Inv
<1>3. ProviderOK'
  BY <1>1, <1>2 DEF Inv, ProviderOK
<1>4. cookies \in Cookies(Known', Key)
  <2>1. jar \in Cookies(Known', Key)
    BY <1>2, CookiesGrow DEF Inv
  <2> QED
    BY <1>2, <2>1 DEF Cookies
<1>5. /\ token # None /\ cookies.access = token /\ GenOf(token) > aged[UserOf(token)]
  BY DEF Token, UserOf, GenOf, None, Inv, ProviderOK, Cookies
<1>6. RequestOK(Request(p, "set", cookies, token), Known', Key, aged, DOMAIN flights)
  <2>1. /\ \A t \in Known' : t # None /\ UserOf(t) \in Users
    BY DEF Known, UserOf, None
  <2>2. "set" \in Kinds
    BY DEF Kinds
  <2> QED
    BY <1>2, <1>4, <1>5, <2>1, <2>2, NewRequest
<1>7. Key' = Key
  BY <1>1 DEF Key
<1> HIDE DEF token, cookies
<1>8. RequestsOK' /\ FlightsOK' /\ sent' \in 0..MaxRequests
  BY <1>1, <1>2, <1>6, IssuesKeeps
<1> QED
  BY <1>1, <1>3, <1>4, <1>7, <1>8 DEF Inv, CountersOK

LEMMA SendKeeps ==
    ASSUME Inv, NEW p \in Replicas, NEW i, NEW kind \in Kinds \ {"set"}, Send(p, i, kind)
    PROVE  Inv'
<1>1. /\ Issues(i, Request(p, kind, jar, None))
      /\ UNCHANGED <<keyOf, jar, signedIn, flights, issued, live, aged, faults>>
      /\ logouts' \in 0..MaxLogouts /\ disturbed' \in BOOLEAN
  BY TokenRefreshAssumption DEF Send, Inv, CountersOK
<1>2. Known' = Known /\ Key' = Key /\ Issued' = Issued
  BY <1>1 DEF Known, Key, Issued
<1>3. RequestOK(Request(p, kind, jar, None), Known', Key, aged, DOMAIN flights)
  BY <1>2, NewRequest, KnownFacts DEF Inv
<1>4. RequestsOK' /\ FlightsOK' /\ sent' \in 0..MaxRequests
  BY <1>1, <1>2, <1>3, IssuesKeeps
<1> QED
  BY <1>1, <1>2, <1>4 DEF Inv, ProviderOK, CountersOK

LEMMA ExpiryKeeps ==
    ASSUME Inv, NEW u \in Users, AccessExpires(u)
    PROVE  Inv'
<1>1. /\ \A i \in DOMAIN requests : requests[i].kind # "set"
      /\ aged' = [aged EXCEPT ![u] = issued[u]]
      /\ jar' \in {jar, [jar EXCEPT !.access = None]}
      /\ UNCHANGED <<keyOf, signedIn, requests, flights, issued, live, sent, faults, logouts,
                     disturbed>>
  BY DEF AccessExpires
<1>2. Known' = Known /\ Key' = Key /\ Issued' = Issued
  BY <1>1 DEF Known, Key, Issued
<1>3. jar' \in Cookies(Known, Key)
  BY <1>1 DEF Inv, Cookies
<1>4. ProviderOK'
  BY <1>1, <1>2 DEF Inv, ProviderOK
<1>5. RequestsOK'
  BY <1>1, <1>2 DEF Inv, RequestsOK, RequestOK, Delivers
<1>6. FlightsOK'
  BY <1>1, <1>2 DEF Inv, FlightsOK
<1> QED
  BY <1>1, <1>2, <1>3, <1>4, <1>5, <1>6 DEF Inv, CountersOK

LEMMA SessionExpiryKeeps ==
    ASSUME Inv, SessionExpires
    PROVE  Inv'
<1>1. /\ jar' = [jar EXCEPT !.sess = None]
      /\ UNCHANGED <<keyOf, signedIn, requests, flights, issued, live, aged, faults, sent, logouts,
                     disturbed>>
  BY DEF SessionExpires, idpVars
<1>2. Known' = Known /\ Key' = Key /\ Issued' = Issued
  BY <1>1 DEF Known, Key, Issued
<1>3. jar' \in Cookies(Known, Key)
  BY <1>1 DEF Inv, Cookies
<1> QED
  BY <1>1, <1>2, <1>3 DEF Inv, CountersOK, ProviderOK, RequestsOK, FlightsOK

LEMMA ReceiveKeeps ==
    ASSUME Inv, NEW i, Receive(i)
    PROVE  Inv'
<1>1. /\ i \in DOMAIN requests /\ requests[i].step = "answered"
      /\ jar' = [c \in DOMAIN jar |-> Replaced(jar[c], requests[i].set[c])]
      /\ requests' = Without(requests, i) /\ disturbed' \in BOOLEAN
      /\ UNCHANGED <<keyOf, signedIn, flights, issued, live, aged, faults, sent, logouts>>
  BY DEF Receive, idpVars, Inv, CountersOK
<1>2. Known' = Known /\ Key' = Key /\ Issued' = Issued
  BY <1>1 DEF Known, Key, Issued
<1>3. requests[i].set \in Settings(Known, Key) /\ requests[i].flight = None
  BY <1>1, ActiveFacts, RequestFields
<1>4. jar' \in Cookies(Known, Key)
  <2>1. jar \in Cookies(Known, Key)
    BY DEF Inv
  <2>2. DOMAIN jar = {"access", "sess", "refresh"}
    BY <2>1 DEF Cookies
  <2>3. jar' = [access |-> Replaced(jar.access, requests[i].set.access),
                sess |-> Replaced(jar.sess, requests[i].set.sess),
                refresh |-> Replaced(jar.refresh, requests[i].set.refresh)]
    BY <1>1, <2>2
  <2> QED
    BY <1>3, <2>1, <2>3, KeepFacts DEF Cookies, Settings, Replaced
<1>5. /\ DOMAIN requests' = DOMAIN requests \ {i}
      /\ \A j \in DOMAIN requests' : requests'[j] = requests[j]
  BY <1>1 DEF Without
<1>6. RequestsOK'
  BY <1>1, <1>2, <1>5 DEF Inv, RequestsOK
<1>7. FlightsOK'
  <2> SUFFICES ASSUME NEW k \in DOMAIN flights
               PROVE  /\ FlightOK(k, flights[k], Known)
                      /\ \E j \in DOMAIN requests' : requests'[j].flight = k
    BY <1>1, <1>2 DEF FlightsOK
  <2>1. FlightOK(k, flights[k], Known) /\ \E j \in DOMAIN requests : requests[j].flight = k
    BY DEF Inv, FlightsOK
  <2>2. k # None
    BY <2>1, PairFacts DEF FlightOK
  <2> QED
    BY <1>3, <1>5, <2>1, <2>2
<1> QED
  BY <1>1, <1>2, <1>4, <1>6, <1>7 DEF Inv, CountersOK, ProviderOK

-----------------------------------------------------------------------------
(* The exchange *)

\* Where the flights are as they were but for one, of the same token.
LEMMA FlightChanges ==
    ASSUME Inv, NEW k \in DOMAIN flights, NEW flight, flights' = [flights EXCEPT ![k] = flight],
           FlightOK(k, flight, Known'), Known \subseteq Known', UNCHANGED <<keyOf, aged, requests>>
    PROVE  RequestsOK' /\ FlightsOK'
<1>1. Key' = Key /\ DOMAIN flights' = DOMAIN flights
  BY DEF Key
<1>2. ASSUME NEW j \in DOMAIN requests
      PROVE  RequestOK(requests[j], Known', Key, aged, DOMAIN flights)
  <2>1. RequestOK(requests[j], Known, Key, aged, DOMAIN flights)
    BY DEF Inv, RequestsOK
  <2>2. requests[j].step = "waiting" => requests[j].flight \in DOMAIN flights
    BY <2>1 DEF RequestOK
  <2> QED
    BY <2>1, <2>2, RequestGrows
<1>3. RequestsOK'
  BY <1>1, <1>2 DEF Inv, RequestsOK
<1>4. ASSUME NEW j \in DOMAIN flights
      PROVE  /\ FlightOK(j, flights'[j], Known')
             /\ \E i \in DOMAIN requests : requests[i].flight = j
  <2>1. FlightOK(j, flights[j], Known) /\ \E i \in DOMAIN requests : requests[i].flight = j
    BY DEF Inv, FlightsOK
  <2>2. FlightOK(j, flights[j], Known')
    BY <2>1, FlightGrows
  <2> QED
    BY <2>1, <2>2
<1> QED
  BY <1>1, <1>3, <1>4 DEF FlightsOK

\* The flight of a token that has landed.
LEMMA LandedOK ==
    ASSUME Inv, NEW k \in DOMAIN flights, NEW state \in {"won", "failed"}, NEW new, NEW T,
           Known \subseteq T,
           new = None \/ (new \in T /\ new = Token(UserOf(k[2]), GenOf(k[2]) + 1)),
           Landed(k, state, new)
    PROVE  \E flight : /\ flights' = [flights EXCEPT ![k] = flight] /\ FlightOK(k, flight, T)
                       /\ flight.state = state /\ flight.new = new
<1> DEFINE flight == [flights[k] EXCEPT !.state = state, !.new = new]
<1>1. flights' = [flights EXCEPT ![k] = flight]
  BY DEF Landed
<1>2. FlightOK(k, flights[k], T)
  BY FlightGrows DEF Inv, FlightsOK
<1>3. /\ flight \in Flights(T) /\ flight.token = flights[k].token /\ flight.state = state
      /\ flight.new = new
  BY <1>2 DEF FlightOK, Flights
<1>4. FlightOK(k, flight, T)
  BY <1>2, <1>3 DEF FlightOK
<1> QED
  BY <1>1, <1>3, <1>4

\* What is known of a flight's token.
LEMMA FlightFacts ==
    ASSUME Inv, NEW k \in DOMAIN flights
    PROVE  /\ k[2] \in Known /\ flights[k].token = k[2] /\ k # None
           /\ UserOf(k[2]) \in Users /\ GenOf(k[2]) \in Nat /\ GenOf(k[2]) > 0
           /\ k[2] = Token(UserOf(k[2]), GenOf(k[2]))
           /\ GenOf(k[2]) <= issued[UserOf(k[2])]
           /\ \E i \in DOMAIN requests : requests[i].flight = k
<1>1. FlightOK(k, flights[k], Known) /\ \E i \in DOMAIN requests : requests[i].flight = k
  BY DEF Inv, FlightsOK
<1>2. k \in Replicas \X Known /\ flights[k].token = k[2]
  BY <1>1 DEF FlightOK
<1>3. k[2] \in Known /\ k # None
  BY <1>2, PairFacts
<1> QED
  BY <1>1, <1>2, <1>3, KnownFacts

LEMMA AnswerKeeps ==
    ASSUME Inv, NEW k, IdpAnswers(k)
    PROVE  Inv'
<1> DEFINE b == UserOf(k[2])
           g == GenOf(k[2])
<1>1. /\ k \in DOMAIN flights /\ b \in Users /\ g \in Nat /\ g > 0 /\ flights[k].token = k[2]
      /\ UNCHANGED <<keyOf, jar, signedIn, requests, aged, sent, faults, logouts, disturbed>>
  BY FlightFacts DEF IdpAnswers
<1>2. Key' = Key
  BY <1>1 DEF Key
<1>3. /\ issued \in [Users -> Nat] /\ live \in [Users -> Nat] /\ live[b] \in {0, issued[b]}
      /\ Cardinality(Issued) <= MaxTokens
  BY <1>1 DEF Inv, ProviderOK
<1>4. Cardinality(Issued) \in Nat /\ MaxTokens \in Nat
  BY FS_CardinalityType, TokenRefreshAssumption DEF Inv, ProviderOK
<1>5. CASE issued' = issued
  <2>1. Known' = Known /\ Issued' = Issued
    BY <1>5 DEF Known, Issued
  <2>2. Landed(k, "failed", None) /\ live' \in {live, [live EXCEPT ![b] = 0]}
    <3>1. CASE g # live[b] \/ Cardinality(Issued) = MaxTokens
      BY <1>1, <3>1 DEF IdpAnswers
    <3>2. CASE ~(g # live[b] \/ Cardinality(Issued) = MaxTokens)
      <4>1. issued'[b] = g + 1 /\ g = issued[b]
        BY <1>1, <1>3, <3>2 DEF IdpAnswers
      <4> QED
        BY <1>1, <1>5, <4>1
    <3> QED
      BY <3>1, <3>2
  <2>3. ProviderOK'
    BY <1>1, <1>3, <1>5, <2>1, <2>2 DEF Inv, ProviderOK
  <2>4. RequestsOK' /\ FlightsOK'
    <3>1. PICK flight : flights' = [flights EXCEPT ![k] = flight] /\ FlightOK(k, flight, Known)
      BY <1>1, <2>2, LandedOK
    <3> QED
      BY <1>1, <2>1, <3>1, FlightChanges
  <2> QED
    BY <1>1, <1>2, <2>1, <2>3, <2>4 DEF Inv, CountersOK
<1>6. CASE issued' # issued
  <2>1. /\ g = live[b] /\ Cardinality(Issued) # MaxTokens
        /\ Landed(k, "won", Token(b, g + 1))
        /\ issued' = [issued EXCEPT ![b] = g + 1] /\ live' = [live EXCEPT ![b] = g + 1]
    BY <1>1, <1>6 DEF IdpAnswers
  <2>2. g = issued[b] /\ Cardinality(Issued) < MaxTokens
    BY <1>1, <1>3, <1>4, <2>1
  <2>3. /\ IsFiniteSet(Issued') /\ Cardinality(Issued') <= MaxTokens
        /\ issued' \in [Users -> Nat] /\ Known \subseteq Known' /\ Token(b, g + 1) \in Known'
    <3>1. issued' = [issued EXCEPT ![b] = issued[b] + 1]
      BY <2>1, <2>2
    <3> HIDE DEF b, g
    <3>2. ProviderOK
      BY DEF Inv
    <3> QED
      BY <1>1, <2>2, <3>1, <3>2, IssuedGrows
  <2>4. ProviderOK'
    BY <1>1, <1>3, <2>1, <2>2, <2>3 DEF Inv, ProviderOK
  <2>5. RequestsOK' /\ FlightsOK'
    <3>1. PICK flight : flights' = [flights EXCEPT ![k] = flight] /\ FlightOK(k, flight, Known')
      BY <1>1, <2>1, <2>3, LandedOK
    <3> QED
      BY <1>1, <2>3, <3>1, FlightChanges
  <2>6. jar \in Cookies(Known', Key)
    BY <2>3, CookiesGrow DEF Inv
  <2> QED
    BY <1>1, <1>2, <2>4, <2>5, <2>6 DEF Inv, CountersOK
<1> QED
  BY <1>5, <1>6

LEMMA FailureKeeps ==
    ASSUME Inv, NEW k, IdpFails(k)
    PROVE  Inv'
<1> DEFINE b == UserOf(k[2])
           g == GenOf(k[2])
<1>1. /\ k \in DOMAIN flights /\ b \in Users /\ g \in Nat /\ g > 0 /\ flights[k].token = k[2]
      /\ UNCHANGED <<keyOf, jar, signedIn, requests, aged, sent, logouts>>
      /\ faults' \in 0..MaxFaults /\ disturbed' = TRUE /\ Landed(k, "failed", None)
  BY FlightFacts, TokenRefreshAssumption DEF IdpFails, Inv, CountersOK
<1>2. Key' = Key
  BY <1>1 DEF Key
<1>3. \/ UNCHANGED <<issued, live>>
      \/ /\ g = live[b] /\ Cardinality(Issued) < MaxTokens
         /\ issued' = [issued EXCEPT ![b] = issued[b] + 1]
         /\ live' = [live EXCEPT ![b] = live[b] + 1]
  BY <1>1 DEF IdpFails
<1>4. ProviderOK' /\ Known \subseteq Known'
  <2>1. CASE UNCHANGED <<issued, live>>
    <3>1. Known' = Known /\ Issued' = Issued
      BY <2>1 DEF Known, Issued
    <3> QED
      BY <1>1, <2>1, <3>1 DEF Inv, ProviderOK
  <2>2. CASE ~UNCHANGED <<issued, live>>
    <3>1. /\ IsFiniteSet(Issued') /\ Cardinality(Issued') <= MaxTokens
          /\ issued' \in [Users -> Nat] /\ Known \subseteq Known'
      <4>1. ProviderOK
        BY DEF Inv
      <4> HIDE DEF b
      <4> QED
        BY <1>1, <1>3, <2>2, <4>1, IssuedGrows
    <3> QED
      BY <1>1, <1>3, <2>2, <3>1 DEF Inv, ProviderOK
  <2> QED
    BY <2>1, <2>2
<1>5. RequestsOK' /\ FlightsOK'
  <2>1. PICK flight : flights' = [flights EXCEPT ![k] = flight] /\ FlightOK(k, flight, Known')
    BY <1>1, <1>4, LandedOK
  <2> QED
    BY <1>1, <1>4, <2>1, FlightChanges
<1>6. jar \in Cookies(Known', Key)
  BY <1>4, CookiesGrow DEF Inv
<1> QED
  BY <1>1, <1>2, <1>4, <1>5, <1>6 DEF Inv, CountersOK

\* A request goes on with the result of its flight.
Resuming(q, new) == [q EXCEPT !.step = "resumed", !.result = new, !.flight = None]

LEMMA FlightEndKeeps ==
    ASSUME Inv, NEW k, FlightEnds(k)
    PROVE  Inv'
<1>1. /\ k \in DOMAIN flights /\ flights' = Without(flights, k)
      /\ DOMAIN requests' = DOMAIN requests
      /\ \A i \in DOMAIN requests :
            requests'[i] = IF requests[i].step = "waiting" /\ requests[i].flight = k
                           THEN Resuming(requests[i], flights[k].new) ELSE requests[i]
      /\ UNCHANGED <<keyOf, jar, signedIn, issued, live, aged, faults, sent, logouts, disturbed>>
  BY DEF FlightEnds, idpVars, Resuming
<1>2. Known' = Known /\ Key' = Key /\ Issued' = Issued
  BY <1>1 DEF Known, Key, Issued
<1>3. /\ DOMAIN flights' = DOMAIN flights \ {k}
      /\ \A j \in DOMAIN flights' : flights'[j] = flights[j]
  BY <1>1 DEF Without
<1>4. FlightOK(k, flights[k], Known)
  BY <1>1 DEF Inv, FlightsOK
<1>5. ASSUME NEW i \in DOMAIN requests
      PROVE  RequestOK(requests'[i], Known, Key, aged, DOMAIN flights')
  <2> DEFINE q == requests[i]
             r == Resuming(q, flights[k].new)
  <2>1. RequestOK(q, Known, Key, aged, DOMAIN flights)
    BY DEF Inv, RequestsOK
  <2>2. CASE ~(q.step = "waiting" /\ q.flight = k)
    BY <1>1, <1>3, <2>1, <2>2 DEF RequestOK
  <2>3. CASE q.step = "waiting" /\ q.flight = k
    <3>1. q \in Requests(Known, Key) /\ Owned(q) /\ q.kind # "set"
      BY <2>1, <2>3 DEF RequestOK, Delivers
    <3>2. q.cookies.refresh # None /\ k[2] = q.cookies.refresh[1]
      BY <2>1, <2>3 DEF RequestOK, Exchanges
    <3>3. flights[k].new \in Known \cup {None}
      BY <1>4 DEF FlightOK, Flights
    <3>4. /\ r \in Requests(Known, Key)
          /\ r.step = "resumed" /\ r.flight = None /\ r.result = flights[k].new
          /\ r.cookies = q.cookies /\ r.kind = q.kind /\ r.of = q.of /\ r.body = q.body
          /\ r.token = q.token /\ r.set = q.set
      BY <3>1, <3>3 DEF Resuming, Requests
    <3>5. flights[k].new # None =>
              flights[k].new = Token(UserOf(q.cookies.refresh[1]), GenOf(q.cookies.refresh[1]) + 1)
      BY <1>4, <3>2 DEF FlightOK
    <3>6. Owned(r)
      <4>1. flights[k].new # None => UserOf(flights[k].new) \in q.of
        BY <3>1, <3>2, <3>5 DEF Owned, UserOf, Token
      <4> HIDE DEF r
      <4> QED
        BY <3>1, <3>4, <4>1 DEF Owned
    <3> HIDE DEF r
    <3>7. Exchanges(r) /\ Delivers(r, aged) /\ r.step # "waiting"
      BY <3>1, <3>2, <3>4, <3>5 DEF Exchanges, Delivers
    <3>8. RequestOK(r, Known, Key, aged, DOMAIN flights')
      BY <3>4, <3>6, <3>7 DEF RequestOK
    <3>9. requests'[i] = r
      BY <1>1, <2>3 DEF r
    <3> QED
      BY <3>8, <3>9
  <2> QED
    BY <2>2, <2>3
<1>6. RequestsOK'
  BY <1>1, <1>2, <1>5 DEF Inv, RequestsOK
<1>7. FlightsOK'
  <2> SUFFICES ASSUME NEW j \in DOMAIN flights'
               PROVE  /\ FlightOK(j, flights'[j], Known)
                      /\ \E i \in DOMAIN requests' : requests'[i].flight = j
    BY <1>2 DEF FlightsOK
  <2>1. j \in DOMAIN flights /\ j # k /\ flights'[j] = flights[j]
    BY <1>3
  <2>2. FlightOK(j, flights[j], Known) /\ \E i \in DOMAIN requests : requests[i].flight = j
    BY <2>1 DEF Inv, FlightsOK
  <2> QED
    BY <1>1, <2>1, <2>2
<1> QED
  BY <1>1, <1>2, <1>6, <1>7 DEF Inv, CountersOK, ProviderOK

-----------------------------------------------------------------------------
(* All steps *)

LEMMA InitInv == Init => Inv
<1> SUFFICES ASSUME Init PROVE Inv
  OBVIOUS
<1>1. Issued = {}
  BY TokenRefreshAssumption DEF Init, Issued, UserOf, GenOf
<1>2. IsFiniteSet(Issued) /\ Cardinality(Issued) <= MaxTokens
  BY <1>1, FS_EmptySet, TokenRefreshAssumption
<1>3. ProviderOK
  BY <1>2 DEF Init, ProviderOK
<1>4. CountersOK
  BY TokenRefreshAssumption DEF Init, CountersOK
<1>5. jar \in Cookies(Known, Key)
  BY DEF Init, NoCookies, Cookies
<1>6. DOMAIN requests = {} /\ DOMAIN flights = {}
  BY DEF Init
<1>7. RequestsOK /\ FlightsOK
  BY <1>6 DEF RequestsOK, FlightsOK
<1> QED
  BY <1>3, <1>4, <1>5, <1>7 DEF Init, Inv

\* The steps of a handler change nothing else.
LEMMA ServedKeeps ==
    ASSUME Inv, RequestsOK' /\ FlightsOK' /\ disturbed' \in BOOLEAN,
           UNCHANGED <<keyOf, jar, signedIn, idpVars, logouts>>
    PROVE  Inv'
<1>1. UNCHANGED <<keyOf, jar, signedIn, issued, live, aged, faults, sent, logouts>>
  BY DEF idpVars
<1>2. Known' = Known /\ Key' = Key /\ Issued' = Issued
  BY <1>1 DEF Known, Key, Issued
<1> QED
  BY <1>1, <1>2 DEF Inv, CountersOK, ProviderOK

LEMMA StepInv == Inv /\ [Next]_vars => Inv'
<1> SUFFICES ASSUME Inv, [Next]_vars PROVE Inv'
  OBVIOUS
<1>1. ASSUME NEW p \in Replicas, NEW i \in Slots, NEW u \in Users, Login(u, p, i)
      PROVE  Inv'
  BY <1>1, LoginKeeps
<1>2. ASSUME NEW p \in Replicas, NEW i \in Slots, NEW kind \in Kinds \ {"set"}, Send(p, i, kind)
      PROVE  Inv'
  BY <1>2, SendKeeps
<1>3. ASSUME NEW u \in Users, AccessExpires(u)
      PROVE  Inv'
  BY <1>3, ExpiryKeeps
<1>4. CASE SessionExpires
  BY <1>4, SessionExpiryKeeps
<1>5. ASSUME NEW i \in Slots, Served(i)
      PROVE  Inv'
  <2>1. CASE Hook(i)
    BY <2>1, HookKeeps, HookCases, ServedKeeps
  <2>2. CASE HookEnds(i)
    BY <2>2, HookEndsKeeps, HookEndsCases, ServedKeeps
  <2>3. CASE RefreshEnds(i)
    BY <2>3, RefreshEndsKeeps, RefreshEndsCases, ServedKeeps
  <2>4. CASE Receive(i)
    BY <2>4, ReceiveKeeps
  <2> QED
    BY <1>5, <2>1, <2>2, <2>3, <2>4 DEF Served
<1>6. ASSUME NEW k \in DOMAIN flights, Exchange(k) \/ IdpFails(k)
      PROVE  Inv'
  BY <1>6, AnswerKeeps, FailureKeeps, FlightEndKeeps DEF Exchange
<1>7. CASE UNCHANGED vars
  <2>1. Known' = Known /\ Key' = Key /\ Issued' = Issued
    BY <1>7 DEF vars, Known, Key, Issued
  <2> QED
    BY <1>7, <2>1 DEF vars, Inv, CountersOK, ProviderOK, RequestsOK, FlightsOK
<1> QED
  BY <1>1, <1>2, <1>3, <1>4, <1>5, <1>6, <1>7 DEF Next

LEMMA Invariant == Spec => []Inv
BY InitInv, StepInv, PTL DEF Spec

LEMMA InvTypes == Inv => TypeOK
<1> SUFFICES ASSUME Inv PROVE TypeOK
  OBVIOUS
<1>1. /\ jar.access # None => GenOf(jar.access) <= issued[UserOf(jar.access)]
      /\ jar.refresh # None => GenOf(jar.refresh[1]) <= issued[UserOf(jar.refresh[1])]
  BY KnownFacts, PairFacts DEF Inv, Cookies
<1>2. None \notin DOMAIN flights
  BY FlightFacts
<1>3. \A i \in DOMAIN requests :
          /\ requests[i].kind \in Kinds
          /\ requests[i].step \in {"sent", "waiting", "resumed", "answered"}
          /\ requests[i].step = "waiting" <=> requests[i].flight \in DOMAIN flights
  BY <1>2 DEF Inv, RequestsOK, RequestOK, Requests, Exchanges
<1>4. \A k \in DOMAIN flights :
          /\ flights[k].state \in {"asked", "won", "failed"}
          /\ \E i \in DOMAIN requests : requests[i].flight = k
  BY DEF Inv, FlightsOK, FlightOK, Flights
<1> QED
  BY <1>1, <1>3, <1>4 DEF Inv, TypeOK, ProviderOK, CountersOK, RequestsOK

\* Every variable keeps its type, whatever the browser, the replicas and the provider do:
\* no cookie holds a token that was not issued, a request waits exactly for an exchange under
\* way, and every exchange has somebody waiting (auth-singleflight.ts:27-41, auth.ts:192-360).
THEOREM TypeCorrect == Spec => []TypeOK
BY Invariant, InvTypes, PTL

\* No response sets a cookie of a user whose credentials its request did not carry, however
\* many requests, users, replicas and exchanges are under way (auth-singleflight.ts:27-41).
THEOREM NoCrossTalkHolds == Spec => []NoCrossTalk
<1>1. Inv => NoCrossTalk
  BY DEF Inv, RequestsOK, RequestOK, Owned, NoCrossTalk
<1> QED
  BY <1>1, Invariant, PTL

-----------------------------------------------------------------------------
(* An undisturbed session *)

\* All tokens are those of who has signed in, and the valid one is the newest.
LEMMA OwnTokens ==
    ASSUME Inv, Undisturbed, NEW t \in Known
    PROVE  /\ signedIn \in Users /\ signedIn # None /\ UserOf(t) = signedIn
           /\ GenOf(t) \in Nat /\ GenOf(t) > 0 /\ GenOf(t) <= issued[signedIn]
           /\ live[signedIn] \in Nat /\ live[signedIn] \in {0, issued[signedIn]}
           /\ live[signedIn] # 0 => /\ GenOf(t) <= live[signedIn]
                                    /\ (t = Newest) <=> (GenOf(t) = live[signedIn])
<1>1. /\ t = Token(UserOf(t), GenOf(t)) /\ UserOf(t) \in Users
      /\ GenOf(t) \in Nat /\ GenOf(t) > 0 /\ GenOf(t) <= issued[UserOf(t)]
  BY KnownFacts
<1>2. UserOf(t) = signedIn /\ signedIn # None
  BY <1>1, TokenRefreshAssumption DEF Undisturbed, None, Inv, ProviderOK
<1>3. live[signedIn] \in Nat /\ live[signedIn] \in {0, issued[signedIn]}
  BY <1>1, <1>2 DEF Inv, ProviderOK
<1>4. (t = Newest) <=> (GenOf(t) = live[signedIn])
  BY <1>1, <1>2 DEF Newest, GenOf, Token
<1> QED
  BY <1>1, <1>2, <1>3, <1>4

\* The tokens of a request.
LEMMA RequestTokens ==
    ASSUME Inv, NEW i \in DOMAIN requests
    PROVE  LET q == requests[i]
           IN  /\ q.cookies.refresh # None => q.cookies.refresh[1] \in Known
               /\ q.result # None => q.result \in Known
               /\ q.kind = "set" => q.body \in Known
               /\ q.set.refresh \notin {Keep, None} => q.set.refresh[1] \in Known
<1>1. requests[i] \in Requests(Known, Key) /\ Delivers(requests[i], aged)
  BY DEF Inv, RequestsOK, RequestOK
<1> QED
  BY <1>1, RequestFields, PairFacts DEF Delivers

LEMMA UndisturbedStays ==
    ASSUME Undisturbed, UNCHANGED <<signedIn, issued, live>>,
           \A i \in DOMAIN requests' : requests'[i].kind # "logout",
           signedIn # None /\ live[signedIn] # 0 /\ Living => Living'
    PROVE  Undisturbed'
<1>1. Issued' = Issued
  BY DEF Issued
<1> QED
  BY <1>1 DEF Undisturbed

\* Request i has become q.
LEMMA LivingRequest ==
    ASSUME Living, UNCHANGED <<signedIn, live, jar, flights>>, NEW i, NEW q,
           DOMAIN requests' = DOMAIN requests \cup {i},
           \A j \in DOMAIN requests' : requests'[j] = IF j = i THEN q ELSE requests[j],
           Lives(q),
           i \in DOMAIN requests /\ Carries(requests[i], Newest) => Carries(q, Newest),
           Older(live[signedIn]) => OlderRequest(q, live[signedIn])
    PROVE  Living'
<1>1. Newest' = Newest
  BY DEF Newest
<1>2. Held'
  <2>1. CASE jar.refresh # None /\ jar.refresh[1] = Newest
    BY <1>1, <2>1 DEF Held
  <2>2. ASSUME NEW j \in DOMAIN requests, Carries(requests[j], Newest)
        PROVE  Held'
    <3>1. j \in DOMAIN requests' /\ Carries(requests'[j], Newest)
      BY <2>2
    <3> QED
      BY <1>1, <3>1 DEF Held
  <2>3. CASE \E k \in DOMAIN flights : flights[k].new = Newest
    BY <1>1, <2>3 DEF Held
  <2> QED
    BY <2>1, <2>2, <2>3 DEF Living, Held
<1>3. Older(live[signedIn]) => Older(live[signedIn])'
  BY DEF Older
<1>4. NewestFlights'
  BY <1>1, <1>3 DEF Living, NewestFlights
<1>5. \A j \in DOMAIN requests' : Lives(requests'[j])
  BY DEF Living
<1> QED
  BY <1>2, <1>4, <1>5 DEF Living

\* A response that sets the newest token if the request had it, and no cleared cookie.
LEMMA AnswerLives ==
    ASSUME SessionInv, ~disturbed, NEW i \in DOMAIN requests, requests[i].step # "waiting",
           NEW r \in Requests(Known, Key), Owned(r), Answers(i, r),
           UNCHANGED <<keyOf, jar, signedIn, idpVars, logouts>>,
           signedIn # None /\ live[signedIn] # 0 /\ Living =>
              /\ r.set.refresh # None
              /\ Carries(requests[i], Newest) =>
                    r.set.refresh \notin {Keep, None} /\ r.set.refresh[1] = Newest
              /\ OlderRequest(requests[i], live[signedIn]) =>
                    (r.set.refresh \notin {Keep, None} => GenOf(r.set.refresh[1]) < live[signedIn])
    PROVE  Undisturbed'
<1>1. /\ UNCHANGED <<signedIn, issued, live, jar, flights>>
      /\ DOMAIN requests' = DOMAIN requests \cup {i}
      /\ \A j \in DOMAIN requests' : requests'[j] = IF j = i THEN Answered(r) ELSE requests[j]
  BY AnswersKeeps DEF idpVars, SessionInv
<1>2. /\ Answered(r).kind = "page" /\ Answered(r).step = "answered"
      /\ Answered(r).set = r.set /\ Answered(r).result = None
      /\ Answered(r).cookies.refresh = None
  BY DEF Answered, Request, NoCookies
<1>3. ASSUME signedIn # None, live[signedIn] # 0, Living PROVE Living'
  <2>1. Lives(Answered(r))
    BY <1>2, <1>3 DEF Lives
  <2>2. Carries(requests[i], Newest) => Carries(Answered(r), Newest)
    BY <1>2, <1>3 DEF Carries
  <2>3. Older(live[signedIn]) => OlderRequest(Answered(r), live[signedIn])
    BY <1>2, <1>3 DEF Older, OlderRequest
  <2> QED
    BY <1>1, <1>3, <2>1, <2>2, <2>3, LivingRequest
<1>4. \A j \in DOMAIN requests' : requests'[j].kind # "logout"
  BY <1>1, <1>2 DEF SessionInv, Undisturbed
<1> QED
  BY <1>1, <1>3, <1>4, UndisturbedStays DEF SessionInv

\* A request that carries nothing joins an exchange, or begins one of the newest token.
LEMMA JoinLives ==
    ASSUME SessionInv, ~disturbed, NEW i \in DOMAIN requests, requests[i].step # "waiting",
           NEW r \in Requests(Known, Key), Owned(r), r.kind \notin {"set", "logout"},
           Joins(i, r), r.cookies = requests[i].cookies, r.cookies.refresh # None,
           r.result = requests[i].result, r.set.refresh = requests[i].set.refresh,
           UNCHANGED <<keyOf, jar, signedIn, idpVars, logouts>>, ~disturbed',
           ~Carries(requests[i], Newest)
    PROVE  Undisturbed'
<1> DEFINE token == r.cookies.refresh[1]
           key == <<r.at, token>>
           q == Joining(r)
           L == live[signedIn]
<1>1. /\ UNCHANGED <<signedIn, issued, live, jar>>
      /\ DOMAIN requests' = DOMAIN requests \cup {i}
      /\ \A j \in DOMAIN requests' : requests'[j] = IF j = i THEN q ELSE requests[j]
  BY DEF idpVars, Joins, Joining, FlightKey
<1>2. /\ q.step = "waiting" /\ q.kind = r.kind /\ q.cookies = r.cookies /\ q.result = r.result
      /\ q.set = r.set
  BY DEF Joining, Requests
<1>3. Inv /\ Undisturbed
  BY DEF SessionInv
<1>4. \/ UNCHANGED flights
      \/ /\ key \notin DOMAIN flights
         /\ flights' = With(flights, key, [token |-> token, state |-> "asked", new |-> None])
         /\ GenOf(token) = live[UserOf(token)] /\ ~ElsewhereInFlight(r.at, token)
  BY DEF Joins, FlightKey
<1>5. token \in Known /\ r.at \in Replicas
  BY RequestFields, PairFacts
<1> HIDE DEF q
<1>6. ASSUME L # 0, Living PROVE Living'
  <2>1. Lives(q)
    BY <1>2, <1>6 DEF Lives, Living
  <2>2. Older(L) => OlderRequest(q, L)
    BY <1>2 DEF Older, OlderRequest
  <2>3. CASE UNCHANGED flights
    BY <1>1, <1>6, <2>1, <2>2, <2>3, LivingRequest
  <2>4. CASE ~UNCHANGED flights
    <3>1. GenOf(token) = L /\ UserOf(token) = signedIn /\ token = Newest
      BY <1>3, <1>4, <1>5, <1>6, <2>4, OwnTokens
    <3>2. DOMAIN flights = {}
      <4> SUFFICES ASSUME NEW k \in DOMAIN flights PROVE FALSE
        OBVIOUS
      <4>1. k[2] \in Known /\ flights[k].token = k[2] /\ k \in Replicas \X Known
        BY <1>3, FlightFacts DEF Inv, FlightsOK, FlightOK
      <4>2. CASE flights[k].state = "asked" /\ GenOf(k[2]) = L
        <5>1. k[2] = token
          BY <1>3, <1>6, <3>1, <4>1, <4>2, OwnTokens
        <5>2. k = <<k[1], k[2]>>
          BY <4>1
        <5>3. k[1] # r.at
          BY <1>4, <2>4, <5>1, <5>2
        <5> QED
          BY <1>4, <2>4, <4>1, <5>1, <5>3 DEF ElsewhereInFlight
      <4>3. CASE Older(L)
        <5>1. GenOf(token) < L
          BY <4>3 DEF Older, OlderRequest
        <5> QED
          BY <1>3, <1>5, <3>1, <5>1, OwnTokens
      <4> QED
        BY <1>6, <4>2, <4>3 DEF Living, NewestFlights
    <3>3. /\ DOMAIN flights' = {key}
          /\ flights'[key] = [token |-> token, state |-> "asked", new |-> None]
      BY <1>4, <2>4, <3>2 DEF With
    <3>4. NewestFlights'
      BY <1>1, <3>1, <3>3 DEF NewestFlights
    <3>5. Newest' = Newest
      BY <1>1 DEF Newest
    <3>6. Held'
      <4>1. CASE jar.refresh # None /\ jar.refresh[1] = Newest
        BY <1>1, <3>5, <4>1 DEF Held
      <4>2. ASSUME NEW j \in DOMAIN requests, Carries(requests[j], Newest)
            PROVE  Held'
        <5>1. j # i /\ j \in DOMAIN requests' /\ requests'[j] = requests[j]
          BY <1>1, <4>2
        <5> QED
          BY <3>5, <4>2, <5>1 DEF Held
      <4> QED
        BY <1>6, <3>2, <4>1, <4>2 DEF Living, Held
    <3>7. \A j \in DOMAIN requests' : Lives(requests'[j])
      BY <1>1, <1>6, <2>1 DEF Living
    <3> QED
      BY <3>4, <3>6, <3>7 DEF Living
  <2> QED
    BY <2>3, <2>4
<1>7. \A j \in DOMAIN requests' : requests'[j].kind # "logout"
  BY <1>1, <1>2, <1>3 DEF Undisturbed
<1> QED
  BY <1>1, <1>3, <1>6, <1>7, UndisturbedStays

\* A response that sets the result of an exchange.
LEMMA ResultLives ==
    ASSUME SessionInv, ~disturbed, NEW i \in DOMAIN requests, requests[i].step = "resumed",
           requests[i].kind # "set",
           NEW r \in Requests(Known, Key), Owned(r), Answers(i, r),
           r.set.refresh = IF requests[i].result # None
                           THEN Sealed(requests[i].result, keyOf[requests[i].at]) ELSE None,
           UNCHANGED <<keyOf, jar, signedIn, idpVars, logouts>>
    PROVE  Undisturbed'
<1> DEFINE o == requests[i]
           L == live[signedIn]
<1>1. ASSUME signedIn # None, L # 0, Living
      PROVE  /\ r.set.refresh # None
             /\ Carries(o, Newest) =>
                   r.set.refresh \notin {Keep, None} /\ r.set.refresh[1] = Newest
             /\ OlderRequest(o, L) =>
                   (r.set.refresh \notin {Keep, None} => GenOf(r.set.refresh[1]) < L)
  <2>1. o.result # None
    BY <1>1 DEF Living, Lives
  <2>2. r.set.refresh = Sealed(o.result, keyOf[o.at])
    BY <2>1
  <2>3. r.set.refresh \notin {Keep, None} /\ r.set.refresh[1] = o.result
    <3>1. /\ Sealed(o.result, keyOf[o.at]) \notin {Keep, None}
          /\ Sealed(o.result, keyOf[o.at])[1] = o.result
      BY DEF Sealed, Keep, None
    <3> QED
      BY <2>2, <3>1
  <2>4. Carries(o, Newest) => o.result = Newest
    BY DEF Carries
  <2> QED
    BY <2>1, <2>3, <2>4 DEF OlderRequest
<1> QED
  BY <1>1, AnswerLives

\* The hook passes on what the request carries.
LEMMA HookLives ==
    ASSUME SessionInv, ~disturbed, NEW i, Hook(i), ~disturbed'
    PROVE  Undisturbed'
<1> DEFINE o == requests[i]
           L == live[signedIn]
<1>1. Inv /\ Undisturbed
  BY DEF SessionInv
<1>2. /\ i \in DOMAIN requests /\ o.step = "sent" /\ o \in Requests(Known, Key)
      /\ UNCHANGED <<keyOf, jar, signedIn, idpVars, logouts>>
      /\ o.kind # "logout" /\ Owned(o)
  BY <1>1, HookCases, ActiveFacts DEF Undisturbed
<1>3. o.kind # "set" => ~Carries(o, Newest)
  BY <1>2 DEF Carries
<1>4. CASE Joins(i, o) /\ o.cookies.refresh # None /\ o.kind # "set"
  BY <1>2, <1>3, <1>4, JoinLives
<1>5. ASSUME NEW q \in Requests(Known, Key), Owned(q), Route(i, q),
             q.kind = "set" => q.body # None /\ q.user,
             q.cookies = o.cookies, q.result = o.result, q.kind = o.kind, q.body = o.body,
             q.set.refresh = o.set.refresh
      PROVE  Undisturbed'
  <2>1. PICK r \in Requests(Known, Key) :
              /\ Owned(r)
              /\ r.cookies = q.cookies /\ r.result = q.result /\ r.kind = q.kind
              /\ r.set.refresh = CASE q.kind = "set" /\ q.user -> Sealed(q.body, keyOf[q.at])
                                   [] q.kind = "logout" -> None
                                   [] OTHER -> q.set.refresh
              /\ \/ Answers(i, r)
                 \/ Joins(i, r) /\ r.cookies.refresh # None /\ r.kind = "refresh"
    BY <1>5, RouteCases
  <2>2. /\ o.kind = "set" => r.set.refresh = Sealed(o.body, keyOf[q.at])
        /\ o.kind # "set" => r.set.refresh = o.set.refresh
    BY <1>2, <1>5, <2>1
  <2>3. /\ o.kind = "set" => /\ r.set.refresh \notin {Keep, None} /\ r.set.refresh[1] = o.body
    <3>1. Sealed(o.body, keyOf[q.at]) \notin {Keep, None} /\ Sealed(o.body, keyOf[q.at])[1] = o.body
      BY DEF Sealed, Keep, None
    <3> QED
      BY <2>2, <3>1
  <2>4. CASE Answers(i, r)
    <3>1. ASSUME signedIn # None, L # 0, Living
          PROVE  /\ r.set.refresh # None
                 /\ Carries(o, Newest) =>
                       r.set.refresh \notin {Keep, None} /\ r.set.refresh[1] = Newest
                 /\ OlderRequest(o, L) =>
                       (r.set.refresh \notin {Keep, None} => GenOf(r.set.refresh[1]) < L)
      <4>1. o.set.refresh # None
        BY <1>2, <3>1 DEF Living, Lives
      <4>2. Carries(o, Newest) => o.kind = "set" /\ o.body = Newest
        BY <1>2 DEF Carries
      <4> QED
        BY <2>2, <2>3, <4>1, <4>2 DEF OlderRequest
    <3> QED
      BY <1>2, <2>1, <2>4, <3>1, AnswerLives
  <2>5. CASE Joins(i, r) /\ r.cookies.refresh # None /\ r.kind = "refresh"
    <3>1. r.set.refresh = o.set.refresh /\ o.kind = "refresh"
      BY <1>5, <2>1, <2>2, <2>5
    <3> QED
      BY <1>2, <1>3, <1>5, <2>1, <2>5, <3>1, JoinLives
  <2> QED
    BY <2>1, <2>4, <2>5
<1> QED
  BY <1>1, <1>4, <1>5, HookCases

\* The hook passes on the result of the exchange.  _auth/refresh does not exchange the cookie
\* again: its token would be old by now.
LEMMA HookEndLives ==
    ASSUME SessionInv, ~disturbed, NEW i, HookEnds(i), ~disturbed'
    PROVE  Undisturbed'
<1> DEFINE o == requests[i]
           L == live[signedIn]
<1>1. Inv /\ Undisturbed
  BY DEF SessionInv
<1>2. /\ i \in DOMAIN requests /\ o.step = "resumed" /\ o \in Requests(Known, Key)
      /\ UNCHANGED <<keyOf, jar, signedIn, idpVars, logouts>>
      /\ o.kind # "logout" /\ o.kind # "set" /\ Exchanges(o)
  BY <1>1, HookEndsCases DEF Undisturbed, Inv, RequestsOK, RequestOK
<1>3. PICK q \in Requests(Known, Key) :
              /\ Owned(q) /\ Route(i, q)
              /\ q.cookies = o.cookies /\ q.kind = o.kind /\ q.at = o.at
              /\ q.set.refresh = IF o.result # None THEN Sealed(o.result, keyOf[o.at]) ELSE None
  BY <1>1, HookEndsCases
<1>4. PICK r \in Requests(Known, Key) :
              /\ Owned(r) /\ r.cookies = q.cookies /\ r.kind = q.kind /\ r.at = q.at
              /\ r.set.refresh = CASE q.kind = "set" /\ q.user -> Sealed(q.body, keyOf[q.at])
                                   [] q.kind = "logout" -> None
                                   [] OTHER -> q.set.refresh
              /\ \/ Answers(i, r)
                 \/ Joins(i, r) /\ r.cookies.refresh # None /\ r.kind = "refresh"
  BY <1>2, <1>3, RouteCases
<1>5. r.set.refresh = IF o.result # None THEN Sealed(o.result, keyOf[o.at]) ELSE None
  BY <1>2, <1>3, <1>4
<1>6. CASE Answers(i, r)
  BY <1>2, <1>4, <1>5, <1>6, ResultLives
<1>7. CASE Joins(i, r) /\ r.cookies.refresh # None /\ r.kind = "refresh"
  <2> DEFINE token == o.cookies.refresh[1]
             key == <<r.at, token>>
  <2>1. ASSUME signedIn # None, L # 0, Living PROVE FALSE
    <3>1. o.result # None /\ o.cookies.refresh # None
      BY <1>2, <2>1 DEF Living, Lives, Exchanges
    <3>2. /\ token \in Known /\ o.result \in Known
          /\ o.result = Token(UserOf(token), GenOf(token) + 1)
      BY <1>1, <1>2, <3>1, RequestTokens DEF Exchanges
    <3>3. /\ GenOf(token) \in Nat /\ GenOf(o.result) = GenOf(token) + 1 /\ GenOf(o.result) <= L
          /\ L \in Nat /\ UserOf(token) = signedIn
      BY <1>1, <2>1, <3>2, OwnTokens DEF Token, GenOf
    <3>4. key \in DOMAIN flights
      <4>1. r.cookies.refresh[1] = token
        BY <1>3, <1>4
      <4>2. key \notin DOMAIN flights =>
               disturbed' = (disturbed \/ GenOf(token) # live[UserOf(token)]
                                       \/ ElsewhereInFlight(r.at, token))
        BY <1>7, <4>1 DEF Joins, FlightKey
      <4>3. GenOf(token) # live[UserOf(token)]
        BY <3>3
      <4> QED
        BY <4>2, <4>3
    <3>5. CASE GenOf(key[2]) = L
      BY <3>3, <3>5
    <3>6. CASE flights[key].new = Newest /\ Older(L)
      <4>1. GenOf(o.result) < L
        BY <1>2, <3>1, <3>6 DEF Older, OlderRequest
      <4>2. Newest # None
        BY DEF Newest, Token, None
      <4>3. flights[key].new = o.result
        BY <1>1, <3>2, <3>4, <3>6, <4>2 DEF Inv, FlightsOK, FlightOK
      <4>4. GenOf(o.result) = L
        BY <3>6, <4>3 DEF Newest, Token, GenOf
      <4> QED
        BY <3>3, <4>1, <4>4
    <3> QED
      BY <2>1, <3>4, <3>5, <3>6 DEF Living, NewestFlights
  <2>2. requests' = [requests EXCEPT ![i] = Joining(r)] /\ Joining(r).kind = "refresh"
    BY <1>7 DEF Joins, FlightKey, Joining, Requests
  <2>3. \A j \in DOMAIN requests' : requests'[j].kind # "logout"
    BY <1>1, <2>2 DEF Undisturbed
  <2>4. UNCHANGED <<signedIn, issued, live>>
    BY <1>2 DEF idpVars
  <2> QED
    BY <1>1, <2>1, <2>3, <2>4, UndisturbedStays
<1> QED
  BY <1>4, <1>6, <1>7

LEMMA RefreshEndLives ==
    ASSUME SessionInv, ~disturbed, NEW i, RefreshEnds(i)
    PROVE  Undisturbed'
<1>1. /\ i \in DOMAIN requests /\ requests[i].step = "resumed" /\ requests[i].kind # "set"
      /\ UNCHANGED <<keyOf, jar, signedIn, idpVars, logouts>>
  BY RefreshEndsCases DEF SessionInv
<1>2. PICK q \in Requests(Known, Key) :
                 /\ Owned(q) /\ Answers(i, q)
                 /\ q.set.refresh = IF requests[i].result # None
                                    THEN Sealed(requests[i].result, keyOf[requests[i].at])
                                    ELSE None
  BY RefreshEndsCases DEF SessionInv
<1> QED
  BY <1>1, <1>2, ResultLives

LEMMA SameLiving ==
    ASSUME Living, UNCHANGED <<signedIn, live, requests, flights>>, jar'.refresh = jar.refresh
    PROVE  Living'
BY DEF Living, Held, NewestFlights, Older, Newest

\* Who signs in while nothing is under way and no refresh cookie is left is the first one.
LEMMA LoginLives ==
    ASSUME SessionInv, NEW u \in Users, NEW p \in Replicas, NEW i, Login(u, p, i), ~disturbed'
    PROVE  Undisturbed'
<1> DEFINE token == Token(u, issued[u] + 1)
           q == Request(p, "set", jar', token)
<1>1. /\ requests = <<>> /\ jar.refresh = None /\ ~disturbed
      /\ live[u] = 0 /\ Cardinality(Issued) < MaxTokens /\ signedIn' = u
  BY DEF Login
<1>2. /\ Issues(i, q) /\ jar' = [jar EXCEPT !.access = token] /\ UNCHANGED flights
      /\ issued' = [issued EXCEPT ![u] = issued[u] + 1]
      /\ live' = [live EXCEPT ![u] = issued[u] + 1]
  BY DEF Login
<1>3. Inv /\ Undisturbed
  BY <1>1 DEF SessionInv
<1>4. DOMAIN requests = {}
  BY <1>1
<1>5. DOMAIN flights = {}
  BY <1>3, <1>4, FlightFacts
<1>6. signedIn = None
  <2>1. ~Held
    BY <1>1, <1>4, <1>5 DEF Held
  <2>2. Cardinality(Issued) # MaxTokens
    <3>1. Cardinality(Issued) \in Nat /\ MaxTokens \in Nat
      BY <1>3, FS_CardinalityType, TokenRefreshAssumption DEF Inv, ProviderOK
    <3> QED
      BY <1>1, <3>1
  <2> QED
    BY <1>3, <2>1, <2>2 DEF Undisturbed, Living
<1>7. /\ issued \in [Users -> Nat] /\ live \in [Users -> Nat] /\ \A v \in Users : issued[v] = 0
  BY <1>3, <1>6, TokenRefreshAssumption DEF Undisturbed, Inv, ProviderOK, None
<1>8. live'[u] = 1 /\ Newest' = token /\ \A v \in Users : v # u => issued'[v] = 0
  BY <1>1, <1>2, <1>7 DEF Newest
<1>9. DOMAIN requests' = {i} /\ requests'[i] = q
  BY <1>2, <1>4 DEF Issues, With
<1>10. /\ q.kind = "set" /\ q.body = token /\ q.step = "sent" /\ q.set.refresh = Keep
  BY DEF Request, Unset
<1> HIDE DEF q, token
<1>11. Living'
  <2>1. Held'
    BY <1>8, <1>9, <1>10 DEF Held, Carries
  <2>2. NewestFlights'
    BY <1>2, <1>5 DEF NewestFlights
  <2>3. \A j \in DOMAIN requests' : Lives(requests'[j])
    BY <1>9, <1>10, KeepFacts DEF Lives
  <2> QED
    BY <2>1, <2>2, <2>3 DEF Living
<1> QED
  BY <1>1, <1>8, <1>9, <1>10, <1>11 DEF Undisturbed

LEMMA SendLives ==
    ASSUME SessionInv, NEW p \in Replicas, NEW i, NEW kind \in Kinds \ {"set"},
           Send(p, i, kind), ~disturbed'
    PROVE  Undisturbed'
<1> DEFINE q == Request(p, kind, jar, None)
           L == live[signedIn]
<1>1. /\ Issues(i, q) /\ UNCHANGED <<jar, signedIn, flights, issued, live>>
  BY DEF Send
<1>2. kind # "logout" /\ ~disturbed
  BY DEF Send
<1>3. Undisturbed
  BY <1>2 DEF SessionInv
<1>4. /\ i \notin DOMAIN requests /\ DOMAIN requests' = DOMAIN requests \cup {i}
      /\ \A j \in DOMAIN requests' : requests'[j] = IF j = i THEN q ELSE requests[j]
  BY <1>1 DEF Issues, With
<1>5. /\ q.kind = kind /\ q.step = "sent" /\ q.set.refresh = Keep /\ q.result = None
      /\ q.cookies = jar
  BY DEF Request, Unset
<1> HIDE DEF q
<1>6. Lives(q)
  BY <1>5, KeepFacts DEF Lives
<1>7. Older(L) => OlderRequest(q, L)
  BY <1>5 DEF Older, OlderRequest
<1>8. Living => Living'
  BY <1>1, <1>4, <1>6, <1>7, LivingRequest
<1>9. \A j \in DOMAIN requests' : requests'[j].kind # "logout"
  BY <1>2, <1>3, <1>4, <1>5 DEF Undisturbed
<1> QED
  BY <1>1, <1>3, <1>8, <1>9, UndisturbedStays

LEMMA ExpiryLives ==
    ASSUME SessionInv, ~disturbed, (\E u \in Users : AccessExpires(u)) \/ SessionExpires
    PROVE  Undisturbed'
<1>1. Inv /\ Undisturbed
  BY DEF SessionInv
<1>2. UNCHANGED <<signedIn, requests, flights, issued, live>>
  BY DEF AccessExpires, SessionExpires, idpVars
<1>3. jar'.refresh = jar.refresh
  <2>1. jar' \in {jar, [jar EXCEPT !.access = None], [jar EXCEPT !.sess = None]}
    BY DEF AccessExpires, SessionExpires
  <2> QED
    BY <1>1, <2>1 DEF Inv, Cookies
<1>4. \A i \in DOMAIN requests' : requests'[i].kind # "logout"
  BY <1>1, <1>2 DEF Undisturbed
<1> QED
  BY <1>1, <1>2, <1>3, <1>4, SameLiving, UndisturbedStays

\* A response that is not overtaken brings the newest token or leaves the cookie alone.
LEMMA ReceiveLives ==
    ASSUME SessionInv, ~disturbed, NEW i, Receive(i), ~disturbed'
    PROVE  Undisturbed'
<1> DEFINE o == requests[i]
           L == live[signedIn]
           new == o.set.refresh
<1>1. Inv /\ Undisturbed
  BY DEF SessionInv
<1>2. /\ i \in DOMAIN requests /\ o.step = "answered"
      /\ jar' = [c \in DOMAIN jar |-> Replaced(jar[c], o.set[c])]
      /\ UNCHANGED <<signedIn, flights, issued, live>>
      /\ DOMAIN requests' = DOMAIN requests \ {i}
      /\ \A j \in DOMAIN requests' : requests'[j] = requests[j]
  BY DEF Receive, idpVars, Without
<1>3. new \notin {Keep, None} => GenOf(new[1]) = issued[UserOf(new[1])]
  BY DEF Receive
<1>4. jar'.refresh = Replaced(jar.refresh, new)
  BY <1>1, <1>2 DEF Inv, Cookies
<1>5. Newest' = Newest /\ Delivers(o, aged)
  BY <1>1, <1>2 DEF Newest, Inv, RequestsOK, RequestOK
<1>6. ASSUME signedIn # None, L # 0, Living PROVE Living'
  <2>1. new # None
    BY <1>2, <1>6 DEF Living, Lives
  <2>2. CASE new = Keep
    <3>1. jar'.refresh = jar.refresh
      BY <1>4, <2>2 DEF Replaced
    <3>2. ~Carries(o, Newest)
      BY <1>2, <1>5, <2>2 DEF Carries, Delivers
    <3>3. Held'
      <4>1. ASSUME NEW j \in DOMAIN requests, Carries(requests[j], Newest)
            PROVE  Held'
        <5>1. j \in DOMAIN requests' /\ requests'[j] = requests[j]
          BY <1>2, <3>2, <4>1
        <5> QED
          BY <1>5, <4>1, <5>1 DEF Held
      <4>2. (\E k \in DOMAIN flights : flights[k].new = Newest) => Held'
        BY <1>2, <1>5 DEF Held
      <4>3. jar.refresh # None /\ jar.refresh[1] = Newest => Held'
        BY <1>5, <3>1 DEF Held
      <4> QED
        BY <1>6, <4>1, <4>2, <4>3 DEF Living, Held
    <3>4. Older(L) => Older(L)'
      BY <1>2, <3>1 DEF Older
    <3>5. NewestFlights'
      BY <1>2, <1>5, <1>6, <3>4 DEF Living, NewestFlights
    <3>6. \A j \in DOMAIN requests' : Lives(requests'[j])
      BY <1>2, <1>6 DEF Living
    <3> QED
      BY <3>3, <3>5, <3>6 DEF Living
  <2>3. CASE new # Keep
    <3>1. new[1] \in Known
      BY <1>1, <1>2, <2>1, <2>3, RequestTokens
    <3>2. GenOf(new[1]) = L /\ L \in Nat /\ new[1] = Newest
      BY <1>1, <1>3, <1>6, <2>1, <2>3, <3>1, OwnTokens
    <3>3. jar'.refresh = new
      BY <1>4, <2>3 DEF Replaced
    <3>4. Held'
      BY <1>5, <2>1, <3>2, <3>3 DEF Held
    <3>5. ~Older(L)
      <4>1. OlderRequest(o, L) => GenOf(new[1]) < L
        BY <2>1, <2>3 DEF OlderRequest
      <4> QED
        BY <1>2, <3>2, <4>1 DEF Older
    <3>6. NewestFlights'
      BY <1>2, <1>6, <3>5 DEF Living, NewestFlights
    <3>7. \A j \in DOMAIN requests' : Lives(requests'[j])
      BY <1>2, <1>6 DEF Living
    <3> QED
      BY <3>4, <3>6, <3>7 DEF Living
  <2> QED
    BY <2>2, <2>3
<1>7. \A j \in DOMAIN requests' : requests'[j].kind # "logout"
  BY <1>1, <1>2 DEF Undisturbed
<1> QED
  BY <1>1, <1>2, <1>6, <1>7, UndisturbedStays

\* The newest token is exchanged for a newer one, or the session ends at the provider.
LEMMA ExchangeLives ==
    ASSUME SessionInv, Inv', ~disturbed, NEW k, IdpAnswers(k)
    PROVE  Undisturbed'
<1> DEFINE b == UserOf(k[2])
           g == GenOf(k[2])
           L == live[signedIn]
<1>1. Inv /\ Undisturbed
  BY DEF SessionInv
<1>2. /\ k \in DOMAIN flights /\ flights[k].state = "asked" /\ flights[k].token = k[2]
      /\ k[2] \in Known /\ UNCHANGED <<jar, signedIn, requests>>
  BY <1>1, FlightFacts DEF IdpAnswers
<1>3. /\ b = signedIn /\ signedIn \in Users /\ signedIn # None /\ g \in Nat /\ g > 0 /\ L \in Nat
      /\ L \in {0, issued[signedIn]}
  BY <1>1, <1>2, OwnTokens
<1>4. /\ issued \in [Users -> Nat] /\ live \in [Users -> Nat]
      /\ \A i \in DOMAIN requests' : requests'[i].kind # "logout"
  BY <1>1, <1>2 DEF Inv, ProviderOK, Undisturbed
<1>5. CASE L = 0
  <2>1. UNCHANGED <<issued, live>>
    BY <1>2, <1>3, <1>5 DEF IdpAnswers
  <2> QED
    BY <1>1, <1>2, <1>4, <1>5, <2>1, UndisturbedStays
<1>6. CASE L # 0
  <2>1. Living
    BY <1>1, <1>3, <1>6 DEF Undisturbed
  <2>2. /\ g = L /\ g = live[b] /\ \A j \in DOMAIN flights : j = k
    BY <1>2, <1>3, <2>1 DEF Living, NewestFlights
  <2>3. CASE Cardinality(Issued) = MaxTokens
    <3>1. UNCHANGED issued /\ live' = [live EXCEPT ![b] = 0]
      BY <1>2, <2>2, <2>3 DEF IdpAnswers
    <3>2. Issued' = Issued /\ live'[signedIn] = 0
      BY <1>3, <1>4, <3>1 DEF Issued
    <3> QED
      BY <1>1, <1>2, <1>4, <2>3, <3>1, <3>2 DEF Undisturbed
  <2>4. CASE Cardinality(Issued) # MaxTokens
    <3>1. /\ issued' = [issued EXCEPT ![b] = g + 1] /\ live' = [live EXCEPT ![b] = g + 1]
          /\ Landed(k, "won", Token(b, g + 1))
      BY <1>2, <2>2, <2>4 DEF IdpAnswers
    <3>2. /\ live'[signedIn] = g + 1 /\ Newest' = Token(b, g + 1)
          /\ \A u \in Users : u # signedIn => issued'[u] = issued[u]
      BY <1>2, <1>3, <1>4, <3>1 DEF Newest
    <3>3. /\ DOMAIN flights' = {k} /\ flights'[k].state = "won" /\ flights'[k].new = Newest'
      <4>1. flights[k] \in Flights(Known)
        BY <1>1, <1>2 DEF Inv, FlightsOK, FlightOK
      <4>2. /\ DOMAIN flights' = DOMAIN flights
            /\ flights'[k] = [flights[k] EXCEPT !.state = "won", !.new = Token(b, g + 1)]
        BY <1>2, <3>1 DEF Landed
      <4>3. flights'[k].state = "won" /\ flights'[k].new = Token(b, g + 1)
        BY <4>1, <4>2 DEF Flights
      <4> QED
        BY <1>2, <2>2, <3>2, <4>2, <4>3
    <3>4. \A t \in Known : GenOf(t) < live'[signedIn]
      BY <1>1, <1>3, <1>6, <2>2, <3>2, OwnTokens
    <3>5. Older(live'[signedIn])
      <4>1. jar.refresh # None => jar.refresh[1] \in Known
        BY <1>1, PairFacts DEF Inv, Cookies
      <4>2. \A i \in DOMAIN requests : OlderRequest(requests[i], live'[signedIn])
        BY <1>1, <3>4, RequestTokens DEF OlderRequest
      <4> QED
        BY <3>4, <4>1, <4>2 DEF Older
    <3>6. Living'
      <4>1. Held'
        BY <3>3 DEF Held
      <4>2. Older(live[signedIn])'
        BY <1>2, <3>5 DEF Older
      <4>3. NewestFlights'
        BY <3>3, <4>2 DEF NewestFlights
      <4>4. \A i \in DOMAIN requests' : Lives(requests'[i])
        BY <1>2, <2>1 DEF Living
      <4> QED
        BY <4>1, <4>3, <4>4 DEF Living
    <3>7. live'[signedIn'] # 0
      BY <1>2, <1>3, <3>2
    <3> QED
      BY <1>1, <1>2, <1>4, <3>2, <3>6, <3>7 DEF Undisturbed
  <2> QED
    BY <2>3, <2>4
<1> QED
  BY <1>5, <1>6

\* Who has waited for the exchange goes on with the newest token.
LEMMA FlightEndLives ==
    ASSUME SessionInv, ~disturbed, NEW k, FlightEnds(k)
    PROVE  Undisturbed'
<1> DEFINE L == live[signedIn]
<1>1. Inv /\ Undisturbed
  BY DEF SessionInv
<1>2. /\ k \in DOMAIN flights /\ flights[k].state # "asked" /\ flights' = Without(flights, k)
      /\ DOMAIN requests' = DOMAIN requests
      /\ \A i \in DOMAIN requests :
            requests'[i] = IF requests[i].step = "waiting" /\ requests[i].flight = k
                           THEN Resuming(requests[i], flights[k].new) ELSE requests[i]
      /\ UNCHANGED <<signedIn, issued, live>>
  BY DEF FlightEnds, idpVars, Resuming
<1>3. \A i \in DOMAIN requests :
         LET r == Resuming(requests[i], flights[k].new)
         IN  /\ r.kind = requests[i].kind /\ r.step = "resumed" /\ r.result = flights[k].new
             /\ r.set = requests[i].set
  BY <1>1 DEF Inv, RequestsOK, RequestOK, Requests, Resuming
<1>4. \A i \in DOMAIN requests' : requests'[i].kind # "logout"
  BY <1>1, <1>2, <1>3 DEF Undisturbed
<1>5. ASSUME signedIn # None, L # 0, Living PROVE Living'
  <2>1. flights[k].new = Newest /\ \A j \in DOMAIN flights : j = k
    BY <1>2, <1>5 DEF Living, NewestFlights
  <2>2. DOMAIN flights' = {}
    BY <1>2, <2>1 DEF Without
  <2>3. Newest' = Newest /\ Newest # None
    BY <1>2 DEF Newest, Token, None
  <2>4. Held'
    <3>1. PICK i \in DOMAIN requests : requests[i].flight = k
      BY <1>1, <1>2, FlightFacts
    <3>2. requests[i].step = "waiting"
      BY <1>1, <1>2, <3>1, FlightFacts DEF Inv, RequestsOK, RequestOK, Exchanges
    <3>3. requests'[i].step = "resumed" /\ requests'[i].result = Newest
      BY <1>2, <1>3, <2>1, <3>1, <3>2
    <3> QED
      BY <1>2, <2>3, <3>3 DEF Held, Carries
  <2>5. \A i \in DOMAIN requests' : Lives(requests'[i])
    <3> SUFFICES ASSUME NEW i \in DOMAIN requests PROVE Lives(requests'[i])
      BY <1>2
    <3>1. Lives(requests[i])
      BY <1>5 DEF Living
    <3>2. CASE requests[i].step = "waiting" /\ requests[i].flight = k
      <4>1. requests'[i].result = Newest /\ requests'[i].set = requests[i].set
        BY <1>2, <1>3, <2>1, <3>2
      <4> QED
        BY <2>3, <3>1, <4>1 DEF Lives
    <3>3. CASE ~(requests[i].step = "waiting" /\ requests[i].flight = k)
      BY <1>2, <3>1, <3>3
    <3> QED
      BY <3>2, <3>3
  <2>6. NewestFlights'
    BY <2>2 DEF NewestFlights
  <2> QED
    BY <2>4, <2>5, <2>6 DEF Living
<1> QED
  BY <1>1, <1>2, <1>4, <1>5, UndisturbedStays

LEMMA DisturbedStays == Inv /\ [Next]_vars /\ disturbed => disturbed'
<1> SUFFICES ASSUME Inv, [Next]_vars, disturbed PROVE disturbed'
  OBVIOUS
<1>1. ASSUME NEW i \in Slots, Served(i) PROVE disturbed'
  <2>1. ASSUME NEW r, Answers(i, r) PROVE disturbed'
    BY <2>1 DEF Answers
  <2>2. ASSUME NEW r, Joins(i, r) PROVE disturbed'
    BY <2>2 DEF Joins
  <2>3. ASSUME NEW r, Route(i, r), r.kind \in Kinds PROVE disturbed'
    BY <2>1, <2>2, <2>3 DEF Route, Kinds
  <2>4. \A q \in Requests(Known, Key) : q.kind \in Kinds
    BY DEF Requests
  <2>5. CASE Hook(i)
    BY <2>2, <2>3, <2>4, <2>5, HookCases
  <2>6. CASE HookEnds(i)
    BY <2>3, <2>4, <2>6, HookEndsCases
  <2>7. CASE RefreshEnds(i)
    BY <2>1, <2>7, RefreshEndsCases
  <2>8. CASE Receive(i)
    BY <2>8 DEF Receive
  <2> QED
    BY <1>1, <2>5, <2>6, <2>7, <2>8 DEF Served
<1>2. CASE \E p \in Replicas, i \in Slots :
             \/ \E u \in Users : Login(u, p, i)
             \/ \E kind \in Kinds \ {"set"} : Send(p, i, kind)
  BY <1>2 DEF Login, Send
<1>3. CASE (\E u \in Users : AccessExpires(u)) \/ SessionExpires
  BY <1>3 DEF AccessExpires, SessionExpires
<1>4. CASE \E k \in DOMAIN flights : Exchange(k) \/ IdpFails(k)
  BY <1>4 DEF Exchange, IdpAnswers, IdpFails, FlightEnds
<1>5. CASE UNCHANGED vars
  BY <1>5 DEF vars
<1> QED
  BY <1>1, <1>2, <1>3, <1>4, <1>5 DEF Next

LEMMA InitSession == Init => SessionInv
<1> SUFFICES ASSUME Init PROVE SessionInv
  OBVIOUS
<1>1. Inv
  BY InitInv
<1>2. Undisturbed
  BY DEF Init, Undisturbed
<1> QED
  BY <1>1, <1>2 DEF SessionInv

LEMMA StepSession == SessionInv /\ [Next]_vars => SessionInv'
<1> SUFFICES ASSUME SessionInv, [Next]_vars PROVE SessionInv'
  OBVIOUS
<1>1. Inv /\ Inv' /\ (~disturbed' => ~disturbed)
  BY StepInv, DisturbedStays DEF SessionInv
<1> SUFFICES ASSUME ~disturbed, ~disturbed' PROVE Undisturbed'
  BY <1>1 DEF SessionInv
<1>2. ASSUME NEW p \in Replicas, NEW i \in Slots, NEW u \in Users, Login(u, p, i)
      PROVE  Undisturbed'
  BY <1>2, LoginLives
<1>3. ASSUME NEW p \in Replicas, NEW i \in Slots, NEW kind \in Kinds \ {"set"}, Send(p, i, kind)
      PROVE  Undisturbed'
  BY <1>3, SendLives
<1>4. CASE (\E u \in Users : AccessExpires(u)) \/ SessionExpires
  BY <1>4, ExpiryLives
<1>5. ASSUME NEW i \in Slots, Served(i)
      PROVE  Undisturbed'
  BY <1>5, HookLives, HookEndLives, RefreshEndLives, ReceiveLives DEF Served
<1>6. ASSUME NEW k \in DOMAIN flights, Exchange(k)
      PROVE  Undisturbed'
  BY <1>1, <1>6, ExchangeLives, FlightEndLives DEF Exchange
<1>7. ASSUME NEW k \in DOMAIN flights, IdpFails(k)
      PROVE  FALSE
  BY <1>7 DEF IdpFails
<1>8. CASE UNCHANGED vars
  <2>1. UNCHANGED <<jar, signedIn, requests, flights, issued, live>> /\ Undisturbed
    BY <1>8 DEF vars, SessionInv
  <2>2. \A i \in DOMAIN requests' : requests'[i].kind # "logout"
    BY <2>1 DEF Undisturbed
  <2> QED
    BY <2>1, <2>2, SameLiving, UndisturbedStays
<1> QED
  BY <1>2, <1>3, <1>4, <1>5, <1>6, <1>7, <1>8 DEF Next

LEMMA SessionKept == SessionInv => CoalescingKeepsSession
<1> SUFFICES ASSUME SessionInv, ~disturbed, signedIn # None, live[signedIn] # 0, requests = <<>>
             PROVE  Holds(signedIn)
  BY DEF CoalescingKeepsSession, KeepsSession
<1>1. Inv /\ Held
  BY DEF SessionInv, Undisturbed, Living
<1>2. DOMAIN requests = {} /\ DOMAIN flights = {}
  BY <1>1, FlightFacts
<1> QED
  BY <1>1, <1>2 DEF Held, Holds, Newest

\* Whatever the number of requests, replicas and exchanges and the order in which answers reach
\* the browser: when nothing disturbs it, the browser ends with the refresh token that is valid
\* at the provider (auth.ts:288-353, proxy-auth.ts:241-283, ADR-023).
THEOREM CoalescingKeepsSessionHolds == Spec => []CoalescingKeepsSession
<1>1. Init => SessionInv
  BY InitSession
<1>2. SessionInv /\ [Next]_vars => SessionInv'
  BY StepSession
<1>3. SessionInv => CoalescingKeepsSession
  BY SessionKept
<1> QED
  BY <1>1, <1>2, <1>3, PTL DEF Spec

=============================================================================
