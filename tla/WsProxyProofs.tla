--------------------------- MODULE WsProxyProofs ----------------------------
(***************************************************************************)
(* Proofs about WsProxy, the verification of tokens it contains and the    *)
(* decision it shares with the HTTP proxy, for any callers, workspaces,    *)
(* key sets, time to live of the cache and interleaving of verifications.  *)
(***************************************************************************)
EXTENDS WsProxy, SequenceTheorems, WellFoundedInduction, TLAPS

-----------------------------------------------------------------------------
(* The cached key set. *)

\* What the keys in a lookup or in the cache are known to be newer than: every change
\* before the request for them was made.
NewerThan(keys, time) == \A i \in DOMAIN rotations : rotations[i] < time => keys > i

\* Neither the cache nor an answer on its way misses a change that was there when the
\* request began; a lookup that is done has keys no older than the cache's life.
KeysInv ==
    /\ KeysTypeOK
    /\ \A i \in DOMAIN rotations : rotations[i] <= now
    /\ jwksCache.at <= now
    /\ jwksCache.keys # 0 => NewerThan(jwksCache.keys, jwksCache.at)
    /\ \A v \in Verifiers :
          /\ lookups[v].start <= now
          /\ lookups[v].step = "answer" => NewerThan(lookups[v].keys, lookups[v].start)
    /\ KeysFresh

LEMMA KeysInitially == KeysInit => KeysInv
<1> SUFFICES ASSUME KeysInit PROVE KeysInv
  OBVIOUS
<1>1. KeysTypeOK
  BY VerificationAssumption DEF KeysInit, KeysTypeOK, NoLookup, LookupState
<1>2. DOMAIN rotations = {}
  BY DEF KeysInit
<1>3. \A v \in Verifiers : lookups[v] = NoLookup
  BY DEF KeysInit
<1>4. now \in Nat /\ jwksCache.at = 0
  BY <1>1 DEF KeysInit, KeysTypeOK
<1> QED
  BY <1>1, <1>2, <1>3, <1>4 DEF KeysInit, KeysInv, KeysFresh, NoLookup, NewerThan

LEMMA KeysTypes ==
    ASSUME KeysTypeOK
    PROVE  /\ now \in Nat /\ failures \in Nat /\ Ttl \in Nat /\ Ttl > 0
           /\ Len(rotations) \in Nat /\ DOMAIN rotations = 1..Len(rotations)
           /\ \A i \in DOMAIN rotations : i \in Nat /\ rotations[i] \in Nat
           /\ jwksCache \in [keys : Nat, at : Nat]
           /\ jwksCache.keys \in Nat /\ jwksCache.at \in Nat
           /\ DOMAIN lookups = Verifiers
           /\ \A v \in Verifiers : /\ lookups[v] \in LookupState
                                   /\ lookups[v].start \in Nat /\ lookups[v].keys \in Nat
BY VerificationAssumption, LenProperties DEF KeysTypeOK, LookupState

\* A verifier's lookup changes, and nothing but it and perhaps the cache.
LEMMA LookupChanges ==
    ASSUME KeysInv, NEW v \in Verifiers, NEW l \in LookupState,
           lookups' = [lookups EXCEPT ![v] = l], UNCHANGED <<now, rotations>>, failures' \in Nat,
           l.start <= now,
           l.step = "answer" => NewerThan(l.keys, l.start),
           l.step = "done" /\ ~l.failed =>
               \A i \in DOMAIN rotations : rotations[i] + Ttl <= l.start => l.keys > i,
           \/ jwksCache' = jwksCache
           \/ /\ jwksCache' = [keys |-> l.keys, at |-> l.start]
              /\ NewerThan(l.keys, l.start)
    PROVE  KeysInv'
<1>1. \A u \in Verifiers : lookups'[u] = IF u = v THEN l ELSE lookups[u]
  BY KeysTypes DEF KeysInv
<1>2. KeysTypeOK'
  BY KeysTypes DEF KeysInv, KeysTypeOK, LookupState
<1>3. jwksCache'.at <= now /\ (jwksCache'.keys # 0 => NewerThan(jwksCache'.keys, jwksCache'.at))
  BY DEF KeysInv
<1>4. KeysFresh'
  BY <1>1 DEF KeysInv, KeysFresh
<1>5. \A u \in Verifiers :
         /\ lookups'[u].start <= now
         /\ lookups'[u].step = "answer" => NewerThan(lookups'[u].keys, lookups'[u].start)
  BY <1>1 DEF KeysInv
<1> QED
  BY <1>2, <1>3, <1>4, <1>5 DEF KeysInv, NewerThan

LEMMA LookupKeeps ==
    ASSUME KeysInv, NEW v \in Verifiers, Lookup(v)
    PROVE  KeysInv'
<1> DEFINE l == [step |-> IF Fresh THEN "done" ELSE "fetch", start |-> now,
                 keys |-> IF Fresh THEN jwksCache.keys ELSE 0, failed |-> FALSE]
<1>1. /\ lookups' = [lookups EXCEPT ![v] = l]
      /\ UNCHANGED <<now, rotations, jwksCache, failures>>
  BY DEF Lookup
<1>2. l \in LookupState /\ l.start <= now /\ l.step # "answer" /\ failures' \in Nat
  BY <1>1, KeysTypes DEF KeysInv, LookupState
<1>3. ASSUME l.step = "done", NEW i \in DOMAIN rotations, rotations[i] + Ttl <= l.start
      PROVE  l.keys > i
  <2>1. Fresh
    BY <1>3
  <2>2. rotations[i] < jwksCache.at
    BY <1>3, <2>1, KeysTypes DEF Fresh, KeysInv
  <2> QED
    BY <2>1, <2>2 DEF Fresh, KeysInv, NewerThan
<1> HIDE DEF l
<1> QED
  BY <1>1, <1>2, <1>3, LookupChanges

LEMMA ForgetKeeps ==
    ASSUME KeysInv, NEW v \in Verifiers, Forget(v), UNCHANGED <<now, rotations, jwksCache, failures>>
    PROVE  KeysInv'
<1>1. NoLookup \in LookupState /\ NoLookup.start <= now /\ NoLookup.step = "idle" /\ failures' \in Nat
  BY KeysTypes DEF KeysInv, NoLookup, LookupState
<1> QED
  BY <1>1, LookupChanges DEF Forget

LEMMA FetchKeeps ==
    ASSUME KeysInv, NEW v \in Verifiers, FetchKeys(v)
    PROVE  KeysInv'
<1>1. lookups[v] \in LookupState /\ lookups[v].start <= now /\ lookups[v].start \in Nat
  BY KeysTypes DEF KeysInv
<1>2. CASE ProviderReads(v)
  <2> DEFINE l == [lookups[v] EXCEPT !.step = "answer", !.keys = Published]
  <2>1. lookups' = [lookups EXCEPT ![v] = l] /\ UNCHANGED <<now, rotations, jwksCache, failures>>
    BY <1>2 DEF ProviderReads
  <2>2. Published \in Nat /\ Published = Len(rotations) + 1 /\ failures' \in Nat
    BY <2>1, KeysTypes DEF KeysInv, Published
  <2>3. /\ l \in LookupState /\ l.step = "answer" /\ l.keys = Published
        /\ l.start = lookups[v].start
    BY <1>1, <2>2 DEF LookupState
  <2>4. NewerThan(l.keys, l.start)
    BY <2>2, <2>3, KeysTypes DEF KeysInv, NewerThan
  <2> HIDE DEF l
  <2> QED
    BY <1>1, <2>1, <2>2, <2>3, <2>4, LookupChanges
<1>3. CASE AnswerArrives(v)
  <2> DEFINE l == [lookups[v] EXCEPT !.step = "done"]
  <2>1. /\ lookups' = [lookups EXCEPT ![v] = l] /\ UNCHANGED <<now, rotations, failures>>
        /\ jwksCache' = [keys |-> lookups[v].keys, at |-> lookups[v].start]
        /\ lookups[v].step = "answer"
    BY <1>3 DEF AnswerArrives
  <2>2. /\ l \in LookupState /\ l.step = "done" /\ l.keys = lookups[v].keys
        /\ l.start = lookups[v].start /\ failures' \in Nat
    BY <1>1, <2>1, KeysTypes DEF KeysInv, LookupState
  <2>3. NewerThan(l.keys, l.start)
    BY <2>1, <2>2 DEF KeysInv, NewerThan
  <2>4. \A i \in DOMAIN rotations : rotations[i] + Ttl <= l.start => l.keys > i
    BY <1>1, <2>2, <2>3, KeysTypes DEF KeysInv, NewerThan
  <2> HIDE DEF l
  <2> QED
    BY <1>1, <2>1, <2>2, <2>3, <2>4, LookupChanges
<1> QED
  BY <1>2, <1>3 DEF FetchKeys

LEMMA FailureKeeps ==
    ASSUME KeysInv, NEW v \in Verifiers, FetchFails(v)
    PROVE  KeysInv'
<1>1. PICK keys \in {jwksCache.keys, 0} :
         lookups' = [lookups EXCEPT ![v].step = "done", ![v].keys = keys, ![v].failed = TRUE]
  BY DEF FetchFails
<1> DEFINE l == [lookups[v] EXCEPT !.step = "done", !.keys = keys, !.failed = TRUE]
<1>2. lookups' = [lookups EXCEPT ![v] = l] /\ UNCHANGED <<now, rotations, jwksCache>>
  BY <1>1 DEF FetchFails
<1>3. /\ lookups[v] \in LookupState /\ keys \in Nat /\ lookups[v].start <= now /\ failures' \in Nat
  BY KeysTypes DEF KeysInv, FetchFails
<1>4. l \in LookupState /\ l.step = "done" /\ l.failed /\ l.start = lookups[v].start
  BY <1>3 DEF LookupState
<1> HIDE DEF l
<1> QED
  BY <1>2, <1>3, <1>4, LookupChanges

\* A change of the keys is later than all requests made so far.
LEMMA ClockKeeps ==
    ASSUME KeysInv, Tick \/ Rotate
    PROVE  KeysInv'
<1>1. CASE Tick
  <2>1. KeysTypeOK'
    BY <1>1 DEF Tick, KeysInv, KeysTypeOK
  <2>2. now' = now + 1 /\ UNCHANGED <<rotations, jwksCache, lookups>>
    BY <1>1 DEF Tick
  <2> QED
    BY <2>1, <2>2, KeysTypes DEF KeysInv, KeysFresh, NewerThan
<1>2. CASE Rotate
  <2>1. rotations' = Append(rotations, now) /\ UNCHANGED <<now, jwksCache, lookups, failures>>
    BY <1>2 DEF Rotate
  <2>2. rotations \in Seq(Nat) /\ now \in Nat
    BY DEF KeysInv, KeysTypeOK
  <2>3. /\ rotations' \in Seq(Nat)
        /\ \A i \in DOMAIN rotations' :
              rotations'[i] = now \/ (i \in DOMAIN rotations /\ rotations'[i] = rotations[i])
    BY <2>1, <2>2, AppendProperties
  <2>4. KeysTypeOK'
    BY <2>1, <2>3 DEF KeysInv, KeysTypeOK
  <2>5. \A i \in DOMAIN rotations' : rotations'[i] <= now
    BY <2>2, <2>3 DEF KeysInv
  <2>6. ASSUME NEW keys, NEW time \in Nat, time <= now, NewerThan(keys, time)
        PROVE  \A i \in DOMAIN rotations' : rotations'[i] < time => keys > i
    BY <2>2, <2>3, <2>6, KeysTypes DEF KeysInv, NewerThan
  <2>7. KeysFresh'
    <3> SUFFICES ASSUME NEW v \in Verifiers, lookups[v].step = "done" /\ ~lookups[v].failed,
                        NEW i \in DOMAIN rotations', rotations'[i] + Ttl <= lookups[v].start
                 PROVE  lookups[v].keys > i
      BY <2>1 DEF KeysFresh
    <3>1. rotations'[i] # now
      BY <2>2, KeysTypes DEF KeysInv
    <3> QED
      BY <2>3, <3>1 DEF KeysInv, KeysFresh
  <2> QED
    BY <2>1, <2>4, <2>5, <2>6, <2>7, KeysTypes DEF KeysInv, NewerThan
<1> QED
  BY <1>1, <1>2

-----------------------------------------------------------------------------
(* What the client sends. *)

In(i, data) == \E j \in DOMAIN data : data[j] = i

LEMMA InConcat ==
    ASSUME NEW S, NEW s \in Seq(S), NEW t \in Seq(S)
    PROVE  \A i : In(i, s) \/ In(i, t) => In(i, s \o t)
<1>1. /\ s \o t \in Seq(S) /\ Len(s \o t) = Len(s) + Len(t)
      /\ \A j \in 1..Len(s) : (s \o t)[j] = s[j]
      /\ \A j \in 1..Len(t) : (s \o t)[Len(s) + j] = t[j]
  BY ConcatProperties
<1>2. /\ Len(s) \in Nat /\ Len(t) \in Nat /\ DOMAIN s = 1..Len(s) /\ DOMAIN t = 1..Len(t)
      /\ DOMAIN (s \o t) = 1..(Len(s) + Len(t))
  BY <1>1, LenProperties
<1>3. /\ \A j \in DOMAIN s : j \in DOMAIN (s \o t)
      /\ \A j \in DOMAIN t : Len(s) + j \in DOMAIN (s \o t)
  BY <1>2
<1> HIDE DEF In
<1>4. ASSUME NEW i, In(i, s) PROVE In(i, s \o t)
  BY <1>1, <1>2, <1>3, <1>4 DEF In
<1>5. ASSUME NEW i, In(i, t) PROVE In(i, s \o t)
  <2>1. PICK j \in DOMAIN t : t[j] = i
    BY <1>5 DEF In
  <2>2. (s \o t)[Len(s) + j] = i
    BY <1>1, <1>2, <2>1
  <2> QED
    BY <1>3, <2>1, <2>2 DEF In
<1> QED
  BY <1>4, <1>5

LEMMA InAppend ==
    ASSUME NEW S, NEW s \in Seq(S), NEW e \in S
    PROVE  In(e, Append(s, e)) /\ \A i : In(i, s) => In(i, Append(s, e))
<1>1. /\ Append(s, e) \in Seq(S) /\ Len(Append(s, e)) = Len(s) + 1
      /\ \A j \in 1..Len(s) : Append(s, e)[j] = s[j]
      /\ Append(s, e)[Len(s) + 1] = e
  BY AppendProperties
<1>2. /\ Len(s) \in Nat /\ DOMAIN s = 1..Len(s) /\ DOMAIN Append(s, e) = 1..(Len(s) + 1)
  BY <1>1, LenProperties
<1>3. Len(s) + 1 \in DOMAIN Append(s, e) /\ \A j \in DOMAIN s : j \in DOMAIN Append(s, e)
  BY <1>2
<1> QED
  BY <1>1, <1>2, <1>3 DEF In

LEMMA SameRange ==
    ASSUME NEW m \in Nat, NEW n \in Nat, 1..m = 1..n
    PROVE  m = n
<1>1. (m \in 1..m \/ m = 0) /\ (n \in 1..n \/ n = 0)
  OBVIOUS
<1> QED
  BY <1>1

\* Up to the connection everything is in the buffer, or written ahead of the request; the
\* pod cannot answer yet, so that a client that waits has sent nothing.
Delivery ==
    /\ stage = "none" => client = "none"
    /\ stage \in {"none", "listing", "verifying", "introspecting"} =>
          written = <<>> /\ \A i \in 1..chunks : In(i, clientBuffer)
    /\ upstream = "connecting" => \A i \in 1..chunks : In(i, clientBuffer) \/ In(i, written)
    /\ upstream \in {"none", "connecting"} => ~answered
    /\ head => chunks > 0
    /\ patient /\ ~answered =>
          /\ chunks = 0 /\ ~head /\ clientBuffer = <<>>
          /\ upstream \in {"none", "connecting"} => written = <<>>
    /\ BytesDelivered

WsInv == TypeOK /\ KeysInv /\ Delivery

LEMMA WsTypes ==
    ASSUME WsInv
    PROVE  /\ setup \in Setups /\ setup.chunks \in Nat /\ chunks \in Nat /\ chunks <= setup.chunks
           /\ clientBuffer \in Seq(1..setup.chunks) /\ written \in Seq(0..setup.chunks)
           /\ Ws \in Verifiers /\ lookups \in [Verifiers -> LookupState]
BY WsAssumption DEF WsInv, TypeOK, KeysTypeOK

LEMMA WsInit == Init => WsInv
<1> SUFFICES ASSUME Init PROVE WsInv
  OBVIOUS
<1>1. KeysInv /\ KeysTypeOK
  BY KeysInitially DEF Init, KeysInv
<1>2. setup.chunks \in Nat /\ Ws \in Verifiers
  BY WsAssumption DEF Init
<1>3. lookups[Ws].step = "idle"
  BY <1>2 DEF Init, KeysInit, NoLookup
<1>4. asked \in [token : Callers \cup {NoToken}, pods : Listings] /\ asked.pods = <<>>
  BY ListingsAssumption DEF Init, Nothing
<1>5. clientBuffer \in Seq(1..setup.chunks) /\ written \in Seq(0..setup.chunks)
  BY EmptySeq DEF Init
<1>6. chunks \in 0..setup.chunks /\ {head, patient, answered} \subseteq BOOLEAN
  <2>1. chunks \in 0..setup.chunks
    BY <1>2 DEF Init
  <2> QED
    BY <2>1 DEF Init
<1>7. TypeOK
  BY <1>1, <1>2, <1>3, <1>4, <1>5, <1>6 DEF Init, TypeOK
<1>8. Delivery
  BY DEF Init, Delivery, BytesDelivered
<1> QED
  BY <1>1, <1>7, <1>8 DEF WsInv

LEMMA UpgradeStep ==
    ASSUME WsInv, Upgrade
    PROVE  TypeOK' /\ Delivery'
<1>1. /\ stage = "none" /\ stage' = "listing" /\ client' = "open" /\ upstream = "none"
      /\ UNCHANGED <<setup, keyVars, upstream, written, patient, answered>>
      /\ written = <<>> /\ ~answered
  BY DEF Upgrade, WsInv, TypeOK, Delivery
<1>2. asked' \in [token : Callers \cup {NoToken}, pods : Listings] /\ asked'.pods = <<>>
  BY ListingsAssumption DEF Upgrade, Nothing
<1>3. /\ head' \in BOOLEAN /\ (patient => ~head')
      /\ \/ ~head' /\ chunks' = 0 /\ clientBuffer' = <<>>
         \/ head' /\ setup.chunks # 0 /\ chunks' = 1 /\ clientBuffer' = <<1>>
  BY DEF Upgrade
<1>4. /\ chunks' \in 0..setup.chunks /\ clientBuffer' \in Seq(1..setup.chunks)
      /\ \A i \in 1..chunks' : In(i, clientBuffer')
  <2>1. CASE chunks' = 0 /\ clientBuffer' = <<>>
    BY <2>1, WsTypes
  <2>2. CASE setup.chunks # 0 /\ chunks' = 1 /\ clientBuffer' = <<1>>
    <3>1. 1 \in 1..setup.chunks
      BY <2>2, WsTypes
    <3>2. <<1>> \in Seq(1..setup.chunks)
      BY <3>1
    <3> QED
      BY <2>2, <3>1, <3>2, WsTypes DEF In
  <2> QED
    BY <1>3, <2>1, <2>2
<1>5. TypeOK'
  <2>1. KeysTypeOK' /\ lookups'[Ws].step = "idle"
    BY <1>1 DEF keyVars, WsInv, TypeOK, KeysTypeOK
  <2> QED
    BY <1>1, <1>2, <1>3, <1>4, <2>1 DEF WsInv, TypeOK
<1>6. Delivery'
  BY <1>1, <1>3, <1>4 DEF Delivery, BytesDelivered
<1> QED
  BY <1>5, <1>6

\* The handler's ways out, once its lookup is over.
LEMMA RefuseStep ==
    ASSUME WsInv, KeysTypeOK', UNCHANGED setup, lookups'[Ws].step = "idle",
           stage \in {"listing", "verifying", "introspecting"}, Refuse
    PROVE  TypeOK' /\ Delivery'
<1>1. /\ upstream = "none" /\ stage' = "refused" /\ client' = "closed" /\ clientBuffer' = <<>>
      /\ UNCHANGED <<upstream, written, head, patient, chunks, answered>>
  BY DEF Refuse, WsInv, TypeOK
<1>2. asked' \in [token : Callers \cup {NoToken}, pods : Listings] /\ asked'.pods = <<>>
  BY ListingsAssumption DEF Refuse, Nothing
<1>3. TypeOK'
  BY <1>1, <1>2 DEF WsInv, TypeOK
<1>4. Delivery'
  BY <1>1 DEF WsInv, Delivery, BytesDelivered
<1> QED
  BY <1>3, <1>4

LEMMA ConnectStep ==
    ASSUME WsInv, KeysTypeOK', UNCHANGED setup, lookups'[Ws].step = "idle",
           stage \in {"listing", "verifying", "introspecting"},
           NEW claims, NEW pods, Connect(claims, pods)
    PROVE  TypeOK' /\ Delivery'
<1>1. CASE Refuse
  BY <1>1, RefuseStep
<1>2. CASE ~Refuse
  <2>1. /\ asked' = Nothing
        /\ UNCHANGED <<clientBuffer, written, head, patient, chunks, answered>>
        /\ \/ stage' = "tunnel" /\ upstream' = "connecting" /\ UNCHANGED client
           \/ stage' = "crashed" /\ client' = "closed" /\ UNCHANGED upstream
    BY <1>2 DEF Connect, Close
  <2>2. asked' \in [token : Callers \cup {NoToken}, pods : Listings] /\ asked'.pods = <<>>
    BY <2>1, ListingsAssumption DEF Nothing
  <2>3. TypeOK'
    BY <2>1, <2>2 DEF WsInv, TypeOK
  <2>4. upstream = "none" /\ \A i \in 1..chunks : In(i, clientBuffer)
    BY DEF WsInv, TypeOK, Delivery
  <2>5. Delivery'
    BY <2>1, <2>4 DEF WsInv, Delivery, BytesDelivered, In
  <2> QED
    BY <2>3, <2>5
<1> QED
  BY <1>1, <1>2

LEMMA DecideStep ==
    ASSUME WsInv, KeysTypeOK', UNCHANGED setup, lookups'[Ws].step = "idle",
           stage \in {"verifying", "introspecting"}, NEW verified, Decide(verified)
    PROVE  TypeOK' /\ Delivery'
BY RefuseStep, ConnectStep DEF Decide

LEMMA HandlerStep ==
    ASSUME WsInv, KeysTypeOK', Handler
    PROVE  TypeOK' /\ Delivery'
<1>1. UNCHANGED setup /\ Ws \in Verifiers /\ DOMAIN lookups = Verifiers
  BY WsTypes DEF Handler, Resolve, Introspect, VerifyBegins, VerifyEnds
<1>2. ASSUME UNCHANGED <<tunnelVars, lookups>>, stage = "listing",
             stage' \in {"introspecting", "verifying"},
             NEW pods \in Listings \ {<<>>}, asked' = [asked EXCEPT !.pods = pods]
      PROVE  TypeOK' /\ Delivery'
  <2>1. asked' \in [token : Callers \cup {NoToken}, pods : Listings] /\ asked'.pods # <<>>
    BY <1>2 DEF WsInv, TypeOK
  <2>2. upstream = "none" /\ lookups[Ws].step = "idle"
    BY <1>2 DEF WsInv, TypeOK
  <2>3. TypeOK'
    BY <1>1, <1>2, <2>1, <2>2 DEF tunnelVars, WsInv, TypeOK
  <2> QED
    BY <1>2, <2>3 DEF tunnelVars, WsInv, Delivery, BytesDelivered, In
<1>3. CASE Resolve
  <2>1. stage = "listing" /\ lookups' = lookups /\ lookups[Ws].step = "idle"
    BY <1>3 DEF Resolve, keyVars, WsInv, TypeOK
  <2>2. \/ Refuse
        \/ \E pods \in Listings \ {<<>>} :
              \/ Connect(NoClaims, pods)
              \/ /\ asked' = [asked EXCEPT !.pods = pods] /\ UNCHANGED tunnelVars
                 /\ stage' \in {"introspecting", "verifying"}
    BY <1>3 DEF Resolve
  <2> QED
    BY <1>1, <1>2, <2>1, <2>2, RefuseStep, ConnectStep
<1>4. CASE Introspect
  <2>1. stage = "introspecting" /\ lookups' = lookups /\ lookups[Ws].step = "idle"
    BY <1>4 DEF Introspect, keyVars, WsInv, TypeOK
  <2>2. Refuse \/ Decide(Introspected(asked.token))
    BY <1>4 DEF Introspect
  <2> QED
    BY <1>1, <2>1, <2>2, RefuseStep, DecideStep
<1>5. CASE VerifyBegins
  <2>1. stage = "verifying" /\ lookups[Ws].step = "idle"
    BY <1>5 DEF VerifyBegins
  <2>2. \/ lookups' = lookups /\ \E verified : Decide(verified)
        \/ UNCHANGED <<stage, asked, tunnelVars>>
    BY <1>5 DEF VerifyBegins, keyVars
  <2>3. CASE lookups' = lookups /\ \E verified : Decide(verified)
    BY <1>1, <2>1, <2>3, DecideStep
  <2>4. CASE UNCHANGED <<stage, asked, tunnelVars>>
    BY <1>1, <2>1, <2>4 DEF tunnelVars, WsInv, TypeOK, Delivery, BytesDelivered, In
  <2> QED
    BY <2>2, <2>3, <2>4
<1>6. CASE VerifyEnds
  <2>1. stage = "verifying" /\ lookups'[Ws].step = "idle"
    BY <1>1, <1>6 DEF VerifyEnds, Forget, NoLookup
  <2>2. \E verified : Decide(verified)
    BY <1>6 DEF VerifyEnds
  <2> QED
    BY <1>1, <2>1, <2>2, DecideStep
<1> QED
  BY <1>3, <1>4, <1>5, <1>6 DEF Handler

LEMMA SendStep ==
    ASSUME WsInv, ClientSends
    PROVE  TypeOK' /\ Delivery'
<1>1. /\ client = "open" /\ chunks < setup.chunks /\ (patient => answered) /\ chunks' = chunks + 1
      /\ UNCHANGED <<setup, stage, asked, keyVars, client, upstream, head, patient, answered>>
  BY DEF ClientSends
<1>2. /\ chunks \in Nat /\ setup.chunks \in Nat /\ chunks' \in 1..setup.chunks
      /\ clientBuffer \in Seq(1..setup.chunks) /\ written \in Seq(0..setup.chunks)
      /\ chunks' \in 0..setup.chunks
  BY <1>1, WsTypes
<1>3. CASE upstream \in {"connecting", "open"}
  <2>1. written' = Append(written, chunks') /\ clientBuffer' = clientBuffer
    BY <1>3 DEF ClientSends
  <2>2. /\ written' \in Seq(0..setup.chunks) /\ Len(written') = Len(written) + 1
        /\ \A j \in 1..Len(written) : written'[j] = written[j]
        /\ written'[Len(written) + 1] = chunks'
    BY <1>2, <2>1, AppendProperties
  <2>3. /\ Len(written) \in Nat /\ DOMAIN written = 1..Len(written)
        /\ DOMAIN written' = 1..(Len(written) + 1)
    BY <1>2, <2>2, LenProperties
  <2>4. \A i \in 1..chunks' : i = chunks' \/ i \in 1..chunks
    BY <1>1, <1>2
  <2>5. In(chunks', written') /\ \A i : In(i, written) => In(i, written')
    BY <1>2, <2>1, InAppend
  <2>6. TypeOK'
    BY <1>1, <1>2, <2>1, <2>2 DEF keyVars, WsInv, TypeOK, KeysTypeOK
  <2>7. upstream = "open" => \A i \in 1..chunks' : In(i, written')
    BY <2>4, <2>5 DEF WsInv, Delivery, BytesDelivered, In
  <2>8. upstream = "connecting" => \A i \in 1..chunks' : In(i, clientBuffer') \/ In(i, written')
    BY <2>1, <2>4, <2>5 DEF WsInv, Delivery, In
  <2>9. ASSUME upstream = "open", patient
        PROVE  written' = [j \in 1..(chunks' + 1) |-> j - 1]
    <3>1. written = [j \in 1..(chunks + 1) |-> j - 1]
      BY <2>9 DEF WsInv, Delivery, BytesDelivered
    <3>2. 1..Len(written) = 1..(chunks + 1)
      BY <2>3, <3>1
    <3>3. Len(written) = chunks + 1
      <4>1. chunks + 1 \in Nat
        BY <1>2
      <4> QED
        BY <2>3, <3>2, <4>1, SameRange
    <3>4. \A j \in 1..(chunks' + 1) : written'[j] = j - 1
      BY <1>1, <1>2, <2>2, <3>1, <3>3
    <3> QED
      BY <1>1, <1>2, <2>2, <2>3, <3>3, <3>4, LenProperties
  <2>10. BytesDelivered'
    BY <1>1, <2>7, <2>9 DEF BytesDelivered, In
  <2>11. stage \notin {"none", "listing", "verifying", "introspecting"}
    BY <1>3 DEF WsInv, TypeOK
  <2> QED
    BY <1>1, <1>2, <1>3, <2>6, <2>8, <2>10, <2>11 DEF WsInv, Delivery
<1>4. CASE upstream \notin {"connecting", "open"}
  <2>1. clientBuffer' = Append(clientBuffer, chunks') /\ written' = written
    BY <1>4 DEF ClientSends
  <2>2. /\ clientBuffer' \in Seq(1..setup.chunks) /\ Len(clientBuffer') = Len(clientBuffer) + 1
        /\ \A j \in 1..Len(clientBuffer) : clientBuffer'[j] = clientBuffer[j]
        /\ clientBuffer'[Len(clientBuffer) + 1] = chunks'
    BY <1>2, <2>1, AppendProperties
  <2>3. /\ Len(clientBuffer) \in Nat /\ DOMAIN clientBuffer = 1..Len(clientBuffer)
        /\ DOMAIN clientBuffer' = 1..(Len(clientBuffer) + 1)
    BY <1>2, <2>2, LenProperties
  <2>4. \A i \in 1..chunks' : i = chunks' \/ i \in 1..chunks
    BY <1>1, <1>2
  <2>5. In(chunks', clientBuffer') /\ \A i : In(i, clientBuffer) => In(i, clientBuffer')
    BY <1>2, <2>1, InAppend
  <2>6. TypeOK'
    BY <1>1, <1>2, <2>1, <2>2 DEF keyVars, WsInv, TypeOK, KeysTypeOK
  <2>7. stage \in {"none", "listing", "verifying", "introspecting"} =>
            \A i \in 1..chunks' : In(i, clientBuffer')
    BY <2>4, <2>5 DEF WsInv, Delivery
  <2> QED
    BY <1>1, <1>2, <1>4, <2>1, <2>6, <2>7 DEF WsInv, Delivery, BytesDelivered
<1> QED
  BY <1>3, <1>4

LEMMA ConnectedStep ==
    ASSUME WsInv, Connected
    PROVE  TypeOK' /\ Delivery'
<1> DEFINE first == IF head THEN <<1>> ELSE <<>>
           before == written \o <<Request>>
           ahead == before \o first
           S == 0..setup.chunks
<1>1. /\ upstream = "connecting" /\ upstream' = "open" /\ clientBuffer' = <<>>
      /\ written' = ahead \o clientBuffer
      /\ UNCHANGED <<setup, stage, asked, keyVars, client, head, patient, chunks, answered>>
  BY DEF Connected
<1>2. /\ setup.chunks \in Nat /\ clientBuffer \in Seq(1..setup.chunks) /\ written \in Seq(S)
      /\ chunks \in Nat /\ chunks <= setup.chunks
      /\ ~answered /\ (head => chunks > 0)
      /\ stage \notin {"none", "listing", "verifying", "introspecting"}
  BY <1>1, WsTypes DEF WsInv, TypeOK, Delivery
<1>3. clientBuffer \in Seq(S) /\ <<Request>> \in Seq(S) /\ first \in Seq(S)
  <2>1. 1..setup.chunks \subseteq S /\ 0 \in S /\ (head => 1 \in S)
    BY <1>2
  <2>2. clientBuffer \in Seq(S)
    BY <1>2, <2>1, SeqMonotonic
  <2>3. <<Request>> \in Seq(S)
    BY <2>1 DEF Request
  <2>4. first \in Seq(S)
    <3>1. CASE head
      BY <2>1, <3>1
    <3>2. CASE ~head
      BY <3>2
    <3> QED
      BY <3>1, <3>2
  <2> QED
    BY <2>2, <2>3, <2>4
<1>4. before \in Seq(S) /\ ahead \in Seq(S) /\ written' \in Seq(S)
  <2>1. before \in Seq(S)
    BY <1>2, <1>3, ConcatProperties
  <2>2. ahead \in Seq(S)
    BY <1>3, <2>1, ConcatProperties
  <2> QED
    BY <1>1, <1>3, <2>2, ConcatProperties
<1>5. TypeOK'
  BY <1>1, <1>4, EmptySeq DEF keyVars, WsInv, TypeOK, KeysTypeOK
<1>6. \A i : In(i, written) \/ In(i, clientBuffer) => In(i, written')
  <2>1. \A i : In(i, written) => In(i, before)
    BY <1>2, <1>3, InConcat
  <2> HIDE DEF before, first
  <2>2. \A i : In(i, before) => In(i, ahead)
    BY <1>3, <1>4, InConcat
  <2> HIDE DEF ahead
  <2> QED
    BY <1>1, <1>3, <1>4, <2>1, <2>2, InConcat
<1>7. ASSUME patient
      PROVE  written' = [j \in 1..(chunks + 1) |-> j - 1]
  <2>1. written = <<>> /\ clientBuffer = <<>> /\ ~head /\ chunks = 0
    BY <1>1, <1>2, <1>7 DEF WsInv, Delivery
  <2>2. written' = <<0>>
    BY <1>1, <2>1 DEF Request
  <2> QED
    BY <2>1, <2>2
<1>8. BytesDelivered'
  <2>1. \A i \in 1..chunks : In(i, written')
    BY <1>1, <1>6 DEF WsInv, Delivery
  <2> QED
    BY <1>1, <1>7, <2>1 DEF BytesDelivered, In
<1> QED
  BY <1>1, <1>2, <1>5, <1>8 DEF WsInv, Delivery

\* The other steps of the tunnel write nothing.
LEMMA SocketStep ==
    ASSUME WsInv, ConnectFails \/ UpstreamTalks \/ UpstreamEnds \/ UpstreamClosed \/ ClientEnds
    PROVE  TypeOK' /\ Delivery'
<1>1. /\ UNCHANGED <<setup, stage, asked, keyVars, clientBuffer, written, head, patient, chunks>>
      /\ upstream' \in {upstream, "closed", "ending"}
      /\ client' \in {client, "closed", "ended"} /\ (client = "none" => client' # "ended")
      /\ upstream = "none" => upstream' = "none"
      /\ answered' = answered \/ (answered' = TRUE /\ upstream = "open")
  BY DEF ConnectFails, UpstreamTalks, UpstreamEnds, UpstreamClosed, ClientEnds, Close
<1>2. stage \in {"none", "listing", "verifying", "introspecting"} => upstream = "none"
  BY DEF WsInv, TypeOK
<1>3. stage = "none" => client' = client
  BY <1>2 DEF WsInv, Delivery, ConnectFails, UpstreamTalks, UpstreamEnds, UpstreamClosed,
              ClientEnds
<1>4. TypeOK'
  BY <1>1, <1>2 DEF keyVars, WsInv, TypeOK, KeysTypeOK
<1>5. upstream' = "open" => upstream = "open"
  BY <1>1
<1>6. upstream' = "connecting" => upstream = "connecting"
  BY <1>1
<1>7. upstream' = "none" => upstream = "none"
  BY <1>1
<1> QED
  BY <1>1, <1>3, <1>4, <1>5, <1>6, <1>7 DEF WsInv, Delivery, BytesDelivered, In

LEMMA ResetStep ==
    ASSUME WsInv, ClientResets
    PROVE  TypeOK' /\ Delivery'
<1>1. /\ client' = "closed" /\ asked' = Nothing
      /\ UNCHANGED <<setup, now, rotations, jwksCache, failures,
                     clientBuffer, written, head, patient, chunks, answered>>
      /\ \/ upstream # "none" /\ upstream' = "closed" /\ UNCHANGED <<stage, lookups>>
         \/ upstream = "none" /\ upstream' = "none" /\ stage' = "crashed" /\ Forget(Ws)
  BY DEF ClientResets, Hooked, Close
<1>2. asked' \in [token : Callers \cup {NoToken}, pods : Listings] /\ asked'.pods = <<>>
  BY <1>1, ListingsAssumption DEF Nothing
<1>3. upstream # "none" => stage \in {"tunnel", "crashed"}
  BY DEF WsInv, TypeOK
<1>4. stage' \in {"tunnel", "crashed"} /\ lookups'[Ws].step = "idle"
  BY <1>1, <1>3, WsTypes DEF Forget, NoLookup, WsInv, TypeOK
<1>5. KeysTypeOK'
  <2>1. lookups' \in [Verifiers -> LookupState]
    <3>1. NoLookup \in LookupState
      BY DEF NoLookup, LookupState
    <3> QED
      BY <1>1, <3>1, WsTypes DEF Forget
  <2> QED
    BY <1>1, <2>1 DEF WsInv, TypeOK, KeysTypeOK
<1>6. TypeOK'
  BY <1>1, <1>2, <1>4, <1>5 DEF WsInv, TypeOK
<1> QED
  BY <1>1, <1>4, <1>6 DEF WsInv, Delivery, BytesDelivered

-----------------------------------------------------------------------------
(* All steps. *)

LEMMA KeysStep ==
    ASSUME WsInv, [Next]_vars
    PROVE  KeysInv'
<1>1. KeysInv /\ Ws \in Verifiers
  BY WsTypes DEF WsInv
<1>2. ASSUME UNCHANGED <<now, rotations, jwksCache, lookups>>, failures' \in Nat
      PROVE  KeysInv'
  BY <1>1, <1>2 DEF KeysInv, KeysTypeOK, KeysFresh, NewerThan
<1>3. failures \in Nat
  BY DEF WsInv, TypeOK, KeysTypeOK
<1>4. CASE Upgrade \/ UNCHANGED vars
  BY <1>2, <1>3, <1>4 DEF Upgrade, vars, keyVars
<1>5. CASE Handler
  <2>1. CASE Resolve
    BY <1>2, <1>3, <2>1 DEF Resolve, keyVars
  <2>2. CASE Introspect
    BY <1>2, <1>3, <2>2 DEF Introspect, keyVars
  <2>3. CASE VerifyBegins
    BY <1>1, <1>2, <1>3, <2>3, LookupKeeps DEF VerifyBegins, keyVars
  <2>4. CASE VerifyEnds
    BY <1>1, <2>4, ForgetKeeps DEF VerifyEnds
  <2> QED
    BY <1>5, <2>1, <2>2, <2>3, <2>4 DEF Handler
<1>6. CASE Tunnel
  <2>1. CASE ClientResets
    BY <1>1, <1>2, <1>3, <2>1, ForgetKeeps DEF ClientResets
  <2>2. CASE ~ClientResets
    BY <1>2, <1>3, <1>6, <2>2 DEF keyVars, Tunnel, ClientSends, Connected, ConnectFails,
       UpstreamTalks, UpstreamEnds, UpstreamClosed, ClientEnds
  <2> QED
    BY <2>1, <2>2
<1>7. CASE Provider
  BY <1>1, <1>7, ClockKeeps, FetchKeeps, FailureKeeps DEF Provider
<1>8. ASSUME NEW v \in Verifiers, OtherVerifies(v)
      PROVE  KeysInv'
  BY <1>1, <1>8, LookupKeeps, ForgetKeeps DEF OtherVerifies
<1> QED
  BY <1>4, <1>5, <1>6, <1>7, <1>8 DEF Next

\* The other requests and the provider leave the upgrade alone; only a lookup that waits
\* gets an answer.
LEMMA OthersStep ==
    ASSUME WsInv, KeysTypeOK', Provider \/ \E v \in Verifiers : OtherVerifies(v)
    PROVE  TypeOK' /\ Delivery'
<1>1. UNCHANGED <<setup, stage, asked, tunnelVars>>
  BY DEF Provider, OtherVerifies
<1>2. lookups[Ws].step = "idle" => lookups'[Ws] = lookups[Ws]
  <2>1. DOMAIN lookups = Verifiers /\ Ws \in Verifiers
    BY WsTypes
  <2>2. CASE Provider
    BY <2>1, <2>2 DEF Provider, Tick, Rotate, FetchKeys, FetchFails, ProviderReads, AnswerArrives
  <2>3. ASSUME NEW v \in Verifiers, OtherVerifies(v)
        PROVE  lookups'[Ws] = lookups[Ws]
    BY <2>1, <2>3 DEF OtherVerifies, Lookup, Forget
  <2> QED
    BY <2>2, <2>3
<1>3. TypeOK'
  BY <1>1, <1>2 DEF tunnelVars, WsInv, TypeOK
<1> QED
  BY <1>1, <1>3 DEF tunnelVars, WsInv, Delivery, BytesDelivered, In

LEMMA WsStep == WsInv /\ [Next]_vars => WsInv'
<1> SUFFICES ASSUME WsInv, [Next]_vars PROVE WsInv'
  OBVIOUS
<1>1. KeysInv' /\ KeysTypeOK'
  BY KeysStep DEF KeysInv
<1>2. CASE Upgrade
  BY <1>1, <1>2, UpgradeStep DEF WsInv
<1>3. CASE Handler
  BY <1>1, <1>3, HandlerStep DEF WsInv
<1>4. CASE Tunnel
  BY <1>1, <1>4, SendStep, ConnectedStep, SocketStep, ResetStep DEF Tunnel, WsInv
<1>5. CASE Provider \/ \E v \in Verifiers : OtherVerifies(v)
  BY <1>1, <1>5, OthersStep DEF WsInv
<1>6. CASE UNCHANGED vars
  <2>1. TypeOK'
    BY <1>6 DEF vars, keyVars, tunnelVars, WsInv, TypeOK, KeysTypeOK
  <2>2. Delivery'
    BY <1>6 DEF vars, tunnelVars, WsInv, Delivery, BytesDelivered, In
  <2> QED
    BY <1>1, <2>1, <2>2 DEF WsInv
<1> QED
  BY <1>2, <1>3, <1>4, <1>5, <1>6 DEF Next

LEMMA WsInvariant == Spec => []WsInv
BY WsInit, WsStep, PTL DEF Spec

\* Every variable keeps its type, an upgrade holds on to pods only while it decides, and
\* looks up keys only while it verifies (ws-proxy.ts:55-560, auth.ts:69-92).
THEOREM TypeCorrect == Spec => []TypeOK
<1>1. WsInv => TypeOK
  BY DEF WsInv
<1> QED
  BY <1>1, WsInvariant, PTL

\* No verification trusts keys that were replaced Ttl before it began, unless the provider
\* failed: however many verifications fill the cache and in whatever order the answers
\* come (auth.ts:69-92).
THEOREM KeysFreshHolds == Spec => []KeysFresh
<1>1. WsInv => KeysFresh
  BY DEF WsInv, KeysInv
<1> QED
  BY <1>1, WsInvariant, PTL

\* While the pod is connected everything the client sent is written to it, and what a
\* client that waits for the answer sent arrives once and in order, however much that is
\* (ws-proxy.ts:55-70, 477-494).
THEOREM BytesDeliveredHolds == Spec => []BytesDelivered
<1>1. WsInv => BytesDelivered
  BY DEF WsInv, Delivery
<1> QED
  BY <1>1, WsInvariant, PTL

-----------------------------------------------------------------------------
(* The decision that is written twice. *)

\* A set of numbers has a smallest element.
LEMMA SmallestExists ==
    ASSUME NEW S \in SUBSET Nat, S # {}
    PROVE  \E m \in S : \A x \in S : m <= x
<1> DEFINE less == {p \in Nat \X Nat : p[1] < p[2]}
<1>1. IsWellFoundedOn(less, Nat)
  BY NatLessThanWellFounded DEF OpToRel
<1>2. PICK m \in S : \A x \in S : <<x, m>> \notin less
  <2> HIDE DEF less
  <2> QED
    BY <1>1, WFMin
<1>3. ASSUME NEW x \in S PROVE m <= x
  <2>1. x \in Nat /\ m \in Nat
    OBVIOUS
  <2>2. ~(x < m)
    BY <1>2, <2>1
  <2> QED
    BY <2>1, <2>2
<1> QED
  BY <1>3

\* A pod is chosen, and it is one of the listing.
LEMMA PodIsRouted ==
    ASSUME NEW pods \in Listings \ {<<>>}
    PROVE  \E i \in DOMAIN pods : RoutedPod(pods) = pods[i]
<1> DEFINE ready == {i \in DOMAIN pods : pods[i].phase = "Running" /\ pods[i].ip}
<1>1. Len(pods) \in Nat /\ DOMAIN pods = 1..Len(pods) /\ Len(pods) > 0
  BY ListingsAssumption
<1>2. CASE ready = {}
  BY <1>1, <1>2 DEF RoutedPod
<1>3. CASE ready # {}
  <2>1. \E i \in ready : \A j \in ready : i <= j
    <3>1. ready \in SUBSET Nat
      BY <1>1
    <3> HIDE DEF ready
    <3> QED
      BY <1>3, <3>1, SmallestExists
  <2>2. (CHOOSE i \in ready : \A j \in ready : i <= j) \in ready
    <3> HIDE DEF ready
    <3> QED
      BY <2>1
  <2>3. RoutedPod(pods) = pods[CHOOSE i \in ready : \A j \in ready : i <= j]
    BY <1>3 DEF RoutedPod
  <2> QED
    BY <2>2, <2>3
<1> QED
  BY <1>2, <1>3

\* One of the endpoints a path falls under is the most specific.
LEMMA DeepestIsFound ==
    ASSUME NEW path \in Paths, NEW apis, \A a \in apis : Len(a.path) \in Nat,
           NEW found, found = UnderPath(apis, path), found # {}
    PROVE  Deepest(found) \in found
<1> DEFINE rest(a) == Len(path) - Len(a.path)
           S == {rest(a) : a \in found}
<1>1. Len(path) \in Nat /\ \A a \in found : Len(a.path) \in Nat /\ rest(a) \in Nat
  BY WsAssumption DEF UnderPath
<1>2. PICK m \in S : \A x \in S : m <= x
  <2>1. S \in SUBSET Nat /\ S # {}
    BY <1>1
  <2> HIDE DEF S
  <2> QED
    BY <2>1, SmallestExists
<1>3. PICK a \in found : m = rest(a)
  BY <1>2
<1>4. \A b \in found : Len(b.path) <= Len(a.path)
  <2> TAKE b \in found
  <2>1. rest(a) <= rest(b)
    BY <1>2, <1>3
  <2> QED
    BY <1>1, <2>1
<1> QED
  BY <1>4 DEF Deepest

\* The visibility rules are the same in both.
LEMMA VisibleAgree ==
    ASSUME NEW conf, NEW claims, NEW owner, NEW vis, vis.kind \in Kinds
    PROVE  HttpVisible(conf, claims, owner, vis) <=> WsVisible(conf, claims, owner, vis)
BY DEF HttpVisible, WsVisible, Kinds

\* So is what is asked of the token: reading.
LEMMA TokenAgrees ==
    ASSUME NEW conf, NEW claims, claims # NoClaims
    PROVE  /\ ~conf.enabled => RouteAuth(conf, claims, "GET") = 0
           /\ conf.enabled /\ WsTokenAccepted(conf, claims) => RouteAuth(conf, claims, "GET") = 0
           /\ conf.enabled /\ ~WsTokenAccepted(conf, claims) => RouteAuth(conf, claims, "GET") = 403
BY DEF RouteAuth, WsTokenAccepted

LEMMA DecisionsAgree ==
    ASSUME NEW conf, NEW claims \in Claims, NEW pods \in Listings \ {<<>>}, NEW path \in Paths,
           \A a \in UnderPath(RoutedPod(pods).apis, path) :
              a.methods = {} /\ (RoutedPod(pods).subfolder => a.port = RoutedPod(pods).port)
    PROVE  LET pod == RoutedPod(pods)
               ws == WsDecision(conf, claims, pods, path)
               http == HttpDecision(conf, claims, TRUE, pods, path, "GET")
           IN  /\ [ws EXCEPT !.told = Nobody] = [http EXCEPT !.told = Nobody]
               /\ ~pod.noAuth /\ claims.sub = claims.claim => ws = http
<1> DEFINE pod == RoutedPod(pods)
           found == UnderPath(pod.apis, path)
           target == Target(pod, found, path)
           vis == VisibilityOf(found)
           placed == IF pod.subfolder THEN InSubfolder(target) ELSE target
           wsTold == WsTold(conf, claims, pods)
           httpTold == HttpTold(conf, claims, TRUE)
           ws == WsDecision(conf, claims, pods, path)
           http == HttpDecision(conf, claims, TRUE, pods, path, "GET")
           accepted == WsTokenAccepted(conf, claims)
           visible == WsVisible(conf, claims, pod.owner, vis)
           serves == pod.phase = "Running" /\ pod.ip
<1>1. claims # NoClaims /\ pods # <<>>
  BY WsAssumption
<1>2. \A a \in pod.apis : Len(a.path) \in Nat /\ a.visibility.kind \in Kinds
  BY PodIsRouted, ListingsAssumption
<1>3. found # {} => Deepest(found) \in found
  BY <1>2, DeepestIsFound
<1>4. vis.kind \in Kinds
  BY <1>2, <1>3 DEF VisibilityOf, Private, Kinds, UnderPath
<1>5. HttpVisible(conf, claims, pod.owner, vis) <=> visible
  BY <1>4, VisibleAgree
<1>6. {a \in found : a.methods = {} \/ "GET" \in a.methods} = found
  OBVIOUS
<1>7. pod.subfolder => target.path = path
  BY <1>3 DEF Target
<1>8. WsAuthenticates(conf, pods) <=> conf.enabled /\ ~pod.noAuth
  BY DEF WsAuthenticates
<1> DEFINE known == IF pod.requireToken /\ ~TRUE THEN NoClaims ELSE claims
           auth == IF pod.noAuth THEN 0 ELSE RouteAuth(conf, known, "GET")
<1>9. known = claims
  OBVIOUS
<1>10. ws = CASE WsAuthenticates(conf, pods) /\ ~accepted -> Refused(403)
              [] WsAuthenticates(conf, pods) /\ accepted /\ ~visible -> Refused(403)
              [] OTHER -> IF ~serves THEN Refused(503)
                          ELSE Routed(IF pod.subfolder /\ target.path = path
                                      THEN InSubfolder(target) ELSE target, wsTold)
  BY DEF WsDecision, WsFound
<1>11. http = CASE auth # 0 -> Refused(auth)
               [] auth = 0 /\ ~pod.noAuth /\ conf.enabled
                  /\ ~HttpVisible(conf, claims, pod.owner, vis) -> Refused(403)
               [] OTHER -> IF ~serves THEN Refused(503) ELSE Routed(placed, httpTold)
  BY <1>1, <1>6, <1>9 DEF HttpDecision
<1>12. ~WsAuthenticates(conf, pods) \/ accepted => auth = 0
  BY <1>1, <1>8, <1>9, TokenAgrees
<1>13. WsAuthenticates(conf, pods) /\ ~accepted => auth = 403
  BY <1>1, <1>8, <1>9, TokenAgrees
<1>14. (IF pod.subfolder /\ target.path = path THEN InSubfolder(target) ELSE target) = placed
  BY <1>7
<1>15. \/ ws = Refused(403) /\ http = Refused(403)
       \/ ws = Refused(503) /\ http = Refused(503)
       \/ ws = Routed(placed, wsTold) /\ http = Routed(placed, httpTold)
  <2> HIDE DEF ws, http, accepted, visible, serves, placed, wsTold, httpTold, auth, pod, vis,
               target
  <2>1. CASE WsAuthenticates(conf, pods) /\ ~accepted
    BY <1>10, <1>11, <1>13, <2>1
  <2>2. CASE WsAuthenticates(conf, pods) /\ accepted /\ ~visible
    BY <1>5, <1>8, <1>10, <1>11, <1>12, <2>2
  <2>3. CASE ~WsAuthenticates(conf, pods) \/ (accepted /\ visible)
    BY <1>5, <1>8, <1>10, <1>11, <1>12, <1>14, <2>3
  <2> QED
    BY <2>1, <2>2, <2>3
<1>16. ~pod.noAuth /\ claims.sub = claims.claim => wsTold = httpTold
  BY <1>1, <1>8 DEF WsTold, HttpTold
<1>17. [ws EXCEPT !.told = Nobody] = [http EXCEPT !.told = Nobody]
  <2> HIDE DEF ws, http, placed, wsTold, httpTold
  <2>1. [Routed(placed, wsTold) EXCEPT !.told = Nobody]
           = [Routed(placed, httpTold) EXCEPT !.told = Nobody]
    BY DEF Routed
  <2> QED
    BY <1>15, <2>1
<1>18. ~pod.noAuth /\ claims.sub = claims.claim => ws = http
  <2> HIDE DEF ws, http, placed, wsTold, httpTold
  <2> QED
    BY <1>15, <1>16
<1> QED
  BY <1>17, <1>18

\* Whatever is configured, claimed, listed and asked for: an upgrade and an HTTP request of
\* one caller are let through to the same place or refused alike, and the workspace is told
\* the same of the caller (auth.ts:507-825, proxy.ts:30-67, ws-proxy.ts:98-463).
THEOREM RoutesAgreeHolds == Spec => []RoutesAgree
<1>1. RoutesAgree
  BY DecisionsAgree DEF RoutesAgree
<1> QED
  BY <1>1, PTL

=============================================================================
