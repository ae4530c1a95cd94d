---------------------------- MODULE Verification ----------------------------
(***************************************************************************)
(* verifyToken of src/k8s/auth.ts and the cached key set it checks         *)
(* signatures with.  The provider publishes one key set after another, a   *)
(* key set being known by its number; a rotation takes the keys before it  *)
(* out of use.  Each verifier stands for a request that verifies a token;  *)
(* the request to the provider is split into its reading the keys and the  *)
(* arrival of the answer.                                                  *)
(***************************************************************************)
EXTENDS Naturals, Sequences

CONSTANTS
    Verifiers,
    Ttl,            \* JWKS_CACHE_TTL
    MaxTime,        \* bound on the clock
    MaxRotations,   \* bound on changes of the key set
    MaxFailures     \* bound on answers of the provider that bring no keys

ASSUME VerificationAssumption ==
    /\ {Ttl, MaxTime, MaxRotations, MaxFailures} \subseteq Nat
    /\ Ttl > 0

VARIABLES
    now,        \* the clock
    rotations,  \* when the provider changed its keys
    jwksCache,  \* the number of the cached key set, 0 without one, and its time
    lookups,    \* what each verifier is doing
    failures

keyVars == <<now, rotations, jwksCache, lookups, failures>>

LookupState == [step : {"idle", "fetch", "answer", "done"},
                start : Nat, keys : Nat, failed : BOOLEAN]

KeysTypeOK ==
    /\ now \in Nat
    /\ rotations \in Seq(Nat)
    /\ jwksCache \in [keys : Nat, at : Nat]
    /\ lookups \in [Verifiers -> LookupState]
    /\ failures \in Nat

NoLookup == [step |-> "idle", start |-> 0, keys |-> 0, failed |-> FALSE]

\* The key set the provider publishes.
Published == Len(rotations) + 1

KeysInit ==
    /\ now = Ttl
    /\ rotations = <<>>
    /\ jwksCache = [keys |-> 0, at |-> 0]
    /\ lookups = [v \in Verifiers |-> NoLookup]
    /\ failures = 0

Tick ==
    /\ now < MaxTime
    /\ now' = now + 1
    /\ UNCHANGED <<rotations, jwksCache, lookups, failures>>

Rotate ==
    /\ Len(rotations) < MaxRotations
    /\ rotations' = Append(rotations, now)
    /\ UNCHANGED <<now, jwksCache, lookups, failures>>

Fresh == jwksCache.keys # 0 /\ now - jwksCache.at < Ttl

\* fetchJwks, up to the request.
Lookup(v) ==
    /\ lookups[v].step = "idle"
    /\ lookups' = [lookups EXCEPT ![v] =
           [step |-> IF Fresh THEN "done" ELSE "fetch", start |-> now,
            keys |-> IF Fresh THEN jwksCache.keys ELSE 0, failed |-> FALSE]]
    /\ UNCHANGED <<now, rotations, jwksCache, failures>>

ProviderReads(v) ==
    /\ lookups[v].step = "fetch"
    /\ lookups' = [lookups EXCEPT ![v].step = "answer", ![v].keys = Published]
    /\ UNCHANGED <<now, rotations, jwksCache, failures>>

\* Bug: the cache is dated by the arrival of the answer.
AnswerArrivesDated(v) ==
    /\ lookups[v].step = "answer"
    /\ lookups' = [lookups EXCEPT ![v].step = "done"]
    /\ jwksCache' = [keys |-> lookups[v].keys, at |-> now]
    /\ UNCHANGED <<now, rotations, failures>>

\* The cache gets the time at which the request was made.
AnswerArrives(v) ==
    /\ lookups[v].step = "answer"
    /\ lookups' = [lookups EXCEPT ![v].step = "done"]
    /\ jwksCache' = [keys |-> lookups[v].keys, at |-> lookups[v].start]
    /\ UNCHANGED <<now, rotations, failures>>

\* An error leaves the cached keys in use; an answer without keys means none.
FetchFails(v) ==
    /\ lookups[v].step \in {"fetch", "answer"}
    /\ failures < MaxFailures
    /\ failures' = failures + 1
    /\ \E keys \in {jwksCache.keys, 0} :
          lookups' = [lookups EXCEPT ![v].step = "done", ![v].keys = keys,
                                     ![v].failed = TRUE]
    /\ UNCHANGED <<now, rotations, jwksCache>>

Forget(v) == lookups' = [lookups EXCEPT ![v] = NoLookup]

FetchKeys(v) == ProviderReads(v) \/ AnswerArrives(v)

-----------------------------------------------------------------------------
\* A token is a record [kid, exp, audience, active]: the key set it is signed
\* with, when it expires, whether it is meant for this server (checkResourceAllowed)
\* and what the provider's introspection endpoint says of it.

Expired(token) == token.exp < now

\* With a configured key: that of key set 1.
KnownKey == 1

Accepts(token, keys) == token.kid = keys /\ token.audience

\* The introspection endpoint is asked instead of looking at the token.
Introspected(token) == token.active /\ token.audience

-----------------------------------------------------------------------------
\* No verification trusts a key set that the provider had replaced Ttl before it
\* began, whatever order the answers come in; unless the provider failed
\* (auth.ts:69-92, a cache that concurrent verifications fill).
KeysFresh ==
    \A v \in Verifiers :
        lookups[v].step = "done" /\ ~lookups[v].failed =>
            \A i \in DOMAIN rotations :
                rotations[i] + Ttl <= lookups[v].start => lookups[v].keys > i
=============================================================================
