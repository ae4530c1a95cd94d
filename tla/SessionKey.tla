----------------------------- MODULE SessionKey -----------------------------
(***************************************************************************)
(* How each replica of the server comes by the key that signs and encrypts *)
(* session cookies: from the environment, from a Secret that is read or    *)
(* created, from an older replica, or at random.  A replica listens only   *)
(* once it has a key, and keeps that key until its process ends.           *)
(*                                                                         *)
(* Every await of resolveSessionSecret ends an action.  The labels of pods *)
(* (all replicas carry the same app label) are left out.                   *)
(***************************************************************************)
EXTENDS Integers, FiniteSets

CONSTANTS
    Replicas,       \* names of pods; their order is the order of the names
    MaxAttempts,    \* PEER_DISCOVERY_RETRIES
    Setups,         \* the deployments looked at, see Setup
    MaxBorn,        \* bound on creation times
    MaxIncidents    \* bound on failed calls, restarts and deleted pods together

ASSUME SessionKeyAssumption ==
    /\ Replicas \subseteq Nat
    /\ IsFiniteSet(Replicas)
    /\ MaxAttempts \in Nat \ {0}
    /\ {MaxBorn, MaxIncidents} \subseteq Nat

\* env: PROXY_SESSION_SECRET or JWT_SECRET is set.  secrets: what RBAC allows on
\* Secrets.  direct: the replicas listen with plain HTTP on port 3000, the only
\* address a peer is asked at.  statuses: the errors of the Kubernetes client carry the
\* status where it is looked for, in response.statusCode.
Setup == [env : BOOLEAN, secrets : {"write", "read", "none"}, direct : BOOLEAN,
          statuses : BOOLEAN]

ASSUME SetupsAssumption == Setups \subseteq Setup

NoKey == <<"none">>
EnvKey == <<"environment">>
\* The two keys a process can generate: for the Secret and for itself.
SecretKeyOf(r, life) == <<"secret", r, life>>
MemoryKeyOf(r, life) == <<"memory", r, life>>

VARIABLES
    setup,      \* the deployment, never changes
    secret,     \* the Secret: "absent", "empty" (no session-key in it), or a key
    pods,       \* phase and creation time of each replica's pod
    procs,      \* the process in each pod
    faults, crashes

vars == <<setup, secret, pods, procs, faults, crashes>>

Phases == {"none", "Pending", "Running", "Terminating", "gone"}
Steps == {"off", "read", "create", "reread", "list", "ask", "serve"}
Lives == 0..MaxIncidents
Keys == {NoKey, EnvKey} \cup
        {SecretKeyOf(r, l) : r \in Replicas, l \in Lives} \cup
        {MemoryKeyOf(r, l) : r \in Replicas, l \in Lives}

\* asking: the peers of this round still to be asked.  gaveUp: no round had an answer.
Proc == [step : Steps, key : Keys, attempt : 1..MaxAttempts,
         asking : SUBSET Replicas, life : Lives, gaveUp : BOOLEAN]

TypeOK ==
    /\ setup \in Setups
    /\ secret \in {<<"absent">>, <<"empty">>} \cup Keys
    /\ pods \in [Replicas -> [phase : Phases, born : 0..MaxBorn]]
    /\ procs \in [Replicas -> Proc]
    /\ \A r \in Replicas :
          /\ (procs[r].key = NoKey) = (procs[r].step # "serve")
          /\ (procs[r].step = "ask") = (procs[r].asking # {})
    /\ faults \in 0..MaxIncidents
    /\ crashes \in 0..MaxIncidents

Process(step, life) ==
    [step |-> step, key |-> NoKey, attempt |-> 1, asking |-> {},
     life |-> life, gaveUp |-> FALSE]

Init ==
    /\ setup \in Setups
    /\ secret \in {<<"absent">>, <<"empty">>}
    /\ pods = [r \in Replicas |-> [phase |-> "none", born |-> 0]]
    /\ procs = [r \in Replicas |-> Process("off", 0)]
    /\ faults = 0
    /\ crashes = 0

At(r, step) == pods[r].phase \in {"Running", "Terminating"} /\ procs[r].step = step
Goto(r, step) == procs' = [procs EXCEPT ![r].step = step]

\* The key is cached, the application starts to listen.
Serve(r, key) ==
    procs' = [procs EXCEPT ![r].step = "serve", ![r].key = key, ![r].asking = {}]

Serving(r) == At(r, "serve")

Deletions == {r \in Replicas : pods[r].phase \in {"Terminating", "gone"}}

Incidents == faults + crashes + Cardinality(Deletions)

\* A call of the resolution fails with something else than 403, 404 or 409, or its
\* answer is lost.
Fault ==
    /\ Incidents < MaxIncidents
    /\ faults' = faults + 1

-----------------------------------------------------------------------------
(* The Deployment and the kubelet *)

Created == {r \in Replicas : pods[r].phase # "none"}

\* Creation times have a resolution of a second: equal ones occur.
PodCreated(r) ==
    /\ pods[r].phase = "none"
    /\ \E b \in 0..MaxBorn :
          /\ \A q \in Created : b >= pods[q].born
          /\ pods' = [pods EXCEPT ![r] = [phase |-> "Pending", born |-> b]]
    /\ UNCHANGED <<setup, secret, procs, faults, crashes>>

\* Bug: the server listens before the key is resolved.
PodStartsListening(r) ==
    /\ pods[r].phase = "Pending"
    /\ pods' = [pods EXCEPT ![r].phase = "Running"]
    /\ Goto(r, "serve")
    /\ UNCHANGED <<setup, secret, faults, crashes>>

\* startHttpServer: the key is resolved before listen.
PodStarts(r) ==
    /\ pods[r].phase = "Pending"
    /\ pods' = [pods EXCEPT ![r].phase = "Running"]
    /\ Goto(r, "read")
    /\ UNCHANGED <<setup, secret, faults, crashes>>

\* SIGTERM closes the server; a process that is asked before still answers.
PodDeleted(r) ==
    /\ pods[r].phase \in {"Pending", "Running"}
    /\ Incidents < MaxIncidents
    /\ pods' = [pods EXCEPT ![r].phase =
           IF pods[r].phase = "Pending" THEN "gone" ELSE "Terminating"]
    /\ UNCHANGED <<setup, secret, procs, faults, crashes>>

PodGone(r) ==
    /\ pods[r].phase = "Terminating"
    /\ pods' = [pods EXCEPT ![r].phase = "gone"]
    /\ procs' = [procs EXCEPT ![r] = Process("off", procs[r].life)]
    /\ UNCHANGED <<setup, secret, faults, crashes>>

\* The process ends, also because the API server cannot be reached at start-up; the
\* container is restarted in the same pod.
Crash(r) ==
    /\ pods[r].phase = "Running"
    /\ Incidents < MaxIncidents
    /\ crashes' = crashes + 1
    /\ procs' = [procs EXCEPT ![r] = Process("read", procs[r].life + 1)]
    /\ UNCHANGED <<setup, secret, pods, faults>>

-----------------------------------------------------------------------------
(* resolveSessionSecret *)

\* The variable is looked at first.  Only a 404 that is seen as such makes a replica create
\* the Secret; one without a key in it is left as it is.
ReadSecret(r) ==
    /\ At(r, "read")
    /\ \/ /\ CASE setup.env -> Serve(r, EnvKey)
               [] ~setup.env /\ (setup.secrets = "none" \/ secret = <<"empty">>) -> Goto(r, "list")
               [] ~setup.env /\ setup.secrets # "none" /\ secret = <<"absent">> ->
                      Goto(r, IF setup.statuses THEN "create" ELSE "list")
               [] OTHER -> Serve(r, secret)
          /\ UNCHANGED faults
       \/ ~setup.env /\ Fault /\ Goto(r, "list")
    /\ UNCHANGED <<setup, secret, pods, crashes>>

\* The answer to a creation that took effect may be lost.
CreateSecret(r) ==
    /\ At(r, "create")
    /\ LET key == SecretKeyOf(r, procs[r].life) IN
       \/ /\ setup.secrets = "write" /\ secret = <<"absent">>
          /\ secret' = key
          /\ \/ Serve(r, key) /\ UNCHANGED faults
             \/ Fault /\ Goto(r, "list")
       \/ /\ setup.secrets = "write" /\ secret # <<"absent">>
          /\ Goto(r, IF setup.statuses THEN "reread" ELSE "list")
          /\ UNCHANGED <<secret, faults>>
       \/ /\ setup.secrets # "write"
          /\ Goto(r, "list")
          /\ UNCHANGED <<secret, faults>>
       \/ Fault /\ Goto(r, "list") /\ UNCHANGED secret
    /\ UNCHANGED <<setup, pods, crashes>>

\* Bug: the loser of the race goes on with its peers.
RereadSecretIgnored(r) ==
    /\ At(r, "reread")
    /\ Goto(r, "list")
    /\ UNCHANGED <<setup, secret, pods, faults, crashes>>

\* After a 409.
RereadSecret(r) ==
    /\ At(r, "reread")
    /\ \/ /\ IF secret = <<"empty">> THEN Goto(r, "list") ELSE Serve(r, secret)
          /\ UNCHANGED faults
       \/ Fault /\ Goto(r, "list")
    /\ UNCHANGED <<setup, secret, pods, crashes>>

-----------------------------------------------------------------------------
(* Peer discovery *)

\* Bug: only pods that run take part in the election.
ActiveRunning == {q \in Replicas : pods[q].phase = "Running"}

Active == {q \in Replicas : pods[q].phase \in {"Pending", "Running"}}

Before(p, q) ==
    pods[p].born < pods[q].born \/ (pods[p].born = pods[q].born /\ p < q)

\* The pods to ask, older ones that run; all that run when the pod
\* itself is being deleted and so not among the active ones.
OlderRunning(r) ==
    {q \in Active : pods[q].phase = "Running" /\ (r \in Active => Before(q, r))}

\* Bug: a round without an answer is not counted.
NextAttemptFree(r) ==
    procs' = [procs EXCEPT ![r].step = "list", ![r].asking = {}]

\* A round has ended without a key; the last one ends with a key of its own.
NextAttempt(r) ==
    IF procs[r].attempt < MaxAttempts
    THEN procs' = [procs EXCEPT ![r].step = "list", ![r].asking = {},
                                ![r].attempt = @ + 1]
    ELSE procs' = [procs EXCEPT ![r].step = "serve", ![r].asking = {},
                                ![r].key = MemoryKeyOf(r, procs[r].life),
                                ![r].gaveUp = TRUE]

\* The oldest pod is the leader and makes a key; others ask the older ones.
ListPeers(r) ==
    /\ At(r, "list")
    /\ \/ /\ IF \A q \in Active \ {r} : r \in Active /\ Before(r, q)
             THEN Serve(r, MemoryKeyOf(r, procs[r].life))
             ELSE IF OlderRunning(r) = {}
             THEN NextAttempt(r)
             ELSE procs' = [procs EXCEPT ![r].step = "ask", ![r].asking = OlderRunning(r)]
          /\ UNCHANGED faults
       \/ Fault /\ Serve(r, MemoryKeyOf(r, procs[r].life))
    /\ UNCHANGED <<setup, secret, pods, crashes>>

\* GET /internal/session-key: refused while the peer does not listen.
Answers(peer) == Serving(peer) /\ setup.direct

NotAnswered(r, peer) ==
    IF procs[r].asking = {peer}
    THEN NextAttempt(r)
    ELSE procs' = [procs EXCEPT ![r].asking = @ \ {peer}]

\* The oldest of the pods still to be asked is next; creation times do not change.
AskPeer(r) ==
    /\ At(r, "ask")
    /\ \E peer \in procs[r].asking :
          /\ \A q \in procs[r].asking \ {peer} : Before(peer, q)
          /\ \/ /\ IF Answers(peer)
                   THEN Serve(r, procs[peer].key)
                   ELSE NotAnswered(r, peer)
                /\ UNCHANGED faults
             \/ Fault /\ NotAnswered(r, peer)
    /\ UNCHANGED <<setup, secret, pods, crashes>>

-----------------------------------------------------------------------------
Resolve(r) ==
    \/ ReadSecret(r) \/ CreateSecret(r) \/ RereadSecret(r)
    \/ ListPeers(r) \/ AskPeer(r)

Next ==
    \E r \in Replicas :
       \/ PodCreated(r) \/ PodStarts(r) \/ PodDeleted(r) \/ PodGone(r) \/ Crash(r)
       \/ Resolve(r)

Spec == Init /\ [][Next]_vars

\* A process that runs goes on to the next step: every call has a time limit.
FairSpec == Spec /\ \A r \in Replicas : WF_vars(Resolve(r))

-----------------------------------------------------------------------------
(* Properties *)

\* ADR-002: all replicas need the same signing key.  With the variable set, or with
\* a Secret that can be written, statuses that are seen and no failed call, every serving
\* replica has the one key, whatever races, restarts and deletions there are
\* (session.ts:59-134).
Dependable ==
    setup.env \/ /\ setup.secrets = "write" /\ setup.statuses
                 /\ secret # <<"empty">> /\ faults = 0

KeyAgreement ==
    Dependable =>
        \A r \in Replicas : Serving(r) =>
            procs[r].key = IF setup.env THEN EnvKey ELSE secret

\* Without a usable Secret the election bounds the disagreement: every further key
\* goes back to a failed call, a restart, a deleted pod, a follower that gave up
\* or pods created in the same second (session.ts:139-262).
ServedKeys == {procs[r].key : r \in {q \in Replicas : Serving(q)}}

Disturbances ==
    Incidents
    + Cardinality({r \in Replicas : procs[r].gaveUp})
    + Cardinality({r \in Created : \E q \in Created \ {r} : pods[q].born = pods[r].born})

DisagreementBounded == Cardinality(ServedKeys) <= 1 + Disturbances

\* Replicas that wait for each other's key do not wait for ever (ADR-022 on the
\* deadlock of servers that listen only when they have a key; session.ts:178-250).
EveryReplicaServes ==
    \A r \in Replicas :
        pods[r].phase = "Running" ~> (Serving(r) \/ pods[r].phase # "Running")

=============================================================================
