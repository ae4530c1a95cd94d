------------------------------ MODULE PodStore ------------------------------
(***************************************************************************)
(* The workspace pods of one Kubernetes namespace, as the spawner and the  *)
(* routing proxy see them through the API server.  The pods ARE the state  *)
(* of the system (there is no CRD and no database): a workspace is the set *)
(* of pods that carry its nogoo9/workspace-id label.                       *)
(*                                                                         *)
(* A spawned pod has the name ws-<user>-<id>, so a stopped workspace that  *)
(* is spawned again gets a pod of the old name, and another workspace can  *)
(* even have that name.  An upgraded pod has a name with a random suffix;  *)
(* the suffix stands for the whole name.                                   *)
(***************************************************************************)
EXTENDS Naturals, FiniteSets, Functions

CONSTANTS
    Users,          \* values of the nogoo9/user-sub label
    Admins,         \* the users verifyAuthAndGetContext finds to be admins
    AuthEnabled,    \* config.auth.enabled
    Ids,            \* workspace ids
    PodName,        \* PodName[<<u, w>>]: the name of the pod spawned for user u and id w
    PvcIds,         \* the workspaces whose pod mounts a PersistentVolumeClaim
    Suffixes,       \* random suffixes; bounds the number of upgrades
    ReadyWithin,    \* a pod is Running this long after its creation, or never
    MaxClock        \* bound on the clock, for model checking

SpawnNames == {PodName[<<u, w>>] : u \in Users, w \in Ids}
Names == SpawnNames \cup Suffixes

ASSUME PodStoreAssumption ==
    /\ Admins \subseteq Users
    /\ AuthEnabled \in BOOLEAN
    /\ DOMAIN PodName = Users \X Ids
    /\ PvcIds \subseteq Ids
    /\ SpawnNames \cap Suffixes = {}
    /\ ReadyWithin \in Nat
    /\ MaxClock \in Nat

VARIABLES
    pods,           \* the pods by name, from creation until the kubelet removes them
    clock           \* time, in units of the upgrade's poll interval (5 s)

storeVars == <<pods, clock>>

\* "Running" is phase Running with a pod IP, the only test of readiness in the
\* code; "Pending" is any other phase but Succeeded and Failed, which are "Done".
\* deleting: deletionTimestamp is set and the pod is still listed.  upgradeError:
\* it carries the nogoo9/last-upgrade-error annotation.
Pod == [owner : Users, ws : Ids, stamp : Nat,
        phase : {"Pending", "Running", "Done"},
        deleting : BOOLEAN, upgradeError : BOOLEAN]

PodStoreTypeOK ==
    /\ DOMAIN pods \subseteq Names
    /\ \A n \in DOMAIN pods : pods[n] \in Pod
    /\ clock \in Nat

NewPod(owner, w, error) ==
    [owner |-> owner, ws |-> w, stamp |-> clock, phase |-> "Pending",
     deleting |-> FALSE, upgradeError |-> error]

OfWorkspace(w) == {n \in DOMAIN pods : pods[n].ws = w}

\* phase Running and a pod IP; a terminating pod keeps both
Ready(n) == pods[n].phase = "Running"

\* what Kubernetes, not the code, calls available: ready and not terminating
Serving(n) == Ready(n) /\ ~pods[n].deleting

\* verifyAuthAndGetContext: nobody is an admin while authentication is off
IsAdmin(u) == AuthEnabled /\ u \in Admins

\* Bug: a request for a workspace id finds the pods of all users.
SeesAll(u, n) == TRUE

\* the pods its subFilter lets a caller find
Sees(u, n) == ~AuthEnabled \/ IsAdmin(u) \/ pods[n].owner = u

\* n may come first when S is sorted by creationTimestamp, newest first; with equal
\* timestamps the order of the listing decides, which Kubernetes leaves open
Newest(n, S) == n \in S /\ \A m \in S : pods[m].stamp <= pods[n].stamp

-----------------------------------------------------------------------------
(* Effects of the API calls the code makes. *)

With(f, x, y) == [z \in DOMAIN f \cup {x} |-> IF z = x THEN y ELSE f[z]]

Without(f, x) == Restrict(f, DOMAIN f \ {x})

Created(n, pod) == With(pods, n, pod)

\* deleteNamespacedPod: graceful, and a 404 on a name that does not exist
Deleted(n) ==
    IF n \in DOMAIN pods THEN [pods EXCEPT ![n].deleting = TRUE] ELSE pods

\* patchNamespacedPod of the last-upgrade-error annotation
Annotated(n) ==
    IF n \in DOMAIN pods THEN [pods EXCEPT ![n].upgradeError = TRUE] ELSE pods

-----------------------------------------------------------------------------
(* The cluster. *)

PodStarts(n) ==
    /\ n \in DOMAIN pods
    /\ pods[n].phase = "Pending"
    /\ ~pods[n].deleting
    /\ clock < pods[n].stamp + ReadyWithin
    /\ pods' = [pods EXCEPT ![n].phase = "Running"]
    /\ UNCHANGED clock

PodCompletes(n) ==
    /\ n \in DOMAIN pods
    /\ pods[n].phase # "Done"
    /\ pods' = [pods EXCEPT ![n].phase = "Done"]
    /\ UNCHANGED clock

PodRemoved(n) ==
    /\ n \in DOMAIN pods
    /\ pods[n].deleting
    /\ pods' = Without(pods, n)
    /\ UNCHANGED clock

Tick ==
    /\ clock < MaxClock
    /\ clock' = clock + 1
    /\ UNCHANGED pods

=============================================================================
