------------------------------ MODULE Spawning ------------------------------
(***************************************************************************)
(* spawn_workspace and stop_workspace.  A spawn looks whether the id is    *)
(* taken, counts the user's workspaces and creates the pod, in three calls *)
(* to the API server; a stop lists the pods and deletes them one by one.   *)
(* Requests of all users are in progress at the same time.                 *)
(***************************************************************************)
EXTENDS PodStore

CONSTANTS
    Requests,       \* slots; bounds the requests in progress
    MaxWorkspaces   \* config.auth.maxWorkspacesPerUser, 0 for no limit

ASSUME SpawningAssumption ==
    /\ IsFiniteSet(Requests)
    /\ MaxWorkspaces \in Nat

VARIABLE requests   \* the requests in progress, by slot

\* by: the caller.  owner: whom the workspace is for.  todo: pods still to delete.
Request == [step : {"count", "create", "delete"}, by : Users, owner : Users,
            ws : Ids, todo : SUBSET Names]

InRequest(r, step) == r \in DOMAIN requests /\ requests[r].step = step

\* Bug: a request that has been answered keeps its slot.
AnsweredButKept(r) == [requests EXCEPT ![r].step = "answered"]

Answered(r) == Without(requests, r)

-----------------------------------------------------------------------------
(* spawn_workspace *)

\* Only admins may spawn for others.  The id must be free, whoever asks.
Spawn(r, by, owner, w) ==
    /\ r \in Requests \ DOMAIN requests
    /\ owner = by \/ ~AuthEnabled \/ IsAdmin(by)
    /\ OfWorkspace(w) = {}
    /\ requests' = With(requests, r,
           [step |-> "count", by |-> by, owner |-> owner, ws |-> w, todo |-> {}])
    /\ UNCHANGED storeVars

\* the workspaces that count against the quota of u
Active(u) ==
    {pods[n].ws : n \in {m \in DOMAIN pods : pods[m].owner = u /\ pods[m].phase # "Done"}}

\* Bug: off by one.
OverQuotaByOne(q) ==
    /\ MaxWorkspaces > 0
    /\ ~IsAdmin(q.by)
    /\ Cardinality(Active(q.owner)) > MaxWorkspaces

OverQuota(q) ==
    /\ MaxWorkspaces > 0
    /\ ~IsAdmin(q.by)
    /\ Cardinality(Active(q.owner)) >= MaxWorkspaces

SpawnCounts(r) ==
    /\ InRequest(r, "count")
    /\ requests' = IF OverQuota(requests[r])
                   THEN Answered(r)
                   ELSE [requests EXCEPT ![r].step = "create"]
    /\ UNCHANGED storeVars

\* The API server refuses a second pod of the same name.
SpawnCreates(r) ==
    /\ InRequest(r, "create")
    /\ LET q == requests[r]
           name == PodName[<<q.owner, q.ws>>]
       IN pods' = IF name \in DOMAIN pods
                  THEN pods
                  ELSE Created(name, NewPod(q.owner, q.ws, FALSE))
    /\ requests' = Answered(r)
    /\ UNCHANGED clock

-----------------------------------------------------------------------------
(* stop_workspace *)

Stop(r, by, w) ==
    /\ r \in Requests \ DOMAIN requests
    /\ LET found == {n \in OfWorkspace(w) : Sees(by, n)} IN
          /\ found # {}
          /\ requests' = With(requests, r,
                 [step |-> "delete", by |-> by, owner |-> by, ws |-> w, todo |-> found])
    /\ UNCHANGED storeVars

\* A pod that is gone in the meantime ends the request, and the pods after it in
\* the listing stay.
StopDeletes(r) ==
    /\ InRequest(r, "delete")
    /\ \E n \in requests[r].todo :
          /\ pods' = Deleted(n)
          /\ requests' = IF n \in DOMAIN pods /\ requests[r].todo # {n}
                         THEN [requests EXCEPT ![r].todo = @ \ {n}]
                         ELSE Answered(r)
    /\ UNCHANGED clock

\* Any call of a request may fail, the template may not resolve: the request ends.
RequestFails(r) ==
    /\ r \in DOMAIN requests
    /\ requests' = Answered(r)
    /\ UNCHANGED storeVars

-----------------------------------------------------------------------------
SpawningStep ==
    \/ \E r \in Requests, by, owner \in Users, w \in Ids : Spawn(r, by, owner, w)
    \/ \E r \in Requests, by \in Users, w \in Ids : Stop(r, by, w)
    \/ \E r \in Requests :
          SpawnCounts(r) \/ SpawnCreates(r) \/ StopDeletes(r) \/ RequestFails(r)

\* the requests for u that have passed the quota
Admitted(u) ==
    {r \in DOMAIN requests :
        /\ requests[r].step = "create"
        /\ requests[r].owner = u
        /\ ~IsAdmin(requests[r].by)}

=============================================================================
