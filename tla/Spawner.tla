------------------------------ MODULE Spawner -------------------------------
(***************************************************************************)
(* The spawner as a whole: spawn, stop, upgrade and clean-up requests of   *)
(* several users over the same pods, from an empty namespace.              *)
(***************************************************************************)
EXTENDS Upgrading, Spawning, Contents

spawnerVars == <<vars, requests>>

SpawnerInit ==
    /\ pods = << >>
    /\ clock = 1
    /\ tasks = << >>
    /\ used = {}
    /\ sweeps = {}
    /\ bulk = {}
    /\ faults = 0
    /\ crashes = 0
    /\ requests = << >>

Completes(n) == PodCompletes(n) /\ UNCHANGED <<upgradeVars, requests>>

SpawnerNext ==
    \/ UpgradingStep /\ UNCHANGED requests
    \/ Restart /\ requests' = << >>
    \/ SpawningStep /\ UNCHANGED upgradeVars
    \/ \E n \in Names : Completes(n)

SpawnerSpec == SpawnerInit /\ [][SpawnerNext]_spawnerVars

-----------------------------------------------------------------------------
SpawnerTypeOK ==
    /\ TypeOK
    /\ DOMAIN requests \subseteq Requests
    /\ \A r \in DOMAIN requests : requests[r] \in Request

NoAdmins == \A u \in Users : ~IsAdmin(u)

SpawnedActive(u) ==
    {pods[n].ws : n \in {m \in DOMAIN pods \ Suffixes :
                             pods[m].owner = u /\ pods[m].phase # "Done"}}

\* Spawns that overlap can exceed the limit of a user, but only by as many as can
\* overlap: pods a user has spawned plus spawns past the check stay below the limit
\* plus the requests in progress.  Workspaces that an upgrade brought back after
\* their pod had completed are not counted: nothing checks them.
QuotaOvershootBounded ==
    NoAdmins /\ MaxWorkspaces > 0 =>
        \A u \in Users :
            Cardinality(SpawnedActive(u)) + Cardinality(Admitted(u))
                < MaxWorkspaces + Cardinality(Requests)

\* "Maximum number of concurrent active workspaces a non-admin user can own"
\* (README, docs/deploy/configuration.md).  Counting and creating are two calls.
QuotaHolds ==
    MaxWorkspaces > 0 =>
        \A u \in Users : ~IsAdmin(u) => Cardinality(Active(u)) <= MaxWorkspaces

SameWorkspace(m, n) == pods[m].owner = pods[n].owner /\ pods[m].ws = pods[n].ws

\* The code deletes pods by a name it has read earlier.  Whatever has been stopped
\* and spawned again since, the pod of that name still belongs to the workspace and
\* the user the request is about.  (The start-up scan looks at the pods of all users
\* and takes two pods of the same id for one workspace.)
DeletesOwnPodsOnly ==
    NoAdmins /\ AuthEnabled =>
        /\ \A s \in DOMAIN tasks :
              tasks[s].old \in DOMAIN pods =>
                  /\ pods[tasks[s].old].owner = tasks[s].owner
                  /\ pods[tasks[s].old].ws = tasks[s].ws
        /\ \A r \in DOMAIN requests : \A n \in requests[r].todo \cap DOMAIN pods :
              pods[n].owner = requests[r].by /\ pods[n].ws = requests[r].ws
        /\ crashes = 0 =>
              \A e \in sweeps : {e.new, e.old} \subseteq DOMAIN pods => SameWorkspace(e.new, e.old)

\* The next two are about Contents, which has no state, so one evaluation is enough.

\* An upgrade keeps what is the user's: owner, where and under which name the workspace is
\* found, environment, volumes, mounts and service account, whatever the template has
\* become (ADR-024, "Owner Identity & Routing Preservation"; upgrade.ts:46-242).
UpgradesKeepContents ==
    SpawnerInit =>
        \A before, after \in Sources, call \in SpawnCalls, u \in Users :
            LET old == SpawnedPod(before, call, u)
                new == UpgradedPod(after, old)
            IN  old # NotSet /\ new # NotSet => Keeps(new, old, after)

\* Upgrades settle: while the template stays as it is, an upgraded workspace can be upgraded
\* again, which changes nothing, as when an upgrade copies the pod another one has just made,
\* and no listing calls it outdated, so that a bulk upgrade leaves it alone
\* (helpers.ts:19-48 and upgrade.ts:64-133 read the version of a template differently).
UpgradesSettle ==
    SpawnerInit =>
        \A before, after \in Sources, call \in SpawnCalls, u \in Users :
            LET old == SpawnedPod(before, call, u)
                new == UpgradedPod(after, old)
                again == UpgradedPod(after, new)
            IN  old # NotSet /\ new # NotSet =>
                    /\ again # NotSet
                    /\ Alike(new, again)
                    /\ Versioned(after, u) => ~Outdated(new, after)

=============================================================================
