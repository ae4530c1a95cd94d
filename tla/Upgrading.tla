----------------------------- MODULE Upgrading ------------------------------
(***************************************************************************)
(* Template upgrades of running workspaces (ADR-024): the background task  *)
(* that upgrade_workspace starts, the clean-up of duplicate pods that      *)
(* list_workspaces and get_workspace do on the side, the bulk upgrade, and *)
(* a restart of the server with its reconciliation scan.                   *)
(*                                                                         *)
(* Everything between two awaits of the code is one action.  What a        *)
(* listing returned is kept in the task or sweep that will act on it, so   *)
(* it can be stale by then.  Nothing in the code serialises these actors.  *)
(***************************************************************************)
EXTENDS PodStore

CONSTANTS
    Owner,          \* Owner[w] spawned workspace w before the model starts
    MaxPolls,       \* readiness polls of a task (120 in the code)
    UpgradeTimeout, \* age at which a sweep gives a new pod up (600 s)
    MaxLag,         \* longest time between a listing and the decision made on it
    DistinctStamps, \* no two pods of a workspace are created in one clock unit
    LastCreate,     \* bound: upgrades create no pod after this time
    MaxSweeps,      \* bound on the sweeps in progress
    MaxFaults,      \* bound on failing API calls
    MaxCrashes      \* bound on server restarts

ASSUME UpgradingAssumption ==
    /\ Owner \in [Ids -> Users]
    /\ \A v, w \in Ids : PodName[<<Owner[v], v>>] = PodName[<<Owner[w], w>>] => v = w
    /\ MaxPolls \in Nat /\ UpgradeTimeout \in Nat /\ MaxLag \in Nat /\ LastCreate \in Nat
    /\ MaxSweeps \in Nat /\ MaxFaults \in Nat /\ MaxCrashes \in Nat
    /\ DistinctStamps \in BOOLEAN

VARIABLES
    tasks,          \* the running background upgrades, by the suffix of the new pod
    used,           \* the suffixes drawn so far
    sweeps,         \* clean-ups decided or to be decided on by a handler
    bulk,           \* pods that upgrade_all_workspaces found outdated, still to do
    faults,         \* API calls that failed so far
    crashes         \* restarts so far

upgradeVars == <<tasks, used, sweeps, bulk, faults, crashes>>
vars == <<pods, clock, tasks, used, sweeps, bulk, faults, crashes>>

\* old: the pod the upgrade replaces.  The new pod gets owner and ws from it, and
\* all its annotations, an earlier upgrade's error among them.
Task == [step : {"create", "poll", "dropNew", "dropOld"},
         old : Names, owner : Users, ws : Ids, error : BOOLEAN,
         polls : Nat, wake : Nat]

\* A sweep is about the newest pod of a workspace and the second newest.
\* "check": the newest was not ready at time seen; "dropOld": it was;
\* "dropNew": it timed out and the error is on the old pod.
Sweep == [step : {"check", "dropOld", "dropNew"},
          new : Names, old : Names, stamp : Nat, seen : Nat]

TypeOK ==
    /\ PodStoreTypeOK
    /\ used \subseteq Suffixes
    /\ DOMAIN tasks \subseteq used
    /\ \A s \in DOMAIN tasks : tasks[s] \in Task
    /\ sweeps \subseteq Sweep
    /\ bulk \subseteq [by : Users, ws : Ids, pod : Names]
    /\ faults \in Nat
    /\ crashes \in Nat

RunningPod(w) ==
    [owner |-> Owner[w], ws |-> w, stamp |-> 0, phase |-> "Running",
     deleting |-> FALSE, upgradeError |-> FALSE]

\* Every workspace has been spawned by its owner and runs.
Init ==
    /\ pods = [n \in {PodName[<<Owner[w], w>>] : w \in Ids} |->
                  RunningPod(CHOOSE w \in Ids : n = PodName[<<Owner[w], w>>])]
    /\ clock = 1
    /\ tasks = << >>
    /\ used = {}
    /\ sweeps = {}
    /\ bulk = {}
    /\ faults = 0
    /\ crashes = 0

-----------------------------------------------------------------------------
(* upgrade_workspace and upgrade_all_workspaces *)

\* the label selector of upgradeWorkspaceInner: unlike Sees, it filters by owner
\* even when authentication is off
Upgradable(u, w) == {n \in OfWorkspace(w) : IsAdmin(u) \/ pods[n].owner = u}

NewTask(old) ==
    [step |-> "create", old |-> old, owner |-> pods[old].owner, ws |-> pods[old].ws,
     error |-> pods[old].upgradeError, polls |-> 0, wake |-> 0]

\* Bug: the suffix is not remembered, so it can be drawn again.
LaunchForgetsSuffix(u, w, s) ==
    /\ s \in Suffixes \ used
    /\ UNCHANGED used
    /\ \E old \in Upgradable(u, w) : tasks' = With(tasks, s, NewTask(old))

\* Bug: the new pod belongs to the caller instead of the owner of the old pod.
LaunchForCaller(u, w, s) ==
    /\ s \in Suffixes \ used
    /\ used' = used \cup {s}
    /\ \E old \in Upgradable(u, w) :
          tasks' = With(tasks, s, [NewTask(old) EXCEPT !.owner = u])

\* upgradeWorkspaceInner up to its return: any listed pod may be items[0].  The
\* reading of the template touches no pod and is part of the step.
Launch(u, w, s) ==
    /\ s \in Suffixes \ used
    /\ used' = used \cup {s}
    /\ \E old \in Upgradable(u, w) : tasks' = With(tasks, s, NewTask(old))

Upgrade(u, w, s) ==
    /\ Launch(u, w, s)
    /\ UNCHANGED <<pods, clock, sweeps, bulk, faults, crashes>>

\* One entry for each outdated pod of the listing, so a workspace that is being
\* upgraded can appear twice.  Templates change as they like: any pods are outdated,
\* up to the number of suffixes left.
UpgradeAll(u) ==
    /\ ~AuthEnabled \/ IsAdmin(u)
    /\ \A b \in bulk : b.by # u
    /\ \E outdated \in SUBSET DOMAIN pods :
          /\ Cardinality(outdated) <= Cardinality(Suffixes \ used)
          /\ bulk' = bulk \cup {[by |-> u, ws |-> pods[n].ws, pod |-> n] : n \in outdated}
    /\ UNCHANGED <<pods, clock, tasks, used, sweeps, faults, crashes>>

UpgradeAllNext(b, s) ==
    /\ \/ Launch(b.by, b.ws, s)
       \/ /\ Upgradable(b.by, b.ws) = {}
          /\ UNCHANGED <<tasks, used>>
    /\ bulk' = bulk \ {b}
    /\ UNCHANGED <<pods, clock, sweeps, faults, crashes>>

-----------------------------------------------------------------------------
(* The background task of an upgrade. *)

InStep(s, step) == s \in DOMAIN tasks /\ tasks[s].step = step
Finished(s) == Without(tasks, s)

\* In the recreate path the old pod is deleted next, ready or not.
TaskCreate(s) ==
    /\ InStep(s, "create")
    /\ clock <= LastCreate
    /\ LET t == tasks[s] IN
          /\ DistinctStamps => \A n \in OfWorkspace(t.ws) : pods[n].stamp # clock
          /\ pods' = Created(s, NewPod(t.owner, t.ws, t.error))
          /\ tasks' = IF t.ws \in PvcIds
                      THEN [tasks EXCEPT ![s].step = "dropOld"]
                      ELSE [tasks EXCEPT ![s].step = "poll", ![s].wake = clock]
    /\ UNCHANGED <<clock, used, sweeps, bulk, faults, crashes>>

\* Bug: the task does not sleep between its polls.
PolledAgainAtOnce(s) ==
    [tasks EXCEPT ![s].polls = tasks[s].polls + 1, ![s].wake = clock]

\* A poll that finds the new pod not ready, or fails, sleeps for a clock unit.
Polled(s) ==
    [tasks EXCEPT ![s].polls = tasks[s].polls + 1, ![s].wake = clock + 1]

Polling(s) ==
    /\ InStep(s, "poll")
    /\ tasks[s].polls < MaxPolls
    /\ clock >= tasks[s].wake

TaskPoll(s) ==
    /\ Polling(s)
    /\ tasks' = IF s \in DOMAIN pods /\ Ready(s)
                THEN [tasks EXCEPT ![s].step = "dropOld"]
                ELSE Polled(s)
    /\ UNCHANGED <<pods, clock, used, sweeps, bulk, faults, crashes>>

TaskGivesUp(s) ==
    /\ InStep(s, "poll")
    /\ tasks[s].polls = MaxPolls
    /\ clock >= tasks[s].wake
    /\ pods' = Annotated(tasks[s].old)
    /\ tasks' = [tasks EXCEPT ![s].step = "dropNew"]
    /\ UNCHANGED <<clock, used, sweeps, bulk, faults, crashes>>

TaskDropNew(s) ==
    /\ InStep(s, "dropNew")
    /\ pods' = Deleted(s)
    /\ tasks' = Finished(s)
    /\ UNCHANGED <<clock, used, sweeps, bulk, faults, crashes>>

TaskDropOld(s) ==
    /\ InStep(s, "dropOld")
    /\ pods' = Deleted(tasks[s].old)
    /\ tasks' = Finished(s)
    /\ UNCHANGED <<clock, used, sweeps, bulk, faults, crashes>>

\* An API call of the task fails: a failed poll counts as not ready, a failed
\* annotation is logged, any other failure ends the task.
TaskCallFails(s) ==
    /\ faults < MaxFaults
    /\ faults' = faults + 1
    /\ \/ /\ Polling(s)
          /\ tasks' = Polled(s)
       \/ /\ InStep(s, "poll") /\ tasks[s].polls = MaxPolls /\ clock >= tasks[s].wake
          /\ tasks' = [tasks EXCEPT ![s].step = "dropNew"]
       \/ /\ s \in DOMAIN tasks /\ tasks[s].step # "poll"
          /\ tasks' = Finished(s)
    /\ UNCHANGED <<pods, clock, used, sweeps, bulk, crashes>>

-----------------------------------------------------------------------------
(* Sweeps: reconcileUpgradeTransition and the start-up scan. *)

\* Bug: the old pod is dropped although the new one is not ready.
SweepUnready(new, old) ==
    [step |-> "dropOld", new |-> new, old |-> old, stamp |-> 0, seen |-> 0]

SweepOf(new, old) ==
    IF Ready(new)
    THEN [step |-> "dropOld", new |-> new, old |-> old, stamp |-> 0, seen |-> 0]
    ELSE [step |-> "check", new |-> new, old |-> old,
          stamp |-> pods[new].stamp, seen |-> clock]

\* pair is the two newest pods of group G, newest first
NewestTwo(pair, G) == Newest(pair[1], G) /\ Newest(pair[2], G \ {pair[1]})

\* What a handler that lists the pods V can find for the workspaces W: a sweep
\* for each one that has several pods.
Findings(V, W) ==
    LET group(w) == V \cap OfWorkspace(w)
        crowded == {w \in W : \E m, n \in group(w) : m # n}
    IN {{SweepOf(pair[w][1], pair[w][2]) : w \in crowded} :
           pair \in {p \in [crowded -> V \X V] :
                        \A w \in crowded : NewestTwo(p[w], group(w))}}

Visible(u) == {n \in DOMAIN pods : Sees(u, n)}

ListWorkspaces(u) ==
    /\ Cardinality(sweeps) < MaxSweeps
    /\ \E found \in Findings(Visible(u), Ids) : sweeps' = sweeps \cup found
    /\ UNCHANGED <<pods, clock, tasks, used, bulk, faults, crashes>>

GetWorkspace(u, w) ==
    /\ Cardinality(sweeps) < MaxSweeps
    /\ \E found \in Findings(Visible(u), {w}) : sweeps' = sweeps \cup found
    /\ UNCHANGED <<pods, clock, tasks, used, bulk, faults, crashes>>

\* The newest pod was not ready and is not old enough: status "Upgrading".
SweepWaits(e) ==
    /\ e.step = "check"
    /\ clock <= e.stamp + UpgradeTimeout
    /\ sweeps' = sweeps \ {e}
    /\ UNCHANGED <<pods, clock, tasks, used, bulk, faults, crashes>>

\* Bug: a pod that is not ready is given up at any age.
SweepTimesOutEarly(e) ==
    /\ e.step = "check"
    /\ pods' = Annotated(e.old)
    /\ sweeps' = (sweeps \ {e}) \cup {[e EXCEPT !.step = "dropNew"]}
    /\ UNCHANGED <<clock, tasks, used, bulk, faults, crashes>>

\* Bug: the time-out is reported but the new pod is left alone.
SweepTimesOutKeeps(e) ==
    /\ e.step = "check"
    /\ clock > e.stamp + UpgradeTimeout
    /\ pods' = Annotated(e.old)
    /\ sweeps' = sweeps \ {e}
    /\ UNCHANGED <<clock, tasks, used, bulk, faults, crashes>>

SweepTimesOut(e) ==
    /\ e.step = "check"
    /\ clock > e.stamp + UpgradeTimeout
    /\ pods' = Annotated(e.old)
    /\ sweeps' = (sweeps \ {e}) \cup {[e EXCEPT !.step = "dropNew"]}
    /\ UNCHANGED <<clock, tasks, used, bulk, faults, crashes>>

SweepDropNew(e) ==
    /\ e.step = "dropNew"
    /\ pods' = Deleted(e.new)
    /\ sweeps' = sweeps \ {e}
    /\ UNCHANGED <<clock, tasks, used, bulk, faults, crashes>>

SweepDropOld(e) ==
    /\ e.step = "dropOld"
    /\ pods' = Deleted(e.old)
    /\ sweeps' = sweeps \ {e}
    /\ UNCHANGED <<clock, tasks, used, bulk, faults, crashes>>

\* A failed annotation is logged and the new pod deleted all the same.
SweepCallFails(e) ==
    /\ faults < MaxFaults
    /\ faults' = faults + 1
    /\ \/ /\ e.step \in {"dropNew", "dropOld"}
          /\ sweeps' = sweeps \ {e}
       \/ /\ e.step = "check"
          /\ clock > e.stamp + UpgradeTimeout
          /\ sweeps' = (sweeps \ {e}) \cup {[e EXCEPT !.step = "dropNew"]}
    /\ UNCHANGED <<pods, clock, tasks, used, bulk, crashes>>

\* The server process ends with all it was doing and starts again, with a scan
\* of all workspaces, which does nothing when its listing fails.
Restart ==
    /\ crashes < MaxCrashes
    /\ crashes' = crashes + 1
    /\ tasks' = << >>
    /\ bulk' = {}
    /\ \/ sweeps' \in Findings(DOMAIN pods, Ids) /\ UNCHANGED faults
       \/ sweeps' = {} /\ faults < MaxFaults /\ faults' = faults + 1
    /\ UNCHANGED <<pods, clock, used>>

-----------------------------------------------------------------------------
TaskStep(s) ==
    \/ TaskCreate(s) \/ TaskPoll(s) \/ TaskGivesUp(s)
    \/ TaskDropNew(s) \/ TaskDropOld(s)

SweepStep(e) ==
    \/ SweepWaits(e) \/ SweepTimesOut(e) \/ SweepDropNew(e) \/ SweepDropOld(e)

\* Time does not pass a decision that is due.
TimePasses ==
    /\ \A e \in sweeps : e.step = "check" => clock < e.seen + MaxLag
    /\ Tick
    /\ UNCHANGED upgradeVars

Kubelet(n) == (PodStarts(n) \/ PodRemoved(n)) /\ UNCHANGED upgradeVars

UpgradingStep ==
    \/ \E u \in Users, w \in Ids, s \in Suffixes : Upgrade(u, w, s)
    \/ \E u \in Users : UpgradeAll(u) \/ ListWorkspaces(u)
    \/ \E b \in bulk, s \in Suffixes : UpgradeAllNext(b, s)
    \/ \E s \in Suffixes : TaskStep(s) \/ TaskCallFails(s)
    \/ \E u \in Users, w \in Ids : GetWorkspace(u, w)
    \/ \E e \in sweeps : SweepStep(e) \/ SweepCallFails(e)
    \/ \E n \in Names : Kubelet(n)
    \/ TimePasses

Next == UpgradingStep \/ Restart

Spec == Init /\ [][Next]_vars

\* The event loop runs every task and every handler on, the API server answers, the
\* kubelet removes what is deleted, time goes on, and somebody lists the workspaces
\* again and again (the UI does, on a timer).  No pod needs to become ready, nobody
\* needs to upgrade.  Time is strongly fair as listings hold it up for a moment.
Fairness ==
    /\ \A s \in Suffixes : WF_vars(TaskStep(s))
    /\ WF_vars(\E e \in sweeps : SweepStep(e))
    /\ \A n \in Names : WF_vars(PodRemoved(n) /\ UNCHANGED upgradeVars)
    /\ SF_vars(TimePasses)
    /\ \A u \in Users : WF_vars(ListWorkspaces(u))

FairSpec == Spec /\ Fairness

-----------------------------------------------------------------------------
(* Properties, for the workspaces that are upgraded side by side. *)

SideBySide == Ids \ PvcIds

\* Zero downtime (ADR-024): whatever upgrades, listings and restarts overlap,
\* each workspace always has a ready pod that nobody is deleting.
ZeroDowntime ==
    \A w \in SideBySide : \E n \in OfWorkspace(w) : Serving(n)

ReadyPods(w) == {n \in OfWorkspace(w) : Ready(n)}

\* Bug: the pods are not sorted.
RouteUnsorted(w) == ReadyPods(w)

\* The pods that proxyPreHandler and handleUpgradeRequest may route to.
RouteTargets(w) ==
    LET ready == ReadyPods(w) IN {n \in ready : Newest(n, ready)}

\* The code never looks at deletionTimestamp, yet the proxies never send a
\* request to a pod that is being terminated.
RoutesToServingPod ==
    \A w \in SideBySide : \A n \in RouteTargets(w) : Serving(n)

\* When the pod that answers for a workspace was created.
ServingSince(w) ==
    LET stamps == {pods[n].stamp : n \in RouteTargets(w)}
    IN IF stamps = {} THEN 0 ELSE CHOOSE t \in stamps : TRUE

\* The upgrades implement Cutover: requests only ever move on to a newer pod.
Cut == INSTANCE Cutover WITH
           Workspaces <- SideBySide,
           servingSince <- [w \in SideBySide |-> ServingSince(w)]

ImplementsCutover == Cut!Spec

\* Upgrades keep the owner, also those an admin starts for someone else.
OwnerPreserved ==
    \A n \in DOMAIN pods : pods[n].owner = Owner[pods[n].ws]

\* A volume that one pod at a time can mount is released before the new pod asks for
\* it (ADR-024: "immediately delete the old pod to release volume locks, then spawn
\* the new pod"): the workspaces that have one never have two pods that stay.
OneVolumeHolder ==
    \A w \in PvcIds : Cardinality({n \in OfWorkspace(w) : ~pods[n].deleting}) <= 1

\* Duplicate pods do not linger (ADR-024): once the upgrades stop, every workspace
\* comes down to one pod, whatever upgrades overlapped and wherever the server was
\* restarted.
Converges == \A w \in Ids : <>[](Cardinality(OfWorkspace(w)) <= 1)

=============================================================================
