------------------------- MODULE UpgradingInvariant -------------------------
(***************************************************************************)
(* The inductive invariant behind zero downtime.  A pod is only ever       *)
(* deleted when a newer one serves its workspace already, or when it is    *)
(* not ready and has become too old to get ready; this has to be known of  *)
(* a pod from the moment its deletion is decided on until it is done, no   *)
(* matter what the other actors delete meanwhile.                          *)
(***************************************************************************)
EXTENDS Upgrading

\* Pods become ready in time: a task still polls, and a clean-up still waits, when
\* the last moment for a pod to become ready has passed.
SafeTiming ==
    /\ DistinctStamps
    /\ ReadyWithin + MaxFaults < MaxPolls
    /\ ReadyWithin + MaxLag <= UpgradeTimeout

\* a newer pod serves the workspace of o
Superseded(o) ==
    \E a \in DOMAIN pods :
        Serving(a) /\ pods[a].ws = pods[o].ws /\ pods[a].stamp > pods[o].stamp

\* pods whose deletion in favour of a newer one, or as failed ones, is decided
Condemned ==
    {tasks[s].old : s \in {t \in DOMAIN tasks : tasks[t].step = "dropOld"}}
    \cup {e.old : e \in {d \in sweeps : d.step = "dropOld"}}
Failed ==
    {s \in DOMAIN tasks : tasks[s].step = "dropNew"}
    \cup {e.new : e \in {d \in sweeps : d.step = "dropNew"}}

Mentioned ==
    {tasks[s].old : s \in DOMAIN tasks} \cup {e.new : e \in sweeps} \cup {e.old : e \in sweeps}

\* Creation times order the pods of a workspace.
StampsOrder ==
    /\ \A n \in DOMAIN pods : pods[n].stamp <= clock
    /\ \A m, n \in DOMAIN pods :
          pods[m].ws = pods[n].ws /\ pods[m].stamp = pods[n].stamp => m = n

\* Nobody acts on a name before its pod exists.
FreshNames ==
    \A s \in Suffixes :
        s \notin used \/ InStep(s, "create") => s \notin DOMAIN pods \cup Mentioned

\* A task replaces a pod of its workspace by a newer one.
TasksReplace ==
    \A s \in DOMAIN tasks :
        LET t == tasks[s] IN
          /\ t.old \in DOMAIN pods => pods[t.old].ws = t.ws
          /\ t.step \in {"poll", "dropNew"} /\ s \in DOMAIN pods =>
                /\ pods[s].ws = t.ws
                /\ t.old \in DOMAIN pods => pods[t.old].stamp < pods[s].stamp

\* The polls of a task are a clock unit apart and only a failing one misses that the
\* pod is ready.
PollsCount ==
    /\ faults <= MaxFaults
    /\ \A s \in DOMAIN tasks :
          LET t == tasks[s] IN
            /\ t.step = "create" => t.polls = 0
            /\ t.step = "poll" =>
                  /\ t.wake <= clock + 1
                  /\ s \in DOMAIN pods =>
                        /\ t.polls + pods[s].stamp <= t.wake
                        /\ Ready(s) => t.polls <= ReadyWithin + faults

\* A clean-up that found a pod not ready decides on it soon after.
ChecksAreRecent ==
    \A e \in sweeps : e.step = "check" =>
        /\ e.seen <= clock /\ clock <= e.seen + MaxLag
        /\ e.new \in DOMAIN pods =>
              /\ e.stamp = pods[e.new].stamp
              /\ Ready(e.new) => e.seen < e.stamp + ReadyWithin

CondemnedSuperseded ==
    \A o \in Condemned \cap DOMAIN pods : pods[o].ws \in SideBySide => Superseded(o)

FailedNeverReady ==
    \A o \in Failed \cap DOMAIN pods : ~Ready(o) /\ pods[o].stamp + ReadyWithin <= clock

TerminatingSuperseded ==
    \A o \in DOMAIN pods :
        Ready(o) /\ pods[o].deleting /\ pods[o].ws \in SideBySide => Superseded(o)

\* The code keeps enough distance between the decision to delete a pod and the last
\* moment it could matter: Inv is inductive when pods become ready in time.
Inv ==
    /\ TypeOK
    /\ StampsOrder
    /\ FreshNames
    /\ TasksReplace
    /\ PollsCount
    /\ ChecksAreRecent
    /\ CondemnedSuperseded
    /\ FailedNeverReady
    /\ TerminatingSuperseded
    /\ ZeroDowntime

=============================================================================
