-------------------------- MODULE UpgradingSafety ---------------------------
(***************************************************************************)
(* Zero downtime, for any number of users, workspaces, upgrades, listings, *)
(* restarts and failing calls, provided that pods become ready in time     *)
(* (SafeTiming): Inv of UpgradingInvariant is inductive, and under it      *)
(* upgrading implements Cutover: at every step at most one workspace is    *)
(* taken over, by a newer pod.                                             *)
(***************************************************************************)
EXTENDS UpgradingInvariant, UpgradingProofs, WellFoundedInduction

USE DEF vars, upgradeVars, storeVars

-----------------------------------------------------------------------------
(* What a step may do to the pods. *)

KeepsLabels ==
    \A n \in DOMAIN pods \cap DOMAIN pods' :
        pods'[n].ws = pods[n].ws /\ pods'[n].stamp = pods[n].stamp

\* A workspace keeps a serving pod, not older than the one it had.
KeepsServing ==
    \A a \in DOMAIN pods :
        Serving(a) /\ pods[a].ws \in SideBySide =>
            \E b \in DOMAIN pods' :
                /\ Serving(b)'
                /\ pods'[b].ws = pods[a].ws
                /\ pods'[b].stamp >= pods[a].stamp

\* Pods are at most marked: as being deleted or with an error.
OnlyMarks ==
    /\ DOMAIN pods' = DOMAIN pods
    /\ \A n \in DOMAIN pods :
          /\ pods'[n].ws = pods[n].ws
          /\ pods'[n].stamp = pods[n].stamp
          /\ pods'[n].phase = pods[n].phase

LEMMA SupersededKept ==
    ASSUME TypeOK, TypeOK', KeepsLabels, KeepsServing,
           NEW o \in DOMAIN pods \cap DOMAIN pods', pods[o].ws \in SideBySide, Superseded(o)
    PROVE  Superseded(o)'
<1>1. PICK a \in DOMAIN pods :
         Serving(a) /\ pods[a].ws = pods[o].ws /\ pods[a].stamp > pods[o].stamp
  BY DEF Superseded
<1>2. PICK b \in DOMAIN pods' :
         Serving(b)' /\ pods'[b].ws = pods[a].ws /\ pods'[b].stamp >= pods[a].stamp
  BY <1>1 DEF KeepsServing
<1>3. /\ pods'[b].stamp \in Nat /\ pods[a].stamp \in Nat /\ pods[o].stamp \in Nat
      /\ pods'[o].stamp = pods[o].stamp /\ pods'[o].ws = pods[o].ws
  BY DEF TypeOK, PodStoreTypeOK, Pod, KeepsLabels
<1>4. pods'[b].stamp > pods'[o].stamp /\ pods'[b].ws = pods'[o].ws
  BY <1>1, <1>2, <1>3
<1> QED
  BY <1>2, <1>4 DEF Superseded

LEMMA ZeroDowntimeKept ==
    ASSUME ZeroDowntime, KeepsServing
    PROVE  ZeroDowntime'
BY DEF ZeroDowntime, KeepsServing, OfWorkspace, SideBySide

-----------------------------------------------------------------------------
(* The steps on pods, one by one. *)

LEMMA UnchangedPods ==
    ASSUME TypeOK, UNCHANGED pods
    PROVE  OnlyMarks /\ KeepsLabels /\ KeepsServing
BY DEF OnlyMarks, KeepsLabels, KeepsServing, Serving, Ready, TypeOK, PodStoreTypeOK, Pod

LEMMA AnnotatedPods ==
    ASSUME TypeOK, NEW n, pods' = Annotated(n)
    PROVE  /\ OnlyMarks /\ KeepsLabels /\ KeepsServing
           /\ \A m \in DOMAIN pods : pods'[m].deleting = pods[m].deleting
<1>1. /\ DOMAIN pods' = DOMAIN pods
      /\ \A m \in DOMAIN pods :
            /\ pods'[m].ws = pods[m].ws /\ pods'[m].stamp = pods[m].stamp
            /\ pods'[m].phase = pods[m].phase /\ pods'[m].deleting = pods[m].deleting
  BY DEF Annotated, TypeOK, PodStoreTypeOK, Pod
<1> QED
  BY <1>1 DEF OnlyMarks, KeepsLabels, KeepsServing, Serving, Ready, TypeOK, PodStoreTypeOK, Pod

\* It is safe to delete a pod that has been superseded, or is not ready.
LEMMA DeletedPods ==
    ASSUME TypeOK, NEW d, pods' = Deleted(d),
           d \in DOMAIN pods /\ pods[d].ws \in SideBySide /\ Ready(d) => Superseded(d)
    PROVE  /\ OnlyMarks /\ KeepsLabels /\ KeepsServing
           /\ \A m \in DOMAIN pods : m # d => pods'[m].deleting = pods[m].deleting
<1>1. /\ DOMAIN pods' = DOMAIN pods
      /\ \A m \in DOMAIN pods :
            /\ pods'[m].ws = pods[m].ws /\ pods'[m].stamp = pods[m].stamp
            /\ pods'[m].phase = pods[m].phase
            /\ m # d => pods'[m].deleting = pods[m].deleting
  BY DEF Deleted, TypeOK, PodStoreTypeOK, Pod
<1>2. \A m \in DOMAIN pods : pods[m].stamp \in Nat
  BY DEF TypeOK, PodStoreTypeOK, Pod
<1>3. ASSUME NEW a \in DOMAIN pods, Serving(a), pods[a].ws \in SideBySide
      PROVE  \E b \in DOMAIN pods' :
                /\ Serving(b)'
                /\ pods'[b].ws = pods[a].ws
                /\ pods'[b].stamp >= pods[a].stamp
  <2>1. CASE a # d
    BY <1>1, <1>2, <1>3, <2>1 DEF Serving, Ready
  <2>2. CASE a = d
    <3>1. PICK b \in DOMAIN pods :
             Serving(b) /\ pods[b].ws = pods[d].ws /\ pods[b].stamp > pods[d].stamp
      BY <1>3, <2>2 DEF Superseded, Serving
    <3>2. b # d
      BY <1>2, <2>2, <3>1
    <3> QED
      BY <1>1, <1>2, <2>2, <3>1, <3>2 DEF Serving, Ready
  <2> QED
    BY <2>1, <2>2
<1> QED
  BY <1>1, <1>3 DEF OnlyMarks, KeepsLabels, KeepsServing

LEMMA StartedPods ==
    ASSUME TypeOK, NEW n, PodStarts(n)
    PROVE  /\ KeepsLabels /\ KeepsServing
           /\ DOMAIN pods' = DOMAIN pods
           /\ \A m \in DOMAIN pods : pods'[m].deleting = pods[m].deleting
           /\ \A m \in DOMAIN pods : m # n => pods'[m].phase = pods[m].phase
<1>1. /\ DOMAIN pods' = DOMAIN pods
      /\ \A m \in DOMAIN pods :
            /\ pods'[m].ws = pods[m].ws /\ pods'[m].stamp = pods[m].stamp
            /\ pods'[m].deleting = pods[m].deleting
            /\ m # n => pods'[m].phase = pods[m].phase
            /\ pods[m].phase = "Running" => pods'[m].phase = "Running"
  BY DEF PodStarts, TypeOK, PodStoreTypeOK, Pod
<1> QED
  BY <1>1 DEF KeepsLabels, KeepsServing, Serving, Ready, TypeOK, PodStoreTypeOK, Pod

LEMMA RemovedPods ==
    ASSUME TypeOK, NEW n, PodRemoved(n)
    PROVE  /\ KeepsLabels /\ KeepsServing
           /\ DOMAIN pods' = DOMAIN pods \ {n}
           /\ \A m \in DOMAIN pods' : pods'[m] = pods[m]
<1>1. /\ DOMAIN pods' = DOMAIN pods \ {n} /\ pods[n].deleting
      /\ \A m \in DOMAIN pods' : pods'[m] = pods[m]
  BY DEF PodRemoved, Without, Restrict
<1> QED
  BY <1>1 DEF KeepsLabels, KeepsServing, Serving, Ready, TypeOK, PodStoreTypeOK, Pod

LEMMA CreatedPods ==
    ASSUME TypeOK, NEW s, s \notin DOMAIN pods, NEW new, pods' = Created(s, new)
    PROVE  /\ KeepsLabels /\ KeepsServing
           /\ DOMAIN pods' = DOMAIN pods \cup {s}
           /\ pods'[s] = new
           /\ \A m \in DOMAIN pods : pods'[m] = pods[m]
<1>1. /\ DOMAIN pods' = DOMAIN pods \cup {s} /\ pods'[s] = new
      /\ \A m \in DOMAIN pods : pods'[m] = pods[m]
  BY DEF Created, With
<1> QED
  BY <1>1 DEF KeepsLabels, KeepsServing, Serving, Ready, TypeOK, PodStoreTypeOK, Pod

-----------------------------------------------------------------------------
(* What preserves each conjunct of the invariant. *)

NoneCreated == DOMAIN pods' \subseteq DOMAIN pods

ReadyInTime ==
    \A n \in DOMAIN pods \cap DOMAIN pods' :
        Ready(n)' => Ready(n) \/ clock < pods[n].stamp + ReadyWithin

LEMMA FieldTypes ==
    ASSUME TypeOK
    PROVE  /\ clock \in Nat /\ faults \in Nat
           /\ \A n \in DOMAIN pods : pods[n].stamp \in Nat /\ pods[n].ws \in Ids
           /\ \A s \in DOMAIN tasks : tasks[s].polls \in Nat /\ tasks[s].wake \in Nat
           /\ \A e \in sweeps : e.stamp \in Nat /\ e.seen \in Nat
           /\ ReadyWithin \in Nat /\ MaxPolls \in Nat /\ MaxFaults \in Nat
           /\ MaxLag \in Nat /\ UpgradeTimeout \in Nat
BY PodStoreAssumption, UpgradingAssumption DEF TypeOK, PodStoreTypeOK, Pod, Task, Sweep

LEMMA StampsOrderKept ==
    ASSUME StampsOrder, TypeOK, TypeOK', KeepsLabels, NoneCreated, clock' >= clock
    PROVE  StampsOrder'
<1>1. /\ clock \in Nat /\ clock' \in Nat
      /\ \A n \in DOMAIN pods : pods[n].stamp \in Nat
  BY FieldTypes DEF TypeOK, PodStoreTypeOK
<1>2. \A n \in DOMAIN pods' : n \in DOMAIN pods /\ pods'[n].stamp = pods[n].stamp /\ pods'[n].ws = pods[n].ws
  BY DEF NoneCreated, KeepsLabels
<1> QED
  BY <1>1, <1>2 DEF StampsOrder

LEMMA FreshNamesKept ==
    ASSUME FreshNames, Mentioned' \cup DOMAIN pods' \subseteq Mentioned \cup DOMAIN pods,
           \A s \in Suffixes : s \notin used' \/ InStep(s, "create")'
                                   => s \notin used \/ InStep(s, "create")
    PROVE  FreshNames'
BY DEF FreshNames

LEMMA CondemnedKept ==
    ASSUME CondemnedSuperseded, TypeOK, TypeOK', KeepsLabels, KeepsServing,
           \A o \in Condemned' \cap DOMAIN pods' :
              /\ o \in DOMAIN pods
              /\ o \in Condemned \/ (pods[o].ws \in SideBySide => Superseded(o))
    PROVE  CondemnedSuperseded'
<1> SUFFICES ASSUME NEW o \in Condemned' \cap DOMAIN pods', pods'[o].ws \in SideBySide'
             PROVE  Superseded(o)'
  BY DEF CondemnedSuperseded
<1>1. o \in DOMAIN pods /\ pods[o].ws \in SideBySide
  BY DEF KeepsLabels, SideBySide
<1>2. Superseded(o)
  BY <1>1 DEF CondemnedSuperseded
<1> QED
  BY <1>1, <1>2, SupersededKept

LEMMA TerminatingKept ==
    ASSUME TypeOK, TypeOK', KeepsLabels, KeepsServing,
           \A o \in DOMAIN pods' :
              Ready(o)' /\ pods'[o].deleting /\ pods'[o].ws \in SideBySide
                  => o \in DOMAIN pods /\ Superseded(o)
    PROVE  TerminatingSuperseded'
<1> SUFFICES ASSUME NEW o \in DOMAIN pods',
                    Ready(o)', pods'[o].deleting, pods'[o].ws \in SideBySide'
             PROVE  Superseded(o)'
  BY DEF TerminatingSuperseded
<1>1. o \in DOMAIN pods /\ Superseded(o) /\ pods[o].ws \in SideBySide
  BY DEF KeepsLabels, SideBySide
<1> QED
  BY <1>1, SupersededKept

LEMMA ChecksKept ==
    ASSUME ChecksAreRecent, TypeOK, KeepsLabels, ReadyInTime, UNCHANGED clock,
           \A e \in sweeps' : e.step = "check" =>
              e \in sweeps /\ (e.new \in DOMAIN pods' => e.new \in DOMAIN pods)
    PROVE  ChecksAreRecent'
<1> SUFFICES ASSUME NEW e \in sweeps', e.step = "check"
             PROVE  /\ e.seen <= clock' /\ clock' <= e.seen + MaxLag
                    /\ e.new \in DOMAIN pods' =>
                          /\ e.stamp = pods'[e.new].stamp
                          /\ Ready(e.new)' => e.seen < e.stamp + ReadyWithin
  BY DEF ChecksAreRecent
<1>1. /\ e \in sweeps /\ e.seen <= clock /\ clock <= e.seen + MaxLag
      /\ e.seen \in Nat /\ e.stamp \in Nat /\ clock \in Nat /\ ReadyWithin \in Nat
  BY FieldTypes DEF ChecksAreRecent
<1>2. ASSUME e.new \in DOMAIN pods'
      PROVE  /\ e.stamp = pods'[e.new].stamp
             /\ Ready(e.new)' => e.seen < e.stamp + ReadyWithin
  <2>1. /\ e.new \in DOMAIN pods
        /\ e.stamp = pods[e.new].stamp
        /\ Ready(e.new) => e.seen < e.stamp + ReadyWithin
    BY <1>2, <1>1 DEF ChecksAreRecent
  <2>2. e.stamp = pods'[e.new].stamp
    BY <1>2, <2>1 DEF KeepsLabels
  <2>3. Ready(e.new)' => Ready(e.new) \/ clock < e.stamp + ReadyWithin
    BY <1>2, <2>1 DEF ReadyInTime
  <2> QED
    BY <1>1, <2>1, <2>2, <2>3
<1> QED
  BY <1>1, <1>2

LEMMA FailedKept ==
    ASSUME FailedNeverReady, TypeOK, TypeOK', KeepsLabels, ReadyInTime, clock' >= clock,
           \A o \in Failed' \cap DOMAIN pods' :
              /\ o \in DOMAIN pods
              /\ o \in Failed \/ (~Ready(o) /\ pods[o].stamp + ReadyWithin <= clock)
    PROVE  FailedNeverReady'
<1> SUFFICES ASSUME NEW o \in Failed' \cap DOMAIN pods'
             PROVE  ~Ready(o)' /\ pods'[o].stamp + ReadyWithin <= clock'
  BY DEF FailedNeverReady
<1>1. o \in DOMAIN pods /\ ~Ready(o) /\ pods[o].stamp + ReadyWithin <= clock
  BY DEF FailedNeverReady
<1>2. /\ pods[o].stamp \in Nat /\ clock \in Nat /\ clock' \in Nat /\ ReadyWithin \in Nat
      /\ pods'[o].stamp = pods[o].stamp
  BY <1>1, FieldTypes DEF KeepsLabels, TypeOK, PodStoreTypeOK
<1>3. Ready(o)' => clock < pods[o].stamp + ReadyWithin
  BY <1>1 DEF ReadyInTime
<1> QED
  BY <1>1, <1>2, <1>3

\* A task that goes on, of which only step, polls and wake may change.
Continues(s) ==
    /\ s \in DOMAIN tasks
    /\ tasks'[s].old = tasks[s].old
    /\ tasks'[s].ws = tasks[s].ws
    /\ tasks'[s].step \in {"poll", "dropNew"} => tasks[s].step \in {"poll", "dropNew"}

LEMMA TasksReplaceKept ==
    ASSUME TasksReplace, KeepsLabels, NoneCreated, \A s \in DOMAIN tasks' : Continues(s)
    PROVE  TasksReplace'
BY DEF TasksReplace, KeepsLabels, NoneCreated, Continues

LEMMA PollsCountKept ==
    ASSUME PollsCount, TypeOK, TypeOK', KeepsLabels, NoneCreated, clock' >= clock,
           faults <= faults', faults' <= MaxFaults,
           \A n \in DOMAIN pods' : Ready(n)' => Ready(n),
           \A s \in DOMAIN tasks' : tasks'[s].step \in {"create", "poll"} =>
              s \in DOMAIN tasks /\ tasks'[s] = tasks[s]
    PROVE  PollsCount'
<1> SUFFICES ASSUME NEW s \in DOMAIN tasks'
             PROVE  LET t == tasks'[s] IN
                      /\ t.step = "create" => t.polls = 0
                      /\ t.step = "poll" =>
                            /\ t.wake <= clock' + 1
                            /\ s \in DOMAIN pods' =>
                                  /\ t.polls + pods'[s].stamp <= t.wake
                                  /\ Ready(s)' => t.polls <= ReadyWithin + faults'
  BY DEF PollsCount
<1>1. CASE tasks'[s].step = "create"
  BY <1>1 DEF PollsCount
<1>2. CASE tasks'[s].step = "poll"
  <2>1. s \in DOMAIN tasks /\ tasks'[s] = tasks[s] /\ tasks[s].step = "poll"
    BY <1>2
  <2>2. /\ clock \in Nat /\ clock' \in Nat /\ faults \in Nat /\ faults' \in Nat
        /\ tasks[s].polls \in Nat /\ tasks[s].wake \in Nat /\ ReadyWithin \in Nat
    BY <2>1, FieldTypes DEF TypeOK, PodStoreTypeOK
  <2>3. tasks[s].wake <= clock + 1
    BY <2>1 DEF PollsCount
  <2>4. ASSUME s \in DOMAIN pods'
        PROVE  /\ tasks[s].polls + pods'[s].stamp <= tasks[s].wake
               /\ Ready(s)' => tasks[s].polls <= ReadyWithin + faults'
    <3>1. /\ s \in DOMAIN pods /\ pods'[s].stamp = pods[s].stamp
          /\ Ready(s)' => Ready(s)
      BY <2>4 DEF NoneCreated, KeepsLabels
    <3>2. /\ tasks[s].polls + pods[s].stamp <= tasks[s].wake
          /\ Ready(s) => tasks[s].polls <= ReadyWithin + faults
      BY <2>1, <3>1 DEF PollsCount
    <3> QED
      BY <2>2, <3>1, <3>2
  <2> QED
    BY <1>2, <2>1, <2>2, <2>3, <2>4
<1>3. CASE tasks'[s].step \notin {"create", "poll"}
  BY <1>3
<1> QED
  BY <1>1, <1>2, <1>3

-----------------------------------------------------------------------------
(* Steps that create and remove no pod, start none, and take no time. *)

LEMMA MarkingStep ==
    ASSUME Inv, TypeOK', OnlyMarks, KeepsServing, UNCHANGED clock,
           PollsCount', ChecksAreRecent', TasksReplace',
           Mentioned' \subseteq Mentioned \cup DOMAIN pods,
           \A s \in Suffixes : s \notin used' \/ InStep(s, "create")'
                                   => s \notin used \/ InStep(s, "create"),
           \A o \in Condemned' \cap DOMAIN pods :
              o \in Condemned \/ (pods[o].ws \in SideBySide => Superseded(o)),
           \A o \in Failed' \cap DOMAIN pods :
              o \in Failed \/ (~Ready(o) /\ pods[o].stamp + ReadyWithin <= clock),
           \A o \in DOMAIN pods :
              Ready(o) /\ pods'[o].deleting /\ pods[o].ws \in SideBySide => Superseded(o)
    PROVE  Inv'
<1>1. KeepsLabels /\ NoneCreated /\ DOMAIN pods' = DOMAIN pods
  BY DEF OnlyMarks, KeepsLabels, NoneCreated
<1>2. \A n \in DOMAIN pods : Ready(n)' <=> Ready(n)
  BY DEF OnlyMarks, Ready
<1>3. ReadyInTime
  BY <1>2 DEF ReadyInTime
<1>4. clock \in Nat /\ clock' >= clock
  BY FieldTypes DEF Inv
<1>5. StampsOrder'
  BY <1>1, <1>4, StampsOrderKept DEF Inv
<1>6. FreshNames'
  BY <1>1, FreshNamesKept DEF Inv
<1>7. CondemnedSuperseded'
  BY <1>1, CondemnedKept DEF Inv
<1>8. FailedNeverReady'
  BY <1>1, <1>3, <1>4, FailedKept DEF Inv
<1>9. TerminatingSuperseded'
  <2>1. \A o \in DOMAIN pods' :
           Ready(o)' /\ pods'[o].deleting /\ pods'[o].ws \in SideBySide
               => o \in DOMAIN pods /\ Superseded(o)
    BY <1>1, <1>2 DEF KeepsLabels
  <2> QED
    BY <1>1, <2>1, TerminatingKept DEF Inv
<1>10. ZeroDowntime'
  BY ZeroDowntimeKept DEF Inv
<1> QED
  BY <1>5, <1>6, <1>7, <1>8, <1>9, <1>10 DEF Inv

\* The tasks and clean-ups go on: they end, or decide on a deletion.
GoesOn ==
    /\ UNCHANGED <<clock, used>>
    /\ faults <= faults' /\ faults' <= MaxFaults
    /\ \A s \in DOMAIN tasks' :
          Continues(s) /\ (tasks'[s].step \in {"create", "poll"} => tasks'[s] = tasks[s])
    /\ \A e \in sweeps' :
          /\ e.step = "check" => e \in sweeps
          /\ \E d \in sweeps : e.new = d.new /\ e.old = d.old

LEMMA NothingNewMentioned ==
    ASSUME TypeOK, \A s \in DOMAIN tasks' : s \in DOMAIN tasks /\ tasks'[s].old = tasks[s].old,
           \A e \in sweeps' : \E d \in sweeps : e.new = d.new /\ e.old = d.old
    PROVE  Mentioned' \subseteq Mentioned
BY DEF Mentioned

LEMMA GoesOnStep ==
    ASSUME Inv, TypeOK', OnlyMarks, KeepsServing, GoesOn,
           \A o \in Condemned' \cap DOMAIN pods :
              o \in Condemned \/ (pods[o].ws \in SideBySide => Superseded(o)),
           \A o \in Failed' \cap DOMAIN pods :
              o \in Failed \/ (~Ready(o) /\ pods[o].stamp + ReadyWithin <= clock),
           \A o \in DOMAIN pods :
              Ready(o) /\ pods'[o].deleting /\ pods[o].ws \in SideBySide => Superseded(o)
    PROVE  Inv'
<1>1. KeepsLabels /\ NoneCreated /\ DOMAIN pods' = DOMAIN pods
  BY DEF OnlyMarks, KeepsLabels, NoneCreated
<1>2. \A n \in DOMAIN pods' : Ready(n)' => Ready(n)
  BY <1>1 DEF OnlyMarks, Ready
<1>3. clock \in Nat /\ clock' >= clock /\ TypeOK
  BY FieldTypes DEF Inv, GoesOn
<1>4. PollsCount'
  <2>1. \A s \in DOMAIN tasks' : tasks'[s].step \in {"create", "poll"} =>
              s \in DOMAIN tasks /\ tasks'[s] = tasks[s]
    BY DEF GoesOn, Continues
  <2> QED
    BY <1>1, <1>2, <1>3, <2>1, PollsCountKept DEF Inv, GoesOn
<1>5. ChecksAreRecent'
  BY <1>1, <1>2, <1>3, ChecksKept DEF Inv, GoesOn, ReadyInTime
<1>6. TasksReplace'
  BY <1>1, TasksReplaceKept DEF Inv, GoesOn
<1>7. Mentioned' \subseteq Mentioned
  BY <1>3, NothingNewMentioned DEF GoesOn, Continues
<1>8. \A s \in Suffixes : s \notin used' \/ InStep(s, "create")'
                                   => s \notin used \/ InStep(s, "create")
  BY DEF GoesOn, Continues, InStep
<1> QED
  BY <1>4, <1>5, <1>6, <1>7, <1>8, MarkingStep DEF GoesOn

-----------------------------------------------------------------------------
(* Listings: what they find is safe to act on. *)

LEMMA FoundSweep ==
    ASSUME Inv, NEW V \in SUBSET DOMAIN pods, NEW W, NEW found \in Findings(V, W), NEW e \in found
    PROVE  /\ e.new \in DOMAIN pods /\ e.old \in DOMAIN pods
           /\ \/ /\ e.step = "dropOld"
                 /\ pods[e.old].ws \in SideBySide => Superseded(e.old)
              \/ /\ e.step = "check"
                 /\ e.seen = clock /\ e.stamp = pods[e.new].stamp /\ ~Ready(e.new)
<1>1. PICK m, n \in V :
         e = SweepOf(m, n) /\ m # n /\ pods[m].ws = pods[n].ws /\ pods[n].stamp <= pods[m].stamp
  BY FoundPair
<1>2. m \in DOMAIN pods /\ n \in DOMAIN pods /\ e.new = m /\ e.old = n
  BY <1>1 DEF SweepOf
<1>3. pods[m].stamp \in Nat /\ pods[n].stamp \in Nat /\ pods[n].stamp < pods[m].stamp
  BY <1>1, <1>2, FieldTypes DEF Inv, StampsOrder
<1>4. CASE Ready(m)
  <2>1. pods[n].ws \in SideBySide => Superseded(n)
    <3>1. CASE ~pods[m].deleting
      BY <1>1, <1>2, <1>3, <1>4, <3>1 DEF Superseded, Serving
    <3>2. CASE pods[m].deleting
      <4> SUFFICES ASSUME pods[n].ws \in SideBySide PROVE Superseded(n)
        OBVIOUS
      <4>1. Superseded(m)
        BY <1>1, <1>2, <1>4, <3>2 DEF Inv, TerminatingSuperseded
      <4>2. PICK a \in DOMAIN pods :
               Serving(a) /\ pods[a].ws = pods[m].ws /\ pods[a].stamp > pods[m].stamp
        BY <4>1 DEF Superseded
      <4>3. pods[a].stamp \in Nat
        BY FieldTypes DEF Inv
      <4>4. pods[a].stamp > pods[n].stamp
        BY <1>3, <4>2, <4>3
      <4> QED
        BY <1>1, <4>2, <4>4 DEF Superseded
    <3> QED
      BY <1>2, <3>1, <3>2, FieldTypes DEF Inv, TypeOK, PodStoreTypeOK, Pod
  <2>2. e.step = "dropOld"
    BY <1>1, <1>4 DEF SweepOf
  <2> QED
    BY <1>2, <2>1, <2>2
<1>5. CASE ~Ready(m)
  BY <1>1, <1>2, <1>5 DEF SweepOf
<1> QED
  BY <1>4, <1>5

LEMMA ListingStep ==
    ASSUME SafeTiming, Inv, TypeOK', UNCHANGED <<pods, clock, used>>,
           tasks' = tasks \/ tasks' = << >>,
           faults <= faults', faults' <= MaxFaults,
           NEW V \in SUBSET DOMAIN pods, NEW W, NEW found \in Findings(V, W),
           sweeps' \subseteq sweeps \cup found
    PROVE  Inv'
<1>1. TypeOK /\ OnlyMarks /\ KeepsServing /\ KeepsLabels /\ NoneCreated
  BY UnchangedPods DEF Inv, NoneCreated
<1>2. \A s \in DOMAIN tasks' : s \in DOMAIN tasks /\ tasks'[s] = tasks[s]
  OBVIOUS
<1>3. \A n \in DOMAIN pods' : Ready(n)' <=> Ready(n)
  BY DEF Ready
<1>4. clock \in Nat /\ clock' >= clock
  BY FieldTypes DEF Inv
<1>5. PollsCount'
  BY <1>1, <1>2, <1>3, <1>4, PollsCountKept DEF Inv
<1>6. TasksReplace'
  BY <1>1, <1>2, TasksReplaceKept DEF Inv, Continues
<1>7. ChecksAreRecent'
  <2> SUFFICES ASSUME NEW e \in sweeps', e.step = "check"
               PROVE  /\ e.seen <= clock /\ clock <= e.seen + MaxLag
                      /\ e.new \in DOMAIN pods =>
                            /\ e.stamp = pods[e.new].stamp
                            /\ Ready(e.new) => e.seen < e.stamp + ReadyWithin
    BY DEF ChecksAreRecent, Ready
  <2>1. CASE e \in sweeps
    BY <2>1 DEF Inv, ChecksAreRecent
  <2>2. CASE e \in found
    BY <2>2, FoundSweep, FieldTypes DEF Inv
  <2> QED
    BY <2>1, <2>2
<1>8. Mentioned' \subseteq Mentioned \cup DOMAIN pods
  BY <1>2, FoundSweep DEF Mentioned
<1>9. \A s \in Suffixes : s \notin used' \/ InStep(s, "create")'
                                   => s \notin used \/ InStep(s, "create")
  BY <1>2 DEF InStep
<1>10. \A o \in Condemned' \cap DOMAIN pods :
              o \in Condemned \/ (pods[o].ws \in SideBySide => Superseded(o))
  BY <1>2, FoundSweep DEF Condemned
<1>11. Failed' \subseteq Failed
  BY <1>2, FoundSweep DEF Failed
<1>12. \A o \in DOMAIN pods :
              Ready(o) /\ pods'[o].deleting /\ pods[o].ws \in SideBySide => Superseded(o)
  BY DEF Inv, TerminatingSuperseded
<1> QED
  BY <1>1, <1>5, <1>6, <1>7, <1>8, <1>9, <1>10, <1>11, <1>12, MarkingStep

-----------------------------------------------------------------------------
(* The start of an upgrade. *)

LEMMA LaunchStep ==
    ASSUME Inv, TypeOK', UNCHANGED <<pods, clock, sweeps, faults>>,
           NEW u, NEW w, NEW s, Launch(u, w, s)
    PROVE  Inv'
<1>1. TypeOK /\ OnlyMarks /\ KeepsServing /\ KeepsLabels /\ NoneCreated
  BY UnchangedPods DEF Inv, NoneCreated
<1>2. PICK old \in DOMAIN pods : tasks' = With(tasks, s, NewTask(old))
  BY DEF Launch, Upgradable, OfWorkspace
<1>3. s \in Suffixes /\ s \notin used /\ used' = used \cup {s} /\ s \notin DOMAIN tasks
  BY <1>1 DEF Launch, TypeOK
<1>4. /\ DOMAIN tasks' = DOMAIN tasks \cup {s}
      /\ tasks'[s].old = old /\ tasks'[s].ws = pods[old].ws
      /\ tasks'[s].step = "create" /\ tasks'[s].polls = 0
      /\ \A t \in DOMAIN tasks : t # s /\ tasks'[t] = tasks[t]
  BY <1>2, <1>3 DEF With, NewTask
<1>5. PollsCount'
  BY <1>4 DEF Inv, PollsCount, Ready
<1>6. TasksReplace'
  BY <1>4 DEF Inv, TasksReplace
<1>7. ChecksAreRecent'
  BY DEF Inv, ChecksAreRecent, Ready
<1>8. Mentioned' \subseteq Mentioned \cup DOMAIN pods
  BY <1>4 DEF Mentioned
<1>9. \A r \in Suffixes : r \notin used' \/ InStep(r, "create")'
                                   => r \notin used \/ InStep(r, "create")
  BY <1>3, <1>4 DEF InStep
<1>10. Condemned' \subseteq Condemned /\ Failed' \subseteq Failed
  BY <1>4 DEF Condemned, Failed
<1>11. \A o \in DOMAIN pods :
              Ready(o) /\ pods'[o].deleting /\ pods[o].ws \in SideBySide => Superseded(o)
  BY DEF Inv, TerminatingSuperseded
<1> QED
  BY <1>1, <1>5, <1>6, <1>7, <1>8, <1>9, <1>10, <1>11, MarkingStep

-----------------------------------------------------------------------------
(* The background task. *)

LEMMA TaskCreateStep ==
    ASSUME SafeTiming, Inv, TypeOK', NEW s \in Suffixes, TaskCreate(s)
    PROVE  Inv'
<1> DEFINE t == tasks[s]
           new == NewPod(t.owner, t.ws, t.error)
<1>1. /\ s \in DOMAIN tasks /\ t.step = "create"
      /\ pods' = Created(s, new)
      /\ UNCHANGED <<clock, used, sweeps, faults>>
      /\ \A n \in OfWorkspace(t.ws) : pods[n].stamp # clock
  BY DEF TaskCreate, InStep, SafeTiming
<1>2. TypeOK /\ clock \in Nat /\ \A n \in DOMAIN pods : pods[n].stamp \in Nat
  BY FieldTypes DEF Inv
<1>3. s \notin DOMAIN pods /\ s \notin Mentioned
  BY <1>1 DEF Inv, FreshNames, InStep
<1>4. /\ KeepsLabels /\ KeepsServing
      /\ DOMAIN pods' = DOMAIN pods \cup {s}
      /\ pods'[s] = new
      /\ \A m \in DOMAIN pods : pods'[m] = pods[m]
  BY <1>1, <1>2, <1>3, CreatedPods
<1>5. /\ new.ws = t.ws /\ new.stamp = clock /\ ~new.deleting /\ new.phase = "Pending"
  BY DEF NewPod
<1>6. /\ DOMAIN tasks' = DOMAIN tasks
      /\ \A r \in DOMAIN tasks : r # s => tasks'[r] = tasks[r]
      /\ tasks'[s].old = t.old /\ tasks'[s].ws = t.ws
      /\ \/ tasks'[s].step = "dropOld" /\ t.ws \in PvcIds
         \/ tasks'[s].step = "poll" /\ tasks'[s].polls = t.polls /\ tasks'[s].wake = clock
  BY <1>1, <1>2 DEF TaskCreate, TypeOK, Task
<1>7. t.old # s /\ \A r \in DOMAIN tasks : tasks[r].old # s
  BY <1>1, <1>3 DEF Mentioned
<1>8. \A e \in sweeps : e.new # s /\ e.old # s
  BY <1>3 DEF Mentioned
<1>9. StampsOrder'
  <2>1. \A n \in DOMAIN pods' : pods'[n].stamp <= clock'
    BY <1>1, <1>2, <1>4, <1>5 DEF Inv, StampsOrder
  <2>2. \A n \in DOMAIN pods : pods[n].ws = t.ws => pods[n].stamp # clock
    BY <1>1 DEF OfWorkspace
  <2>3. ASSUME NEW m \in DOMAIN pods', NEW n \in DOMAIN pods',
               pods'[m].ws = pods'[n].ws, pods'[m].stamp = pods'[n].stamp
        PROVE  m = n
    BY <1>4, <1>5, <2>2, <2>3 DEF Inv, StampsOrder
  <2> QED
    BY <2>1, <2>3 DEF StampsOrder
<1>10. FreshNames'
  <2>1. Mentioned' \subseteq Mentioned
    BY <1>1, <1>6 DEF Mentioned
  <2>2. \A r \in Suffixes : r \notin used' \/ InStep(r, "create")' =>
            r # s /\ (r \notin used \/ InStep(r, "create"))
    BY <1>1, <1>2, <1>6 DEF InStep, TypeOK
  <2> QED
    BY <1>4, <2>1, <2>2 DEF Inv, FreshNames
<1>11. TasksReplace'
  <2> SUFFICES ASSUME NEW r \in DOMAIN tasks'
               PROVE  LET q == tasks'[r] IN
                        /\ q.old \in DOMAIN pods' => pods'[q.old].ws = q.ws
                        /\ q.step \in {"poll", "dropNew"} /\ r \in DOMAIN pods' =>
                              /\ pods'[r].ws = q.ws
                              /\ q.old \in DOMAIN pods' => pods'[q.old].stamp < pods'[r].stamp
    BY DEF TasksReplace
  <2>1. CASE r # s
    <3>1. tasks'[r] = tasks[r] /\ r \in DOMAIN tasks /\ tasks[r].old # s
      BY <1>6, <1>7, <2>1
    <3> QED
      BY <1>4, <2>1, <3>1 DEF Inv, TasksReplace
  <2>2. CASE r = s
    <3>1. t.old \in DOMAIN pods' => t.old \in DOMAIN pods /\ pods'[t.old] = pods[t.old]
      BY <1>4, <1>7
    <3>2. t.old \in DOMAIN pods => pods[t.old].ws = t.ws
      BY <1>1 DEF Inv, TasksReplace
    <3>3. t.old \in DOMAIN pods => pods[t.old].stamp < clock
      BY <1>1, <1>2, <3>2 DEF Inv, StampsOrder, OfWorkspace
    <3> QED
      BY <1>4, <1>5, <1>6, <2>2, <3>1, <3>2, <3>3
  <2> QED
    BY <2>1, <2>2
<1>12. PollsCount'
  <2> SUFFICES ASSUME NEW r \in DOMAIN tasks'
               PROVE  LET q == tasks'[r] IN
                        /\ q.step = "create" => q.polls = 0
                        /\ q.step = "poll" =>
                              /\ q.wake <= clock' + 1
                              /\ r \in DOMAIN pods' =>
                                    /\ q.polls + pods'[r].stamp <= q.wake
                                    /\ Ready(r)' => q.polls <= ReadyWithin + faults'
    BY <1>1 DEF Inv, PollsCount
  <2>1. CASE r # s
    <3>1. tasks'[r] = tasks[r] /\ r \in DOMAIN tasks
      BY <1>6, <2>1
    <3>2. r \in DOMAIN pods' => r \in DOMAIN pods /\ pods'[r] = pods[r]
      BY <1>4, <2>1
    <3> QED
      BY <1>1, <3>1, <3>2 DEF Inv, PollsCount, Ready
  <2>2. CASE r = s
    <3>1. t.polls = 0
      BY <1>1 DEF Inv, PollsCount
    <3>2. ~Ready(s)'
      BY <1>4, <1>5 DEF Ready
    <3> QED
      BY <1>1, <1>2, <1>4, <1>5, <1>6, <2>2, <3>1, <3>2
  <2> QED
    BY <2>1, <2>2
<1>13. ChecksAreRecent'
  <2>1. ReadyInTime
    BY <1>4 DEF ReadyInTime, Ready
  <2> QED
    BY <1>1, <1>2, <1>4, <1>8, <2>1, ChecksKept DEF Inv
<1>14. CondemnedSuperseded'
  <2>1. ASSUME NEW o \in Condemned' \cap DOMAIN pods'
        PROVE  /\ o \in DOMAIN pods
               /\ o \in Condemned \/ (pods[o].ws \in SideBySide => Superseded(o))
    <3>1. \/ o \in Condemned
          \/ o = t.old /\ t.ws \in PvcIds
      BY <1>1, <1>6 DEF Condemned
    <3>2. o # s
      BY <1>3, <1>7, <3>1 DEF Condemned, Mentioned
    <3>3. o \in DOMAIN pods
      BY <1>4, <3>2
    <3>4. o = t.old => pods[o].ws = t.ws
      BY <1>1, <3>3 DEF Inv, TasksReplace
    <3> QED
      BY <3>1, <3>3, <3>4 DEF SideBySide
  <2> QED
    BY <1>2, <1>4, <2>1, CondemnedKept DEF Inv
<1>15. FailedNeverReady'
  <2>1. ASSUME NEW o \in Failed' PROVE o \in Failed /\ o # s
    BY <1>1, <1>6, <1>8 DEF Failed
  <2> QED
    BY <1>1, <1>4, <2>1 DEF Inv, FailedNeverReady, Ready
<1>16. TerminatingSuperseded'
  <2>1. ASSUME NEW o \in DOMAIN pods', Ready(o)', pods'[o].deleting, pods'[o].ws \in SideBySide
        PROVE  o \in DOMAIN pods /\ Superseded(o)
    BY <1>4, <1>5, <2>1 DEF Inv, TerminatingSuperseded, Ready
  <2> QED
    BY <1>2, <1>4, <2>1, TerminatingKept
<1>17. ZeroDowntime'
  BY <1>4, ZeroDowntimeKept DEF Inv
<1> QED
  BY <1>9, <1>10, <1>11, <1>12, <1>13, <1>14, <1>15, <1>16, <1>17 DEF Inv

\* A poll that does not find the new pod ready, for whatever reason.
LEMMA PolledStep ==
    ASSUME Inv, TypeOK', UNCHANGED <<pods, clock, used, sweeps>>, faults' <= MaxFaults,
           faults' \in Nat, NEW s \in Suffixes, Polling(s), tasks' = Polled(s),
           \/ faults' = faults + 1
           \/ faults' = faults /\ ~(s \in DOMAIN pods /\ Ready(s))
    PROVE  Inv'
<1> DEFINE t == tasks[s]
<1>1. TypeOK /\ OnlyMarks /\ KeepsServing /\ KeepsLabels /\ NoneCreated
  BY UnchangedPods DEF Inv, NoneCreated
<1>2. s \in DOMAIN tasks /\ t.step = "poll" /\ clock >= t.wake
  BY DEF Polling, InStep
<1>3. /\ DOMAIN tasks' = DOMAIN tasks
      /\ \A r \in DOMAIN tasks : r # s => tasks'[r] = tasks[r]
      /\ tasks'[s].old = t.old /\ tasks'[s].ws = t.ws /\ tasks'[s].step = "poll"
      /\ tasks'[s].polls = t.polls + 1 /\ tasks'[s].wake = clock + 1
  BY <1>1, <1>2 DEF Polled, TypeOK, Task
<1>4. /\ clock \in Nat /\ faults \in Nat /\ ReadyWithin \in Nat
      /\ \A r \in DOMAIN tasks : tasks[r].polls \in Nat /\ tasks[r].wake \in Nat
      /\ \A n \in DOMAIN pods : pods[n].stamp \in Nat
  BY <1>1, FieldTypes
<1>5. PollsCount'
  <2> SUFFICES ASSUME NEW r \in DOMAIN tasks'
               PROVE  LET q == tasks'[r] IN
                        /\ q.step = "create" => q.polls = 0
                        /\ q.step = "poll" =>
                              /\ q.wake <= clock + 1
                              /\ r \in DOMAIN pods =>
                                    /\ q.polls + pods[r].stamp <= q.wake
                                    /\ Ready(r) => q.polls <= ReadyWithin + faults'
    BY DEF PollsCount, Ready
  <2>1. CASE r # s
    <3>1. tasks'[r] = tasks[r] /\ r \in DOMAIN tasks
      BY <1>3, <2>1
    <3> QED
      BY <1>4, <3>1 DEF Inv, PollsCount
  <2>2. CASE r = s
    <3>1. s \in DOMAIN pods =>
              /\ t.polls + pods[s].stamp <= t.wake
              /\ Ready(s) => t.polls <= ReadyWithin + faults
      BY <1>2 DEF Inv, PollsCount
    <3> QED
      BY <1>2, <1>3, <1>4, <2>2, <3>1
  <2> QED
    BY <2>1, <2>2
<1>6. TasksReplace'
  BY <1>1, <1>2, <1>3, TasksReplaceKept DEF Inv, Continues
<1>7. ChecksAreRecent'
  BY DEF Inv, ChecksAreRecent, Ready
<1>8. Mentioned' \subseteq Mentioned \cup DOMAIN pods
  BY <1>3 DEF Mentioned
<1>9. \A r \in Suffixes : r \notin used' \/ InStep(r, "create")'
                                   => r \notin used \/ InStep(r, "create")
  BY <1>3 DEF InStep
<1>10. Condemned' \subseteq Condemned /\ Failed' \subseteq Failed
  BY <1>2, <1>3 DEF Condemned, Failed
<1>11. \A o \in DOMAIN pods :
              Ready(o) /\ pods'[o].deleting /\ pods[o].ws \in SideBySide => Superseded(o)
  BY DEF Inv, TerminatingSuperseded
<1> QED
  BY <1>1, <1>5, <1>6, <1>7, <1>8, <1>9, <1>10, <1>11, MarkingStep

\* A task that decides on a deletion, and marks the pods or not.
LEMMA DecisionStep ==
    ASSUME Inv, TypeOK', OnlyMarks, KeepsServing, UNCHANGED <<clock, used, sweeps>>,
           faults <= faults', faults' <= MaxFaults,
           \A m \in DOMAIN pods : pods'[m].deleting = pods[m].deleting,
           NEW s \in Suffixes, InStep(s, "poll"),
           \/ /\ tasks' = [tasks EXCEPT ![s].step = "dropOld"]
              /\ \A o \in DOMAIN pods :
                    o = tasks[s].old /\ pods[o].ws \in SideBySide => Superseded(o)
           \/ /\ tasks' = [tasks EXCEPT ![s].step = "dropNew"]
              /\ s \in DOMAIN pods => ~Ready(s) /\ pods[s].stamp + ReadyWithin <= clock
    PROVE  Inv'
<1> DEFINE t == tasks[s]
<1>1. s \in DOMAIN tasks /\ t.step = "poll" /\ TypeOK
  BY DEF InStep, Inv
<1>2. /\ DOMAIN tasks' = DOMAIN tasks
      /\ \A r \in DOMAIN tasks : r # s => tasks'[r] = tasks[r]
      /\ tasks'[s].old = t.old /\ tasks'[s].ws = t.ws
      /\ \/ /\ tasks'[s].step = "dropOld"
            /\ \A o \in DOMAIN pods :
                    o = tasks[s].old /\ pods[o].ws \in SideBySide => Superseded(o)
         \/ /\ tasks'[s].step = "dropNew"
            /\ s \in DOMAIN pods => ~Ready(s) /\ pods[s].stamp + ReadyWithin <= clock
  BY <1>1 DEF TypeOK, Task
<1>3. GoesOn
  BY <1>1, <1>2 DEF GoesOn, Continues
<1>4. \A o \in Condemned' \cap DOMAIN pods :
              o \in Condemned \/ (pods[o].ws \in SideBySide => Superseded(o))
  BY <1>1, <1>2 DEF Condemned
<1>5. \A o \in Failed' \cap DOMAIN pods :
              o \in Failed \/ (~Ready(o) /\ pods[o].stamp + ReadyWithin <= clock)
  BY <1>1, <1>2 DEF Failed
<1>6. \A o \in DOMAIN pods :
              Ready(o) /\ pods'[o].deleting /\ pods[o].ws \in SideBySide => Superseded(o)
  BY DEF Inv, TerminatingSuperseded
<1> QED
  BY <1>3, <1>4, <1>5, <1>6, GoesOnStep

\* A task or a clean-up that ends, and deletes a pod or not.
LEMMA EndingStep ==
    ASSUME Inv, TypeOK', OnlyMarks, KeepsServing, UNCHANGED <<clock, used>>,
           faults <= faults', faults' <= MaxFaults,
           \A s \in DOMAIN tasks' : s \in DOMAIN tasks /\ tasks'[s] = tasks[s],
           sweeps' \subseteq sweeps,
           \A o \in DOMAIN pods :
              Ready(o) /\ pods'[o].deleting /\ pods[o].ws \in SideBySide => Superseded(o)
    PROVE  Inv'
<1>1. GoesOn
  BY DEF GoesOn, Continues
<1>2. Condemned' \subseteq Condemned /\ Failed' \subseteq Failed
  BY DEF Condemned, Failed
<1> QED
  BY <1>1, <1>2, GoesOnStep

\* The deletion of a condemned or failed pod.
LEMMA DroppedPods ==
    ASSUME Inv, NEW d, d \in Condemned \cup Failed, pods' = Deleted(d)
    PROVE  /\ OnlyMarks /\ KeepsServing
           /\ \A o \in DOMAIN pods :
                 Ready(o) /\ pods'[o].deleting /\ pods[o].ws \in SideBySide => Superseded(o)
<1>1. d \in DOMAIN pods /\ pods[d].ws \in SideBySide /\ Ready(d) => Superseded(d)
  BY DEF Inv, CondemnedSuperseded, FailedNeverReady
<1>2. /\ OnlyMarks /\ KeepsServing
      /\ \A m \in DOMAIN pods : m # d => pods'[m].deleting = pods[m].deleting
  BY <1>1, DeletedPods DEF Inv
<1> QED
  BY <1>1, <1>2 DEF Inv, TerminatingSuperseded

\* Time-outs are long enough: a task that gives up has no ready pod.
LEMMA GivenUpInTime ==
    ASSUME SafeTiming, Inv, NEW s \in DOMAIN tasks, tasks[s].step = "poll",
           tasks[s].polls = MaxPolls, clock >= tasks[s].wake, s \in DOMAIN pods
    PROVE  ~Ready(s) /\ pods[s].stamp + ReadyWithin <= clock
<1>1. /\ tasks[s].polls + pods[s].stamp <= tasks[s].wake
      /\ Ready(s) => tasks[s].polls <= ReadyWithin + faults
      /\ faults <= MaxFaults
  BY DEF Inv, PollsCount
<1>2. /\ clock \in Nat /\ faults \in Nat /\ ReadyWithin \in Nat /\ MaxPolls \in Nat
      /\ MaxFaults \in Nat /\ tasks[s].wake \in Nat /\ pods[s].stamp \in Nat
  BY FieldTypes DEF Inv
<1> QED
  BY <1>1, <1>2 DEF SafeTiming

\* A pod that becomes ready supersedes the one it replaces, whoever deletes it.
LEMMA ReadySupersedes ==
    ASSUME Inv, NEW s \in DOMAIN tasks, tasks[s].step = "poll", s \in DOMAIN pods, Ready(s),
           NEW o \in DOMAIN pods, o = tasks[s].old, pods[o].ws \in SideBySide
    PROVE  Superseded(o)
<1>1. pods[s].ws = pods[o].ws /\ pods[o].stamp < pods[s].stamp
  BY DEF Inv, TasksReplace
<1>2. pods[s].deleting \in BOOLEAN /\ \A n \in DOMAIN pods : pods[n].stamp \in Nat
  BY DEF Inv, TypeOK, PodStoreTypeOK, Pod
<1>3. CASE ~pods[s].deleting
  BY <1>1, <1>2, <1>3 DEF Superseded, Serving
<1>4. CASE pods[s].deleting
  <2>1. PICK a \in DOMAIN pods :
           Serving(a) /\ pods[a].ws = pods[s].ws /\ pods[a].stamp > pods[s].stamp
    BY <1>1, <1>4 DEF Inv, TerminatingSuperseded, Superseded
  <2> QED
    BY <1>1, <1>2, <2>1 DEF Superseded
<1> QED
  BY <1>2, <1>3, <1>4

LEMMA TaskSteps ==
    ASSUME SafeTiming, Inv, TypeOK', NEW s \in Suffixes, TaskStep(s) \/ TaskCallFails(s)
    PROVE  Inv'
<1>1. TypeOK /\ faults <= MaxFaults /\ faults \in Nat /\ MaxFaults \in Nat
  BY FieldTypes DEF Inv, PollsCount
<1>2. CASE TaskCreate(s)
  BY <1>2, TaskCreateStep
<1>3. CASE TaskPoll(s)
  <2>1. OnlyMarks /\ KeepsServing /\ \A m \in DOMAIN pods : pods'[m].deleting = pods[m].deleting
    BY <1>1, <1>3, UnchangedPods DEF TaskPoll
  <2>2. CASE s \in DOMAIN pods /\ Ready(s)
    <3>1. \A o \in DOMAIN pods :
             o = tasks[s].old /\ pods[o].ws \in SideBySide => Superseded(o)
      BY <1>3, <2>2, ReadySupersedes DEF TaskPoll, Polling, InStep
    <3>2. /\ UNCHANGED <<clock, used, sweeps, faults>> /\ InStep(s, "poll")
          /\ tasks' = [tasks EXCEPT ![s].step = "dropOld"]
      BY <1>3, <2>2 DEF TaskPoll, Polling
    <3>3. faults <= faults' /\ faults' <= MaxFaults
      BY <1>1, <3>2
    <3> QED
      BY <2>1, <3>1, <3>2, <3>3, DecisionStep
  <2>3. CASE ~(s \in DOMAIN pods /\ Ready(s))
    <3>1. UNCHANGED <<pods, clock, used, sweeps, faults>> /\ Polling(s) /\ tasks' = Polled(s)
      BY <1>3, <2>3 DEF TaskPoll
    <3> QED
      BY <1>1, <2>3, <3>1, PolledStep
  <2> QED
    BY <2>2, <2>3
<1>4. CASE TaskGivesUp(s)
  <2>1. /\ InStep(s, "poll") /\ pods' = Annotated(tasks[s].old)
        /\ tasks' = [tasks EXCEPT ![s].step = "dropNew"]
        /\ UNCHANGED <<clock, used, sweeps, faults>>
    BY <1>4 DEF TaskGivesUp
  <2>2. s \in DOMAIN pods => ~Ready(s) /\ pods[s].stamp + ReadyWithin <= clock
    BY <1>4, GivenUpInTime DEF TaskGivesUp, InStep
  <2>3. OnlyMarks /\ KeepsServing /\ \A m \in DOMAIN pods : pods'[m].deleting = pods[m].deleting
    BY <1>1, <2>1, AnnotatedPods
  <2>4. faults <= faults' /\ faults' <= MaxFaults
    BY <1>1, <2>1
  <2> QED
    BY <2>1, <2>2, <2>3, <2>4, DecisionStep
<1>5. CASE TaskDropNew(s)
  <2>1. /\ s \in Failed /\ pods' = Deleted(s) /\ tasks' = Finished(s)
        /\ UNCHANGED <<clock, used, sweeps, faults>>
    BY <1>5 DEF TaskDropNew, InStep, Failed
  <2>2. /\ OnlyMarks /\ KeepsServing
        /\ \A o \in DOMAIN pods :
              Ready(o) /\ pods'[o].deleting /\ pods[o].ws \in SideBySide => Superseded(o)
    BY <2>1, DroppedPods
  <2>3. faults <= faults' /\ faults' <= MaxFaults /\ sweeps' \subseteq sweeps
    BY <1>1, <2>1
  <2>4. \A r \in DOMAIN tasks' : r \in DOMAIN tasks /\ tasks'[r] = tasks[r]
    BY <1>1, <2>1, FinishedType
  <2> QED
    BY <2>1, <2>2, <2>3, <2>4, EndingStep
<1>6. CASE TaskDropOld(s)
  <2>1. /\ tasks[s].old \in Condemned /\ pods' = Deleted(tasks[s].old) /\ tasks' = Finished(s)
        /\ UNCHANGED <<clock, used, sweeps, faults>>
    BY <1>6 DEF TaskDropOld, InStep, Condemned
  <2>2. /\ OnlyMarks /\ KeepsServing
        /\ \A o \in DOMAIN pods :
              Ready(o) /\ pods'[o].deleting /\ pods[o].ws \in SideBySide => Superseded(o)
    BY <2>1, DroppedPods
  <2>3. faults <= faults' /\ faults' <= MaxFaults /\ sweeps' \subseteq sweeps
    BY <1>1, <2>1
  <2>4. \A r \in DOMAIN tasks' : r \in DOMAIN tasks /\ tasks'[r] = tasks[r]
    BY <1>1, <2>1, FinishedType
  <2> QED
    BY <2>1, <2>2, <2>3, <2>4, EndingStep
<1>7. CASE TaskCallFails(s)
  <2>1. /\ UNCHANGED <<pods, clock, used, sweeps>> /\ faults' = faults + 1
        /\ faults' \in Nat /\ faults' <= MaxFaults /\ faults <= faults'
    BY <1>1, <1>7 DEF TaskCallFails
  <2>2. OnlyMarks /\ KeepsServing /\ \A m \in DOMAIN pods : pods'[m].deleting = pods[m].deleting
    BY <1>1, <2>1, UnchangedPods
  <2>3. CASE Polling(s) /\ tasks' = Polled(s)
    BY <2>1, <2>3, PolledStep
  <2>4. CASE /\ InStep(s, "poll") /\ tasks[s].polls = MaxPolls /\ clock >= tasks[s].wake
             /\ tasks' = [tasks EXCEPT ![s].step = "dropNew"]
    <3>1. s \in DOMAIN pods => ~Ready(s) /\ pods[s].stamp + ReadyWithin <= clock
      BY <2>4, GivenUpInTime DEF InStep
    <3> QED
      BY <2>1, <2>2, <2>4, <3>1, DecisionStep
  <2>5. CASE tasks' = Finished(s)
    <3>1. \A o \in DOMAIN pods :
              Ready(o) /\ pods'[o].deleting /\ pods[o].ws \in SideBySide => Superseded(o)
      BY <2>1 DEF Inv, TerminatingSuperseded
    <3> QED
      BY <1>1, <2>1, <2>2, <2>5, <3>1, FinishedType, EndingStep
  <2> QED
    BY <1>7, <2>3, <2>4, <2>5 DEF TaskCallFails
<1> QED
  BY <1>2, <1>3, <1>4, <1>5, <1>6, <1>7 DEF TaskStep

-----------------------------------------------------------------------------
(* Sweeps. *)

\* A clean-up that gives a new pod up, and marks the old one or not.
LEMMA TimeOutStep ==
    ASSUME SafeTiming, Inv, TypeOK', OnlyMarks, KeepsServing, UNCHANGED <<clock, used, tasks>>,
           faults <= faults', faults' <= MaxFaults,
           \A m \in DOMAIN pods : pods'[m].deleting = pods[m].deleting,
           NEW e \in sweeps, e.step = "check", clock > e.stamp + UpgradeTimeout,
           sweeps' = (sweeps \ {e}) \cup {[e EXCEPT !.step = "dropNew"]}
    PROVE  Inv'
<1> DEFINE d == [e EXCEPT !.step = "dropNew"]
<1>1. d.step = "dropNew" /\ d.new = e.new /\ d.old = e.old
  BY DEF Inv, TypeOK, Sweep
<1>2. sweeps' = (sweeps \ {e}) \cup {d}
  OBVIOUS
<1> HIDE DEF d
<1>3. e.new \in DOMAIN pods => ~Ready(e.new) /\ pods[e.new].stamp + ReadyWithin <= clock
  <2>1. /\ clock \in Nat /\ e.stamp \in Nat /\ e.seen \in Nat /\ ReadyWithin \in Nat
        /\ MaxLag \in Nat /\ UpgradeTimeout \in Nat
    BY FieldTypes DEF Inv
  <2>2. /\ clock <= e.seen + MaxLag
        /\ e.new \in DOMAIN pods =>
              /\ e.stamp = pods[e.new].stamp
              /\ Ready(e.new) => e.seen < e.stamp + ReadyWithin
    BY DEF Inv, ChecksAreRecent
  <2> QED
    BY <2>1, <2>2 DEF SafeTiming
<1>4. GoesOn
  BY <1>1, <1>2 DEF GoesOn, Continues
<1>5. Condemned' \subseteq Condemned
  BY <1>1, <1>2 DEF Condemned
<1>6. \A o \in Failed' \cap DOMAIN pods :
              o \in Failed \/ (~Ready(o) /\ pods[o].stamp + ReadyWithin <= clock)
  BY <1>1, <1>2, <1>3 DEF Failed
<1>7. \A o \in DOMAIN pods :
              Ready(o) /\ pods'[o].deleting /\ pods[o].ws \in SideBySide => Superseded(o)
  BY DEF Inv, TerminatingSuperseded
<1> QED
  BY <1>4, <1>5, <1>6, <1>7, GoesOnStep

LEMMA SweepSteps ==
    ASSUME SafeTiming, Inv, TypeOK', NEW e \in sweeps, SweepStep(e) \/ SweepCallFails(e)
    PROVE  Inv'
<1>1. TypeOK /\ faults <= MaxFaults /\ faults \in Nat /\ MaxFaults \in Nat
  BY FieldTypes DEF Inv, PollsCount
<1>2. \A o \in DOMAIN pods :
          UNCHANGED pods /\ Ready(o) /\ pods'[o].deleting /\ pods[o].ws \in SideBySide
              => Superseded(o)
  BY DEF Inv, TerminatingSuperseded
<1>3. CASE SweepWaits(e)
  BY <1>1, <1>2, <1>3, UnchangedPods, EndingStep DEF SweepWaits
<1>4. CASE SweepTimesOut(e)
  <2>1. OnlyMarks /\ KeepsServing /\ \A m \in DOMAIN pods : pods'[m].deleting = pods[m].deleting
    BY <1>1, <1>4, AnnotatedPods DEF SweepTimesOut
  <2> QED
    BY <1>1, <1>4, <2>1, TimeOutStep DEF SweepTimesOut
<1>5. CASE SweepDropNew(e)
  <2>1. /\ e.new \in Failed /\ pods' = Deleted(e.new) /\ sweeps' \subseteq sweeps
        /\ UNCHANGED <<clock, used, tasks, faults>>
    BY <1>5 DEF SweepDropNew, Failed
  <2> QED
    BY <1>1, <2>1, DroppedPods, EndingStep
<1>6. CASE SweepDropOld(e)
  <2>1. /\ e.old \in Condemned /\ pods' = Deleted(e.old) /\ sweeps' \subseteq sweeps
        /\ UNCHANGED <<clock, used, tasks, faults>>
    BY <1>6 DEF SweepDropOld, Condemned
  <2> QED
    BY <1>1, <2>1, DroppedPods, EndingStep
<1>7. CASE SweepCallFails(e)
  <2>1. /\ UNCHANGED <<pods, clock, used, tasks>>
        /\ faults <= faults' /\ faults' <= MaxFaults
    BY <1>1, <1>7 DEF SweepCallFails
  <2>2. OnlyMarks /\ KeepsServing /\ \A m \in DOMAIN pods : pods'[m].deleting = pods[m].deleting
    BY <1>1, <2>1, UnchangedPods
  <2>3. CASE sweeps' = sweeps \ {e}
    BY <1>1, <1>2, <2>1, <2>2, <2>3, EndingStep
  <2>4. CASE /\ e.step = "check" /\ clock > e.stamp + UpgradeTimeout
             /\ sweeps' = (sweeps \ {e}) \cup {[e EXCEPT !.step = "dropNew"]}
    BY <2>1, <2>2, <2>4, TimeOutStep
  <2> QED
    BY <1>7, <2>3, <2>4 DEF SweepCallFails
<1> QED
  BY <1>3, <1>4, <1>5, <1>6, <1>7 DEF SweepStep

-----------------------------------------------------------------------------
(* The cluster. *)

LEMMA StartStep ==
    ASSUME Inv, TypeOK', NEW n, PodStarts(n), UNCHANGED upgradeVars
    PROVE  Inv'
<1>1. /\ n \in DOMAIN pods /\ ~pods[n].deleting /\ UNCHANGED clock
      /\ clock < pods[n].stamp + ReadyWithin
  BY DEF PodStarts
<1>2. /\ KeepsLabels /\ KeepsServing
      /\ DOMAIN pods' = DOMAIN pods
      /\ \A m \in DOMAIN pods : pods'[m].deleting = pods[m].deleting
      /\ \A m \in DOMAIN pods : m # n => pods'[m].phase = pods[m].phase
  BY StartedPods DEF Inv
<1>3. /\ clock \in Nat /\ faults \in Nat /\ ReadyWithin \in Nat /\ TypeOK
      /\ \A r \in DOMAIN tasks : tasks[r].polls \in Nat /\ tasks[r].wake \in Nat
      /\ \A m \in DOMAIN pods : pods[m].stamp \in Nat
  BY FieldTypes DEF Inv
<1>4. \A m \in DOMAIN pods : m # n => (Ready(m)' <=> Ready(m))
  BY <1>2 DEF Ready
<1>5. ReadyInTime /\ NoneCreated /\ clock' >= clock
  BY <1>1, <1>2, <1>3, <1>4 DEF ReadyInTime, NoneCreated
<1>6. StampsOrder'
  BY <1>2, <1>3, <1>5, StampsOrderKept DEF Inv
<1>7. FreshNames' /\ Mentioned' = Mentioned /\ Condemned' = Condemned /\ Failed' = Failed
  BY <1>2 DEF Inv, FreshNames, InStep, Mentioned, Condemned, Failed
<1>8. TasksReplace'
  BY <1>2, <1>5, TasksReplaceKept DEF Inv, Continues
<1>9. PollsCount'
  <2> SUFFICES ASSUME NEW r \in DOMAIN tasks
               PROVE  LET q == tasks[r] IN
                        /\ q.step = "create" => q.polls = 0
                        /\ q.step = "poll" =>
                              /\ q.wake <= clock + 1
                              /\ r \in DOMAIN pods =>
                                    /\ q.polls + pods'[r].stamp <= q.wake
                                    /\ Ready(r)' => q.polls <= ReadyWithin + faults
    BY <1>1, <1>2 DEF Inv, PollsCount
  <2>1. /\ tasks[r].step = "create" => tasks[r].polls = 0
        /\ tasks[r].step = "poll" =>
              /\ tasks[r].wake <= clock + 1
              /\ r \in DOMAIN pods =>
                    /\ tasks[r].polls + pods[r].stamp <= tasks[r].wake
                    /\ Ready(r) => tasks[r].polls <= ReadyWithin + faults
    BY DEF Inv, PollsCount
  <2>2. r \in DOMAIN pods => pods'[r].stamp = pods[r].stamp
    BY <1>2 DEF KeepsLabels
  <2>3. CASE r = n
    BY <1>1, <1>3, <2>1, <2>2, <2>3
  <2>4. CASE r # n
    BY <1>4, <2>1, <2>2, <2>4
  <2> QED
    BY <2>3, <2>4
<1>10. ChecksAreRecent'
  BY <1>1, <1>2, <1>3, <1>5, ChecksKept DEF Inv
<1>11. CondemnedSuperseded'
  BY <1>2, <1>3, <1>7, CondemnedKept DEF Inv
<1>12. FailedNeverReady'
  BY <1>2, <1>3, <1>5, <1>7, FailedKept DEF Inv
<1>13. TerminatingSuperseded'
  <2>1. ASSUME NEW o \in DOMAIN pods', Ready(o)', pods'[o].deleting, pods'[o].ws \in SideBySide
        PROVE  o \in DOMAIN pods /\ Superseded(o)
    <3>1. o \in DOMAIN pods /\ pods[o].deleting /\ o # n /\ pods[o].ws \in SideBySide
      BY <1>1, <1>2, <2>1 DEF KeepsLabels
    <3> QED
      BY <1>4, <2>1, <3>1 DEF Inv, TerminatingSuperseded
  <2> QED
    BY <1>2, <1>3, <2>1, TerminatingKept
<1>14. ZeroDowntime'
  BY <1>2, ZeroDowntimeKept DEF Inv
<1> QED
  BY <1>6, <1>7, <1>8, <1>9, <1>10, <1>11, <1>12, <1>13, <1>14 DEF Inv

LEMMA RemovalStep ==
    ASSUME Inv, TypeOK', NEW n, PodRemoved(n), UNCHANGED upgradeVars
    PROVE  Inv'
<1>1. /\ KeepsLabels /\ KeepsServing
      /\ DOMAIN pods' = DOMAIN pods \ {n}
      /\ \A m \in DOMAIN pods' : pods'[m] = pods[m]
  BY RemovedPods DEF Inv
<1>2. TypeOK /\ UNCHANGED clock /\ clock \in Nat /\ clock' >= clock /\ faults \in Nat
  BY FieldTypes DEF Inv, PodRemoved
<1>3. \A m \in DOMAIN pods' : m \in DOMAIN pods /\ (Ready(m)' <=> Ready(m))
  BY <1>1 DEF Ready
<1>4. ReadyInTime /\ NoneCreated
  BY <1>1, <1>3 DEF ReadyInTime, NoneCreated
<1>5. StampsOrder'
  BY <1>1, <1>2, <1>4, StampsOrderKept DEF Inv
<1>6. FreshNames' /\ Condemned' = Condemned /\ Failed' = Failed
  BY <1>1 DEF Inv, FreshNames, InStep, Mentioned, Condemned, Failed
<1>7. TasksReplace'
  BY <1>1, <1>4, TasksReplaceKept DEF Inv, Continues
<1>8. PollsCount'
  <2>1. faults <= faults' /\ faults' <= MaxFaults
    BY <1>2 DEF Inv, PollsCount
  <2> QED
    BY <1>1, <1>2, <1>3, <1>4, <2>1, PollsCountKept DEF Inv
<1>9. ChecksAreRecent'
  BY <1>1, <1>2, <1>4, ChecksKept DEF Inv
<1>10. CondemnedSuperseded'
  BY <1>1, <1>2, <1>6, CondemnedKept DEF Inv
<1>11. FailedNeverReady'
  BY <1>1, <1>2, <1>4, <1>6, FailedKept DEF Inv
<1>12. TerminatingSuperseded'
  <2>1. ASSUME NEW o \in DOMAIN pods', Ready(o)', pods'[o].deleting, pods'[o].ws \in SideBySide
        PROVE  o \in DOMAIN pods /\ Superseded(o)
    BY <1>1, <1>3, <2>1 DEF Inv, TerminatingSuperseded
  <2> QED
    BY <1>1, <1>2, <2>1, TerminatingKept
<1>13. ZeroDowntime'
  BY <1>1, ZeroDowntimeKept DEF Inv
<1> QED
  BY <1>5, <1>6, <1>7, <1>8, <1>9, <1>10, <1>11, <1>12, <1>13 DEF Inv

LEMMA TimeStep ==
    ASSUME Inv, TypeOK', TimePasses
    PROVE  Inv'
<1>1. /\ UNCHANGED <<pods, tasks, used, sweeps, faults>> /\ clock' = clock + 1
      /\ \A e \in sweeps : e.step = "check" => clock < e.seen + MaxLag
  BY DEF TimePasses, Tick
<1>2. TypeOK /\ clock \in Nat /\ clock' >= clock /\ faults \in Nat /\ faults <= faults'
  BY <1>1, FieldTypes DEF Inv
<1>3. KeepsLabels /\ KeepsServing /\ NoneCreated
  BY <1>1, <1>2, UnchangedPods DEF NoneCreated
<1>4. \A m \in DOMAIN pods' : Ready(m)' <=> Ready(m)
  BY <1>1 DEF Ready
<1>5. StampsOrder'
  BY <1>2, <1>3, StampsOrderKept DEF Inv
<1>6. FreshNames' /\ Condemned' = Condemned /\ Failed' = Failed
  BY <1>1 DEF Inv, FreshNames, InStep, Mentioned, Condemned, Failed
<1>7. TasksReplace'
  BY <1>1 DEF Inv, TasksReplace
<1>8. PollsCount'
  <2>1. faults' <= MaxFaults
    BY <1>1 DEF Inv, PollsCount
  <2> QED
    BY <1>1, <1>2, <1>3, <1>4, <2>1, PollsCountKept DEF Inv
<1>9. ChecksAreRecent'
  <2> SUFFICES ASSUME NEW e \in sweeps, e.step = "check"
               PROVE  /\ e.seen <= clock + 1 /\ clock + 1 <= e.seen + MaxLag
                      /\ e.new \in DOMAIN pods =>
                            /\ e.stamp = pods[e.new].stamp
                            /\ Ready(e.new) => e.seen < e.stamp + ReadyWithin
    BY <1>1 DEF ChecksAreRecent, Ready
  <2>1. clock < e.seen + MaxLag /\ e.seen \in Nat /\ MaxLag \in Nat
    BY <1>1, <1>2, FieldTypes
  <2>2. e.seen <= clock
    BY DEF Inv, ChecksAreRecent
  <2>3. e.new \in DOMAIN pods =>
            /\ e.stamp = pods[e.new].stamp
            /\ Ready(e.new) => e.seen < e.stamp + ReadyWithin
    BY DEF Inv, ChecksAreRecent
  <2> QED
    BY <1>2, <2>1, <2>2, <2>3
<1>10. CondemnedSuperseded'
  BY <1>1, <1>2, <1>3, <1>6, CondemnedKept DEF Inv
<1>11. FailedNeverReady'
  <2>1. ReadyInTime
    BY <1>4 DEF ReadyInTime
  <2> QED
    BY <1>1, <1>2, <1>3, <1>6, <2>1, FailedKept DEF Inv
<1>12. TerminatingSuperseded'
  BY <1>1 DEF Inv, TerminatingSuperseded, Superseded, Serving, Ready
<1>13. ZeroDowntime'
  BY <1>3, ZeroDowntimeKept DEF Inv
<1> QED
  BY <1>5, <1>6, <1>7, <1>8, <1>9, <1>10, <1>11, <1>12, <1>13 DEF Inv

-----------------------------------------------------------------------------
(* The theorems. *)

LEMMA SafetyInit == Init => Inv
<1> SUFFICES ASSUME Init PROVE Inv
  OBVIOUS
<1> DEFINE name(w) == PodName[<<Owner[w], w>>]
<1>1. TypeOK
  BY TypeInit
<1>2. ASSUME NEW n \in DOMAIN pods
      PROVE  /\ pods[n].ws \in Ids /\ n = name(pods[n].ws)
             /\ pods[n].stamp = 0 /\ ~pods[n].deleting /\ pods[n].phase = "Running"
  <2>1. PICK w \in Ids : n = name(w) /\ pods[n] = RunningPod(w)
    BY <1>2 DEF Init
  <2> QED
    BY <2>1 DEF RunningPod
<1>3. \A w \in Ids : name(w) \in DOMAIN pods
  BY DEF Init
<1>4. \A v, w \in Ids : name(v) = name(w) => v = w
  BY UpgradingAssumption
<1>5. DOMAIN tasks = {} /\ sweeps = {} /\ faults = 0 /\ used = {} /\ clock = 1
  BY DEF Init
<1>6. StampsOrder
  <2>1. \A m, n \in DOMAIN pods : pods[m].ws = pods[n].ws => m = n
    BY <1>2
  <2>2. ASSUME NEW n \in DOMAIN pods PROVE pods[n].stamp <= clock
    <3>1. pods[n].stamp = 0
      BY <1>2
    <3>2. clock = 1
      BY <1>5
    <3> QED
      BY <3>1, <3>2
  <2> QED
    BY <2>1, <2>2 DEF StampsOrder
<1>7. FreshNames
  <2>1. ASSUME NEW w \in Ids PROVE name(w) \in SpawnNames
    <3>1. Owner[w] \in Users
      BY UpgradingAssumption
    <3> QED
      BY <3>1 DEF SpawnNames
  <2>2. DOMAIN pods \subseteq SpawnNames
    BY <1>2, <2>1
  <2>3. Mentioned = {}
    BY <1>5 DEF Mentioned
  <2> QED
    BY <2>2, <2>3, PodStoreAssumption DEF FreshNames
<1>8. TasksReplace /\ ChecksAreRecent
  BY <1>5 DEF TasksReplace, ChecksAreRecent
<1>9. PollsCount
  BY <1>5, FieldTypes, <1>1 DEF PollsCount
<1>10. Condemned = {} /\ Failed = {}
  BY <1>5 DEF Condemned, Failed
<1>11. CondemnedSuperseded /\ FailedNeverReady
  BY <1>10 DEF CondemnedSuperseded, FailedNeverReady
<1>12. TerminatingSuperseded
  BY <1>2 DEF TerminatingSuperseded
<1>13. ZeroDowntime
  <2> SUFFICES ASSUME NEW w \in SideBySide PROVE \E n \in OfWorkspace(w) : Serving(n)
    BY DEF ZeroDowntime
  <2>1. w \in Ids
    BY DEF SideBySide
  <2>2. name(w) \in DOMAIN pods /\ pods[name(w)].ws = w
    BY <1>2, <1>3, <1>4, <2>1
  <2> QED
    BY <1>2, <2>2 DEF OfWorkspace, Serving, Ready
<1> QED
  BY <1>1, <1>6, <1>7, <1>8, <1>9, <1>11, <1>12, <1>13 DEF Inv

LEMMA SafetyStep ==
    ASSUME SafeTiming
    PROVE  Inv /\ [Next]_vars => Inv'
<1> SUFFICES ASSUME Inv, [Next]_vars PROVE Inv'
  OBVIOUS
<1>1. TypeOK /\ TypeOK'
  BY TypeStep DEF Inv
<1>2. faults <= MaxFaults /\ faults \in Nat /\ MaxFaults \in Nat
  BY <1>1, FieldTypes DEF Inv, PollsCount
<1>3. ASSUME NEW u \in Users, NEW w \in Ids, NEW s \in Suffixes, Upgrade(u, w, s) PROVE Inv'
  BY <1>1, <1>3, LaunchStep DEF Upgrade
<1>4. ASSUME UNCHANGED <<pods, clock, tasks, used, sweeps, faults>> PROVE Inv'
  <2>1. OnlyMarks /\ KeepsServing
    BY <1>1, <1>4, UnchangedPods
  <2>2. faults <= faults' /\ faults' <= MaxFaults
    BY <1>2, <1>4
  <2>3. \A o \in DOMAIN pods :
           Ready(o) /\ pods'[o].deleting /\ pods[o].ws \in SideBySide => Superseded(o)
    BY <1>4 DEF Inv, TerminatingSuperseded
  <2> QED
    BY <1>1, <1>4, <2>1, <2>2, <2>3, EndingStep
<1>5. ASSUME NEW u \in Users, UpgradeAll(u) PROVE Inv'
  BY <1>4, <1>5 DEF UpgradeAll
<1>6. ASSUME NEW b \in bulk, NEW s \in Suffixes, UpgradeAllNext(b, s) PROVE Inv'
  <2>1. CASE Launch(b.by, b.ws, s)
    BY <1>1, <1>6, <2>1, LaunchStep DEF UpgradeAllNext
  <2>2. CASE UNCHANGED <<tasks, used>>
    BY <1>4, <1>6, <2>2 DEF UpgradeAllNext
  <2> QED
    BY <1>6, <2>1, <2>2 DEF UpgradeAllNext
<1>7. ASSUME NEW s \in Suffixes, TaskStep(s) \/ TaskCallFails(s) PROVE Inv'
  BY <1>1, <1>7, TaskSteps
<1>8. ASSUME NEW V \in SUBSET DOMAIN pods, NEW W, NEW found \in Findings(V, W),
             sweeps' \subseteq sweeps \cup found, UNCHANGED <<pods, clock, used, faults>>,
             tasks' = tasks \/ tasks' = << >>
      PROVE  Inv'
  <2>1. faults <= faults' /\ faults' <= MaxFaults
    BY <1>2, <1>8
  <2> QED
    BY <1>1, <1>8, <2>1, ListingStep
<1>9. ASSUME NEW u \in Users, ListWorkspaces(u) PROVE Inv'
  <2>1. Visible(u) \in SUBSET DOMAIN pods
    BY DEF Visible
  <2> QED
    BY <1>8, <1>9, <2>1 DEF ListWorkspaces
<1>10. ASSUME NEW u \in Users, NEW w \in Ids, GetWorkspace(u, w) PROVE Inv'
  <2>1. Visible(u) \in SUBSET DOMAIN pods
    BY DEF Visible
  <2> QED
    BY <1>8, <1>10, <2>1 DEF GetWorkspace
<1>11. ASSUME NEW e \in sweeps, SweepStep(e) \/ SweepCallFails(e) PROVE Inv'
  BY <1>1, <1>11, SweepSteps
<1>12. ASSUME NEW n \in Names, Kubelet(n) PROVE Inv'
  BY <1>1, <1>12, StartStep, RemovalStep DEF Kubelet
<1>13. CASE TimePasses
  BY <1>1, <1>13, TimeStep
<1>14. CASE Restart
  <2>1. tasks' = << >> /\ UNCHANGED <<pods, clock, used>>
    BY <1>14 DEF Restart
  <2>2. CASE sweeps' \in Findings(DOMAIN pods, Ids) /\ UNCHANGED faults
    BY <1>8, <2>1, <2>2
  <2>3. CASE sweeps' = {} /\ faults < MaxFaults /\ faults' = faults + 1
    <3>1. OnlyMarks /\ KeepsServing
      BY <1>1, <2>1, UnchangedPods
    <3>2. faults <= faults' /\ faults' <= MaxFaults
      BY <1>2, <2>3
    <3>3. \A o \in DOMAIN pods :
             Ready(o) /\ pods'[o].deleting /\ pods[o].ws \in SideBySide => Superseded(o)
      BY <2>1 DEF Inv, TerminatingSuperseded
    <3>4. \A s \in DOMAIN tasks' : s \in DOMAIN tasks /\ tasks'[s] = tasks[s]
      BY <2>1
    <3> QED
      BY <1>1, <2>1, <2>3, <3>1, <3>2, <3>3, <3>4, EndingStep
  <2> QED
    BY <1>14, <2>2, <2>3 DEF Restart
<1>15. CASE UNCHANGED vars
  BY <1>4, <1>15
<1> QED
  BY <1>3, <1>5, <1>6, <1>7, <1>9, <1>10, <1>11, <1>12, <1>13, <1>14, <1>15
     DEF Next, UpgradingStep

\* A pod is condemned or given up only when its workspace can do without it, in every
\* reachable state, as long as pods become ready in time.
THEOREM InvHolds ==
    ASSUME SafeTiming
    PROVE  Spec => []Inv
BY SafetyInit, SafetyStep, PTL DEF Spec

\* Zero downtime: each workspace that is upgraded side by side always has a ready pod
\* that nobody is deleting, whatever upgrades, listings, faults and restarts overlap.
THEOREM ZeroDowntimeHolds ==
    ASSUME SafeTiming
    PROVE  Spec => []ZeroDowntime
<1>1. Inv => ZeroDowntime
  BY DEF Inv
<1> QED
  BY <1>1, InvHolds, PTL

\* The proxies, which never look at deletionTimestamp, never pick a pod that is being
\* deleted: any ready pod that is terminating has a newer one that serves.
THEOREM RoutesToServingPodHolds ==
    ASSUME SafeTiming
    PROVE  Spec => []RoutesToServingPod
<1>1. Inv => RoutesToServingPod
  <2> SUFFICES ASSUME Inv, NEW w \in SideBySide, NEW n \in RouteTargets(w)
               PROVE  Serving(n)
    BY DEF RoutesToServingPod
  <2>1. /\ n \in DOMAIN pods /\ pods[n].ws = w /\ Ready(n)
        /\ \A m \in DOMAIN pods : pods[m].ws = w /\ Ready(m) => pods[m].stamp <= pods[n].stamp
    BY DEF RouteTargets, ReadyPods, OfWorkspace, Newest
  <2>2. \A m \in DOMAIN pods : pods[m].stamp \in Nat
    BY FieldTypes DEF Inv
  <2>3. ~Superseded(n)
    BY <2>1, <2>2 DEF Superseded, Serving
  <2> QED
    BY <2>1, <2>3 DEF Inv, TerminatingSuperseded, Serving
<1> QED
  BY <1>1, InvHolds, PTL

-----------------------------------------------------------------------------
(* The pod that answers for a workspace. *)

\* A set of numbers that a number bounds has a largest element.
LEMMA LargestExists ==
    ASSUME NEW S \in SUBSET Nat, S # {}, NEW b \in Nat, \A x \in S : x <= b
    PROVE  \E m \in S : \A x \in S : x <= m
<1> DEFINE Gaps == {b - x : x \in S}
           less == {p \in Nat \X Nat : p[1] < p[2]}
<1>1. IsWellFoundedOn(less, Nat)
  BY NatLessThanWellFounded DEF OpToRel
<1>2. \A x \in S : x \in Nat /\ b - x \in Nat
  OBVIOUS
<1>3. PICK g \in Gaps : \A h \in Gaps : <<h, g>> \notin less
  <2>1. Gaps \subseteq Nat /\ Gaps # {}
    BY <1>2
  <2> HIDE DEF Gaps, less
  <2> QED
    BY <1>1, <2>1, WFMin
<1>4. PICK m \in S : g = b - m
  BY <1>3
<1>5. ASSUME NEW x \in S PROVE x <= m
  <2>1. b - x \in Gaps
    OBVIOUS
  <2>2. <<b - x, b - m>> \notin less
    BY <1>3, <1>4, <2>1
  <2>3. ~(b - x < b - m)
    BY <1>2, <2>2
  <2> HIDE DEF Gaps, less
  <2> QED
    BY <1>2, <2>3
<1> QED
  BY <1>4, <1>5

\* The newest ready pod of each workspace serves it, and is the only one chosen.
Answers(n, w) ==
    /\ pods[n].ws = w /\ Serving(n)
    /\ \A m \in DOMAIN pods : pods[m].ws = w /\ Ready(m) => pods[m].stamp <= pods[n].stamp
    /\ pods[n].stamp \in Nat
    /\ ServingSince(w) = pods[n].stamp

EveryoneAnswered == \A w \in SideBySide : \E n \in DOMAIN pods : Answers(n, w)

LEMMA InvAnswered == Inv => EveryoneAnswered
<1> SUFFICES ASSUME Inv, NEW w \in SideBySide
             PROVE  \E n \in DOMAIN pods : Answers(n, w)
  BY DEF EveryoneAnswered
<1> DEFINE ready == {m \in DOMAIN pods : pods[m].ws = w /\ Ready(m)}
           stamps == {pods[m].stamp : m \in ready}
<1>1. clock \in Nat /\ \A m \in DOMAIN pods : pods[m].stamp \in Nat /\ pods[m].stamp <= clock
  BY FieldTypes DEF Inv, StampsOrder
<1>2. PICK a \in ready : TRUE
  BY DEF Inv, ZeroDowntime, OfWorkspace, Serving
<1>3. PICK t \in stamps : \A x \in stamps : x <= t
  <2>1. stamps \in SUBSET Nat /\ stamps # {} /\ \A x \in stamps : x <= clock
    BY <1>1, <1>2
  <2> HIDE DEF stamps
  <2> QED
    BY <1>1, <2>1, LargestExists
<1>4. PICK n \in ready : pods[n].stamp = t
  BY <1>3
<1>5. \A m \in ready : pods[m].stamp <= pods[n].stamp
  BY <1>3, <1>4
<1>6. \A m \in ready : pods[m].stamp = pods[n].stamp => m = n
  BY DEF Inv, StampsOrder
<1>7. RouteTargets(w) = {n}
  BY <1>1, <1>5, <1>6 DEF RouteTargets, ReadyPods, OfWorkspace, Newest
<1>8. ServingSince(w) = pods[n].stamp
  BY <1>7 DEF ServingSince
<1>9. Serving(n)
  <2>1. ~Superseded(n)
    BY <1>1, <1>5 DEF Superseded, Serving
  <2> QED
    BY <2>1 DEF Inv, TerminatingSuperseded, Serving
<1> QED
  BY <1>1, <1>5, <1>8, <1>9 DEF Answers

-----------------------------------------------------------------------------
(* A step takes over at most one workspace. *)

\* The ready pods of w stay what they are.
ReadyKept(w) ==
    /\ \A n \in DOMAIN pods :
          pods[n].ws = w /\ Ready(n) =>
              n \in DOMAIN pods' /\ pods'[n].ws = w /\ Ready(n)' /\ pods'[n].stamp = pods[n].stamp
    /\ \A n \in DOMAIN pods' :
          pods'[n].ws = w /\ Ready(n)' =>
              n \in DOMAIN pods /\ pods[n].ws = w /\ Ready(n)

TakesOverOne == KeepsServing /\ \E w : \A v \in SideBySide \ {w} : ReadyKept(v)

LEMMA MarksTakeOverNone ==
    ASSUME OnlyMarks, KeepsServing
    PROVE  TakesOverOne
BY DEF TakesOverOne, ReadyKept, OnlyMarks, Ready

LEMMA ListingTakesOverNone ==
    ASSUME TypeOK, UNCHANGED pods
    PROVE  TakesOverOne
BY UnchangedPods, MarksTakeOverNone

LEMMA TaskTakesOverOne ==
    ASSUME Inv, NEW s, TaskStep(s)
    PROVE  TakesOverOne
<1>1. TypeOK
  BY DEF Inv
<1>2. CASE TaskCreate(s)
  <2> DEFINE new == NewPod(tasks[s].owner, tasks[s].ws, tasks[s].error)
  <2>1. s \in DOMAIN tasks /\ InStep(s, "create") /\ pods' = Created(s, new)
    BY <1>2 DEF TaskCreate, InStep
  <2>2. s \notin DOMAIN pods
    BY <1>1, <2>1 DEF Inv, FreshNames, TypeOK
  <2>3. /\ KeepsServing /\ DOMAIN pods' = DOMAIN pods \cup {s} /\ pods'[s] = new
        /\ \A m \in DOMAIN pods : pods'[m] = pods[m]
    BY <1>1, <2>1, <2>2, CreatedPods
  <2>4. ~Ready(s)'
    BY <2>3 DEF Ready, NewPod
  <2> HIDE DEF new
  <2> QED
    BY <2>2, <2>3, <2>4 DEF TakesOverOne, ReadyKept, Ready
<1>3. CASE TaskPoll(s)
  BY <1>1, <1>3, ListingTakesOverNone DEF TaskPoll
<1>4. CASE TaskGivesUp(s)
  BY <1>1, <1>4, AnnotatedPods, MarksTakeOverNone DEF TaskGivesUp
<1>5. CASE TaskDropNew(s)
  <2>1. s \in Failed
    BY <1>5 DEF TaskDropNew, InStep, Failed
  <2> QED
    BY <1>5, <2>1, DroppedPods, MarksTakeOverNone DEF TaskDropNew
<1>6. CASE TaskDropOld(s)
  <2>1. tasks[s].old \in Condemned
    BY <1>6 DEF TaskDropOld, InStep, Condemned
  <2> QED
    BY <1>6, <2>1, DroppedPods, MarksTakeOverNone DEF TaskDropOld
<1> QED
  BY <1>2, <1>3, <1>4, <1>5, <1>6 DEF TaskStep

LEMMA SweepTakesOverNone ==
    ASSUME Inv, NEW e \in sweeps, SweepStep(e)
    PROVE  TakesOverOne
<1>1. TypeOK
  BY DEF Inv
<1>2. CASE SweepWaits(e)
  BY <1>1, <1>2, ListingTakesOverNone DEF SweepWaits
<1>3. CASE SweepTimesOut(e)
  BY <1>1, <1>3, AnnotatedPods, MarksTakeOverNone DEF SweepTimesOut
<1>4. CASE SweepDropNew(e)
  <2>1. e.new \in Failed
    BY <1>4 DEF SweepDropNew, Failed
  <2> QED
    BY <1>4, <2>1, DroppedPods, MarksTakeOverNone DEF SweepDropNew
<1>5. CASE SweepDropOld(e)
  <2>1. e.old \in Condemned
    BY <1>5 DEF SweepDropOld, Condemned
  <2> QED
    BY <1>5, <2>1, DroppedPods, MarksTakeOverNone DEF SweepDropOld
<1> QED
  BY <1>2, <1>3, <1>4, <1>5 DEF SweepStep

LEMMA KubeletTakesOverOne ==
    ASSUME Inv, NEW n, Kubelet(n)
    PROVE  TakesOverOne
<1>1. TypeOK /\ n \in DOMAIN pods
  BY DEF Inv, Kubelet, PodStarts, PodRemoved
<1>2. CASE PodStarts(n)
  <2>1. /\ KeepsServing /\ KeepsLabels /\ DOMAIN pods' = DOMAIN pods
        /\ \A m \in DOMAIN pods : m # n => pods'[m].phase = pods[m].phase
    BY <1>1, <1>2, StartedPods
  <2>2. \A v \in SideBySide \ {pods[n].ws} : ReadyKept(v)
    BY <2>1 DEF ReadyKept, KeepsLabels, Ready
  <2> QED
    BY <2>1, <2>2 DEF TakesOverOne
<1>3. CASE PodRemoved(n)
  <2>1. /\ KeepsServing /\ DOMAIN pods' = DOMAIN pods \ {n}
        /\ \A m \in DOMAIN pods' : pods'[m] = pods[m]
    BY <1>1, <1>3, RemovedPods
  <2>2. \A v \in SideBySide \ {pods[n].ws} : ReadyKept(v)
    BY <2>1 DEF ReadyKept, Ready
  <2> QED
    BY <2>1, <2>2 DEF TakesOverOne
<1> QED
  BY <1>2, <1>3 DEF Kubelet

LEMMA StepTakesOverOne == Inv /\ [Next]_vars => TakesOverOne
<1> SUFFICES ASSUME Inv, [Next]_vars PROVE TakesOverOne
  OBVIOUS
<1>1. TypeOK
  BY DEF Inv
<1>2. CASE UNCHANGED pods
  BY <1>1, <1>2, ListingTakesOverNone
<1>3. ASSUME NEW s \in Suffixes, TaskStep(s) PROVE TakesOverOne
  BY <1>3, TaskTakesOverOne
<1>4. ASSUME NEW e \in sweeps, SweepStep(e) PROVE TakesOverOne
  BY <1>4, SweepTakesOverNone
<1>5. ASSUME NEW n \in Names, Kubelet(n) PROVE TakesOverOne
  BY <1>5, KubeletTakesOverOne
<1>6. ASSUME NEW u, NEW w, NEW s, Upgrade(u, w, s) PROVE TakesOverOne
  BY <1>2, <1>6 DEF Upgrade
<1>7. ASSUME NEW u, UpgradeAll(u) \/ ListWorkspaces(u) PROVE TakesOverOne
  BY <1>2, <1>7 DEF UpgradeAll, ListWorkspaces
<1>8. ASSUME NEW u, NEW w, GetWorkspace(u, w) PROVE TakesOverOne
  BY <1>2, <1>8 DEF GetWorkspace
<1>9. ASSUME NEW b, NEW s, UpgradeAllNext(b, s) PROVE TakesOverOne
  BY <1>2, <1>9 DEF UpgradeAllNext
<1>10. ASSUME NEW s, TaskCallFails(s) \/ SweepCallFails(s) PROVE TakesOverOne
  BY <1>2, <1>10 DEF TaskCallFails, SweepCallFails
<1>11. CASE TimePasses \/ Restart
  BY <1>2, <1>11 DEF TimePasses, Tick, Restart
<1>12. CASE UNCHANGED vars
  BY <1>2, <1>12 DEF vars
<1> QED
  BY <1>3, <1>4, <1>5, <1>6, <1>7, <1>8, <1>9, <1>10, <1>11, <1>12 DEF Next, UpgradingStep

-----------------------------------------------------------------------------
(* The refinement. *)

\* Whoever takes a workspace over was created later.
LEMMA NeverFallsBack ==
    ASSUME EveryoneAnswered, EveryoneAnswered', TypeOK', KeepsServing, NEW w \in SideBySide
    PROVE  ServingSince(w) \in Nat /\ ServingSince(w)' \in Nat /\ ServingSince(w)' >= ServingSince(w)
<1>1. PICK n \in DOMAIN pods : Answers(n, w)
  BY DEF EveryoneAnswered
<1>2. PICK m \in DOMAIN pods' : Answers(m, w)'
  BY DEF EveryoneAnswered, SideBySide
<1>3. PICK b \in DOMAIN pods' :
         Serving(b)' /\ pods'[b].ws = w /\ pods'[b].stamp >= pods[n].stamp
  BY <1>1 DEF Answers, KeepsServing
<1>4. pods'[b].stamp <= pods'[m].stamp
  BY <1>2, <1>3 DEF Answers, Serving
<1>5. ServingSince(w) = pods[n].stamp /\ pods[n].stamp \in Nat
  BY <1>1 DEF Answers
<1>6. ServingSince(w)' = pods'[m].stamp /\ pods'[m].stamp \in Nat
  BY <1>2 DEF Answers
<1>7. pods'[b].stamp \in Nat
  BY DEF TypeOK, PodStoreTypeOK, Pod
<1> QED
  BY <1>3, <1>4, <1>5, <1>6, <1>7

LEMMA KeptAnswer ==
    ASSUME EveryoneAnswered, EveryoneAnswered', NEW w \in SideBySide, ReadyKept(w)
    PROVE  ServingSince(w)' = ServingSince(w)
<1>1. PICK n \in DOMAIN pods : Answers(n, w)
  BY DEF EveryoneAnswered
<1>2. PICK m \in DOMAIN pods' : Answers(m, w)'
  BY DEF EveryoneAnswered, SideBySide
<1>3. pods[n].stamp <= pods'[m].stamp
  BY <1>1, <1>2 DEF Answers, ReadyKept, Serving
<1>4. pods'[m].stamp <= pods[n].stamp
  BY <1>1, <1>2 DEF Answers, ReadyKept, Serving
<1> QED
  BY <1>1, <1>2, <1>3, <1>4 DEF Answers

LEMMA CutoverInit == Inv => Cut!Init
<1> SUFFICES ASSUME Inv, NEW w \in SideBySide PROVE ServingSince(w) \in Nat
  BY DEF Cut!Init
<1> QED
  BY InvAnswered DEF EveryoneAnswered, Answers

LEMMA CutoverStep ==
    ASSUME Inv, TypeOK', EveryoneAnswered, EveryoneAnswered', TakesOverOne
    PROVE  [Cut!Next]_[w \in SideBySide |-> ServingSince(w)]
<1> DEFINE since == [w \in SideBySide |-> ServingSince(w)]
<1>1. PICK w : \A v \in SideBySide \ {w} : ReadyKept(v)
  BY DEF TakesOverOne
<1>2. \A v \in SideBySide \ {w} : ServingSince(v)' = ServingSince(v)
  BY <1>1, KeptAnswer
<1>3. CASE w \in SideBySide /\ ServingSince(w)' # ServingSince(w)
  <2>1. ServingSince(w)' > ServingSince(w)
    BY <1>3, NeverFallsBack DEF TakesOverOne
  <2>2. since' = [since EXCEPT ![w] = since'[w]]
    <3>1. \A v \in SideBySide : since'[v] = [since EXCEPT ![w] = since'[w]][v]
      BY <1>2, <1>3 DEF SideBySide
    <3> QED
      BY <3>1 DEF SideBySide
  <2>3. since'[w] > since[w]
    BY <1>3, <2>1 DEF SideBySide
  <2> QED
    BY <1>3, <2>2, <2>3 DEF Cut!Next, Cut!TakeOver
<1>4. CASE ~(w \in SideBySide /\ ServingSince(w)' # ServingSince(w))
  <2>1. since' = since
    BY <1>2, <1>4 DEF SideBySide
  <2> QED
    BY <2>1
<1> QED
  BY <1>3, <1>4

\* Upgrades implement the abstract cut-over: whatever upgrades, listings, faults and
\* restarts overlap, requests for a workspace always have a pod to go to and only ever
\* move on to one created later.
THEOREM ImplementsCutoverHolds ==
    ASSUME SafeTiming
    PROVE  Spec => ImplementsCutover
<1>1. Init => Cut!Init
  BY SafetyInit, CutoverInit
<1>2. Inv /\ Inv' /\ [Next]_vars => [Cut!Next]_[w \in SideBySide |-> ServingSince(w)]
  <2> SUFFICES ASSUME Inv, Inv', [Next]_vars
               PROVE  [Cut!Next]_[w \in SideBySide |-> ServingSince(w)]
    OBVIOUS
  <2>1. EveryoneAnswered /\ EveryoneAnswered'
    BY InvAnswered, PTL
  <2>2. TypeOK' /\ TakesOverOne
    BY StepTakesOverOne DEF Inv
  <2> QED
    BY <2>1, <2>2, CutoverStep
<1> QED
  BY <1>1, <1>2, InvHolds, PTL DEF Spec, ImplementsCutover, Cut!Spec

=============================================================================
