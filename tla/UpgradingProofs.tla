-------------------------- MODULE UpgradingProofs ---------------------------
(***************************************************************************)
(* Proofs about Upgrading, for any users, workspaces, bounds and time-outs. *)
(***************************************************************************)
EXTENDS Upgrading, TLAPS

-----------------------------------------------------------------------------
(* What the operators on pods and tasks return. *)

USE DEF vars, upgradeVars, storeVars

LEMMA WithoutFacts ==
    ASSUME NEW f, NEW x
    PROVE  /\ DOMAIN Without(f, x) = DOMAIN f \ {x}
           /\ \A y \in DOMAIN Without(f, x) : Without(f, x)[y] = f[y]
BY DEF Without, Restrict

\* A deletion and an annotation change one field of one pod.
LEMMA DeletedType ==
    ASSUME PodStoreTypeOK, NEW n
    PROVE  DOMAIN Deleted(n) = DOMAIN pods /\ \A m \in DOMAIN pods : Deleted(n)[m] \in Pod
BY DEF PodStoreTypeOK, Deleted, Pod

LEMMA AnnotatedType ==
    ASSUME PodStoreTypeOK, NEW n
    PROVE  DOMAIN Annotated(n) = DOMAIN pods /\ \A m \in DOMAIN pods : Annotated(n)[m] \in Pod
BY DEF PodStoreTypeOK, Annotated, Pod

\* A sweep is about two pods of one workspace, the second not newer than the first.
LEMMA FoundPair ==
    ASSUME NEW V \in SUBSET DOMAIN pods, NEW W, NEW found \in Findings(V, W), NEW e \in found
    PROVE  \E m, n \in V :
              /\ e = SweepOf(m, n)
              /\ m # n
              /\ pods[m].ws = pods[n].ws
              /\ pods[n].stamp <= pods[m].stamp
<1> DEFINE group(w) == V \cap OfWorkspace(w)
           crowded == {w \in W : \E m, n \in group(w) : m # n}
<1>1. PICK pair \in [crowded -> V \X V] :
         /\ \A w \in crowded : NewestTwo(pair[w], group(w))
         /\ found = {SweepOf(pair[w][1], pair[w][2]) : w \in crowded}
  BY DEF Findings
<1>2. PICK w \in crowded : e = SweepOf(pair[w][1], pair[w][2])
  BY <1>1
<1>3. pair[w][1] \in V /\ pair[w][2] \in V
  BY <1>1
<1>4. Newest(pair[w][1], group(w)) /\ Newest(pair[w][2], group(w) \ {pair[w][1]})
  BY <1>1 DEF NewestTwo
<1>5. /\ pair[w][1] # pair[w][2]
      /\ pods[pair[w][1]].ws = pods[pair[w][2]].ws
      /\ pods[pair[w][2]].stamp <= pods[pair[w][1]].stamp
  BY <1>4 DEF Newest, OfWorkspace
<1> QED
  BY <1>2, <1>3, <1>5

LEMMA SweepOfType ==
    ASSUME TypeOK, NEW m \in DOMAIN pods, NEW n \in DOMAIN pods
    PROVE  SweepOf(m, n) \in Sweep
BY DEF TypeOK, PodStoreTypeOK, Pod, SweepOf, Sweep

LEMMA FindingsType ==
    ASSUME TypeOK, NEW V \in SUBSET DOMAIN pods, NEW W, NEW found \in Findings(V, W)
    PROVE  found \subseteq Sweep
<1> SUFFICES ASSUME NEW e \in found PROVE e \in Sweep
  OBVIOUS
<1>1. PICK m, n \in V : e = SweepOf(m, n)
  BY FoundPair
<1> QED
  BY <1>1, SweepOfType

-----------------------------------------------------------------------------
(* Type correctness. *)

LEMMA NewTaskType ==
    ASSUME TypeOK, NEW n \in DOMAIN pods
    PROVE  NewTask(n) \in Task
BY DEF TypeOK, PodStoreTypeOK, Pod, NewTask, Task

LEMMA CreatedType ==
    ASSUME TypeOK, NEW s \in DOMAIN tasks, NEW new,
           new = NewPod(tasks[s].owner, tasks[s].ws, tasks[s].error)
    PROVE  /\ DOMAIN Created(s, new) = DOMAIN pods \cup {s}
           /\ \A m \in DOMAIN Created(s, new) : Created(s, new)[m] \in Pod
<1>1. new \in Pod
  BY DEF TypeOK, PodStoreTypeOK, Task, NewPod, Pod
<1> QED
  BY <1>1 DEF TypeOK, PodStoreTypeOK, Created, With

LEMMA TaskFieldTypes ==
    ASSUME TypeOK, NEW s \in DOMAIN tasks
    PROVE  /\ \A step \in {"create", "poll", "dropNew", "dropOld"} :
                 [tasks[s] EXCEPT !.step = step] \in Task
           /\ [tasks[s] EXCEPT !.step = "poll", !.wake = clock] \in Task
           /\ [tasks[s] EXCEPT !.polls = tasks[s].polls + 1, !.wake = clock + 1] \in Task
<1> DEFINE t == tasks[s]
<1>1. t \in Task /\ clock \in Nat
  BY DEF TypeOK, PodStoreTypeOK
<1>2. t.polls + 1 \in Nat /\ clock + 1 \in Nat
  BY <1>1 DEF Task
<1> HIDE DEF t
<1>3. \A step \in {"create", "poll", "dropNew", "dropOld"} : [t EXCEPT !.step = step] \in Task
  BY <1>1 DEF Task
<1>4. [t EXCEPT !.step = "poll", !.wake = clock] \in Task
  BY <1>1 DEF Task
<1>5. [t EXCEPT !.polls = t.polls + 1, !.wake = clock + 1] \in Task
  BY <1>1, <1>2 DEF Task
<1> QED
  BY <1>3, <1>4, <1>5 DEF t

LEMMA FinishedType ==
    ASSUME TypeOK, NEW s
    PROVE  /\ DOMAIN Finished(s) = DOMAIN tasks \ {s}
           /\ \A t \in DOMAIN Finished(s) : Finished(s)[t] = tasks[t]
BY DEF TypeOK, Finished, Without, Restrict

LEMMA SweepFieldTypes ==
    ASSUME TypeOK, NEW e \in sweeps
    PROVE  [e EXCEPT !.step = "dropNew"] \in Sweep
BY DEF TypeOK, Sweep

LEMMA TypeInit == Init => TypeOK
<1> SUFFICES ASSUME Init PROVE TypeOK
  OBVIOUS
<1>1. \A w \in Ids : PodName[<<Owner[w], w>>] \in Names
  <2> SUFFICES ASSUME NEW w \in Ids PROVE PodName[<<Owner[w], w>>] \in Names
    OBVIOUS
  <2>1. Owner[w] \in Users
    BY UpgradingAssumption
  <2> QED
    BY <2>1 DEF Names, SpawnNames
<1>2. \A n \in DOMAIN pods : pods[n] \in Pod
  BY UpgradingAssumption DEF Init, RunningPod, Pod
<1>3. DOMAIN tasks = {}
  BY DEF Init
<1>4. DOMAIN pods \subseteq Names
  BY <1>1 DEF Init
<1> QED
  BY <1>2, <1>3, <1>4 DEF Init, TypeOK, PodStoreTypeOK

LEMMA TypeStep == TypeOK /\ [Next]_vars => TypeOK'
<1> SUFFICES ASSUME TypeOK, [Next]_vars PROVE TypeOK'
  OBVIOUS
<1> USE DEF TypeOK, PodStoreTypeOK
<1>1. ASSUME NEW u \in Users, NEW w \in Ids, NEW s \in Suffixes, Launch(u, w, s)
      PROVE  /\ used' \subseteq Suffixes /\ DOMAIN tasks' \subseteq used'
             /\ \A t \in DOMAIN tasks' : tasks'[t] \in Task
  BY <1>1, NewTaskType DEF Launch, Upgradable, OfWorkspace, With
<1>2. ASSUME NEW u \in Users, NEW w \in Ids, NEW s \in Suffixes, Upgrade(u, w, s)
      PROVE  TypeOK'
  BY <1>1, <1>2 DEF Upgrade
<1>3. ASSUME NEW u \in Users, UpgradeAll(u) PROVE TypeOK'
  BY <1>3 DEF UpgradeAll, Pod
<1>4. ASSUME NEW b \in bulk, NEW s \in Suffixes, UpgradeAllNext(b, s) PROVE TypeOK'
  <2> b.by \in Users /\ b.ws \in Ids
    OBVIOUS
  <2> QED
    BY <1>1, <1>4 DEF UpgradeAllNext
<1>5. ASSUME NEW s \in Suffixes, TaskStep(s) PROVE TypeOK'
  <2>1. CASE TaskCreate(s)
    <3> DEFINE t == tasks[s]
               new == NewPod(t.owner, t.ws, t.error)
    <3>1. /\ s \in DOMAIN tasks /\ pods' = Created(s, new)
          /\ \/ tasks' = [tasks EXCEPT ![s].step = "dropOld"]
             \/ tasks' = [tasks EXCEPT ![s].step = "poll", ![s].wake = clock]
          /\ UNCHANGED <<clock, used, sweeps, bulk, faults, crashes>>
      BY <2>1 DEF TaskCreate, InStep
    <3>2. \A r \in DOMAIN tasks' : tasks'[r] \in Task
      BY <3>1, TaskFieldTypes
    <3>3. /\ DOMAIN pods' = DOMAIN pods \cup {s}
          /\ \A m \in DOMAIN pods' : pods'[m] \in Pod
      BY <3>1, CreatedType
    <3> QED
      BY <3>1, <3>2, <3>3 DEF Names
  <2>2. CASE TaskPoll(s)
    BY <2>2, TaskFieldTypes DEF TaskPoll, Polling, Polled, InStep
  <2>3. CASE TaskGivesUp(s)
    BY <2>3, AnnotatedType, TaskFieldTypes DEF TaskGivesUp, InStep
  <2>4. CASE TaskDropNew(s)
    BY <2>4, DeletedType, FinishedType DEF TaskDropNew
  <2>5. CASE TaskDropOld(s)
    BY <2>5, DeletedType, FinishedType DEF TaskDropOld
  <2> QED
    BY <1>5, <2>1, <2>2, <2>3, <2>4, <2>5 DEF TaskStep
<1>6. ASSUME NEW s \in Suffixes, TaskCallFails(s) PROVE TypeOK'
  <2>1. /\ DOMAIN tasks' \subseteq DOMAIN tasks
        /\ \A t \in DOMAIN tasks' : tasks'[t] \in Task
    BY <1>6, TaskFieldTypes, FinishedType DEF TaskCallFails, Polling, Polled, InStep
  <2> QED
    BY <1>6, <2>1 DEF TaskCallFails
<1>7. ASSUME NEW u \in Users, ListWorkspaces(u) PROVE TypeOK'
  BY <1>7, FindingsType DEF ListWorkspaces, Visible
<1>8. ASSUME NEW u \in Users, NEW w \in Ids, GetWorkspace(u, w) PROVE TypeOK'
  BY <1>8, FindingsType DEF GetWorkspace, Visible
<1>9. ASSUME NEW e \in sweeps, SweepStep(e) PROVE TypeOK'
  <2>1. CASE SweepWaits(e)
    BY <2>1 DEF SweepWaits
  <2>2. CASE SweepTimesOut(e)
    BY <2>2, AnnotatedType, SweepFieldTypes DEF SweepTimesOut
  <2>3. CASE SweepDropNew(e)
    BY <2>3, DeletedType DEF SweepDropNew
  <2>4. CASE SweepDropOld(e)
    BY <2>4, DeletedType DEF SweepDropOld
  <2> QED
    BY <1>9, <2>1, <2>2, <2>3, <2>4 DEF SweepStep
<1>10. ASSUME NEW e \in sweeps, SweepCallFails(e) PROVE TypeOK'
  BY <1>10, SweepFieldTypes DEF SweepCallFails
<1>11. CASE Restart
  BY <1>11, FindingsType DEF Restart
<1>12. ASSUME NEW n \in Names, Kubelet(n) PROVE TypeOK'
  <2>1. CASE PodStarts(n) /\ UNCHANGED upgradeVars
    BY <2>1 DEF PodStarts, Pod
  <2>2. CASE PodRemoved(n) /\ UNCHANGED upgradeVars
    BY <2>2 DEF PodRemoved, Without, Restrict
  <2> QED
    BY <1>12, <2>1, <2>2 DEF Kubelet
<1>13. CASE TimePasses
  BY <1>13 DEF TimePasses, Tick
<1>14. CASE UNCHANGED vars
  BY <1>14
<1> QED
  BY <1>2, <1>3, <1>4, <1>5, <1>6, <1>7, <1>8, <1>9, <1>10, <1>11, <1>12, <1>13, <1>14
     DEF Next, UpgradingStep

\* Every field of every pod, background task and clean-up is well-formed in every
\* reachable state, and a task runs under a suffix that has been drawn.
THEOREM TypeCorrect == Spec => []TypeOK
BY TypeInit, TypeStep, PTL DEF Spec

-----------------------------------------------------------------------------
(* Ownership. *)

\* A task in progress carries the owner of its workspace to the pod it will create.
TasksPreserveOwner ==
    \A s \in DOMAIN tasks : tasks[s].owner = Owner[tasks[s].ws]

OwnerInv == TypeOK /\ OwnerPreserved /\ TasksPreserveOwner

LEMMA OwnerInit == Init => OwnerInv
<1> SUFFICES ASSUME Init PROVE OwnerInv
  OBVIOUS
<1>1. OwnerPreserved
  BY UpgradingAssumption DEF Init, OwnerPreserved, RunningPod
<1>2. TasksPreserveOwner
  BY DEF Init, TasksPreserveOwner
<1> QED
  BY <1>1, <1>2, TypeInit DEF OwnerInv

\* Nothing relabels a pod that is there.
LEMMA OwnersKept ==
    ASSUME OwnerInv,
           \A n \in DOMAIN pods' :
              n \in DOMAIN pods /\ pods'[n].owner = pods[n].owner /\ pods'[n].ws = pods[n].ws,
           \A s \in DOMAIN tasks' :
              s \in DOMAIN tasks /\ tasks'[s].owner = tasks[s].owner /\ tasks'[s].ws = tasks[s].ws
    PROVE  OwnerPreserved' /\ TasksPreserveOwner'
BY DEF OwnerInv, OwnerPreserved, TasksPreserveOwner

LEMMA DeletedOwner ==
    ASSUME TypeOK, NEW n
    PROVE  \A m \in DOMAIN Deleted(n) :
              m \in DOMAIN pods /\ Deleted(n)[m].owner = pods[m].owner /\ Deleted(n)[m].ws = pods[m].ws
BY DEF Deleted, TypeOK, PodStoreTypeOK, Pod

LEMMA AnnotatedOwner ==
    ASSUME TypeOK, NEW n
    PROVE  \A m \in DOMAIN Annotated(n) :
              m \in DOMAIN pods /\ Annotated(n)[m].owner = pods[m].owner /\ Annotated(n)[m].ws = pods[m].ws
BY DEF Annotated, TypeOK, PodStoreTypeOK, Pod

LEMMA LaunchOwner ==
    ASSUME OwnerInv, NEW u, NEW w, NEW s, Launch(u, w, s)
    PROVE  TasksPreserveOwner'
<1>1. PICK old \in DOMAIN pods : tasks' = With(tasks, s, NewTask(old))
  BY DEF Launch, Upgradable, OfWorkspace
<1>2. NewTask(old).owner = Owner[NewTask(old).ws]
  BY DEF NewTask, OwnerInv, OwnerPreserved
<1>3. \A t \in DOMAIN tasks' : tasks'[t] = NewTask(old) \/ (t \in DOMAIN tasks /\ tasks'[t] = tasks[t])
  BY <1>1 DEF With
<1> QED
  BY <1>2, <1>3 DEF OwnerInv, TasksPreserveOwner

LEMMA OwnerStep == OwnerInv /\ [Next]_vars => OwnerInv'
<1> SUFFICES ASSUME OwnerInv, [Next]_vars PROVE OwnerPreserved' /\ TasksPreserveOwner'
  BY TypeStep DEF OwnerInv
<1>1. TypeOK
  BY DEF OwnerInv
<1>2. ASSUME UNCHANGED pods, NEW u, NEW w, NEW s, Launch(u, w, s)
      PROVE  OwnerPreserved' /\ TasksPreserveOwner'
  BY <1>2, LaunchOwner DEF OwnerInv, OwnerPreserved
<1>3. ASSUME UNCHANGED pods, tasks' = tasks \/ tasks' = << >>
      PROVE  OwnerPreserved' /\ TasksPreserveOwner'
  BY <1>3, OwnersKept
<1>4. ASSUME NEW u \in Users, NEW w \in Ids, NEW s \in Suffixes, Upgrade(u, w, s)
      PROVE  OwnerPreserved' /\ TasksPreserveOwner'
  BY <1>2, <1>4 DEF Upgrade
<1>5. ASSUME NEW u \in Users, UpgradeAll(u) PROVE OwnerPreserved' /\ TasksPreserveOwner'
  BY <1>3, <1>5 DEF UpgradeAll
<1>6. ASSUME NEW b \in bulk, NEW s \in Suffixes, UpgradeAllNext(b, s)
      PROVE  OwnerPreserved' /\ TasksPreserveOwner'
  BY <1>2, <1>3, <1>6 DEF UpgradeAllNext
<1>7. ASSUME NEW s \in Suffixes, TaskStep(s) PROVE OwnerPreserved' /\ TasksPreserveOwner'
  <2>1. CASE TaskCreate(s)
    <3>1. s \in DOMAIN tasks
      BY <2>1 DEF TaskCreate, InStep
    <3>2. \A t \in DOMAIN tasks' :
             t \in DOMAIN tasks /\ tasks'[t].owner = tasks[t].owner /\ tasks'[t].ws = tasks[t].ws
      BY <1>1, <2>1, <3>1 DEF TaskCreate, TypeOK, Task
    <3>3. \A n \in DOMAIN pods' :
             \/ n \in DOMAIN pods /\ pods'[n] = pods[n]
             \/ pods'[n].owner = tasks[s].owner /\ pods'[n].ws = tasks[s].ws
      BY <2>1 DEF TaskCreate, Created, With, NewPod
    <3> QED
      BY <3>1, <3>2, <3>3 DEF OwnerInv, OwnerPreserved, TasksPreserveOwner
  <2>2. CASE TaskPoll(s)
    <3>1. \A t \in DOMAIN tasks' :
             t \in DOMAIN tasks /\ tasks'[t].owner = tasks[t].owner /\ tasks'[t].ws = tasks[t].ws
      BY <1>1, <2>2 DEF TaskPoll, Polled, Polling, InStep, TypeOK, Task
    <3> QED
      BY <2>2, <3>1, OwnersKept DEF TaskPoll
  <2>3. CASE TaskGivesUp(s)
    <3>1. \A t \in DOMAIN tasks' :
             t \in DOMAIN tasks /\ tasks'[t].owner = tasks[t].owner /\ tasks'[t].ws = tasks[t].ws
      BY <1>1, <2>3 DEF TaskGivesUp, InStep, TypeOK, Task
    <3> QED
      BY <1>1, <2>3, <3>1, AnnotatedOwner, OwnersKept DEF TaskGivesUp
  <2>4. CASE TaskDropNew(s)
    BY <1>1, <2>4, DeletedOwner, FinishedType, OwnersKept DEF TaskDropNew
  <2>5. CASE TaskDropOld(s)
    BY <1>1, <2>5, DeletedOwner, FinishedType, OwnersKept DEF TaskDropOld
  <2> QED
    BY <1>7, <2>1, <2>2, <2>3, <2>4, <2>5 DEF TaskStep
<1>8. ASSUME NEW s \in Suffixes, TaskCallFails(s) PROVE OwnerPreserved' /\ TasksPreserveOwner'
  <2>1. /\ UNCHANGED pods
        /\ \/ InStep(s, "poll") /\ tasks' = Polled(s)
           \/ InStep(s, "poll") /\ tasks' = [tasks EXCEPT ![s].step = "dropNew"]
           \/ tasks' = Finished(s)
    BY <1>8 DEF TaskCallFails, Polling
  <2>2. \A t \in DOMAIN tasks' :
           t \in DOMAIN tasks /\ tasks'[t].owner = tasks[t].owner /\ tasks'[t].ws = tasks[t].ws
    <3>1. CASE InStep(s, "poll") /\ tasks' = Polled(s)
      BY <1>1, <3>1 DEF Polled, InStep, TypeOK, Task
    <3>2. CASE InStep(s, "poll") /\ tasks' = [tasks EXCEPT ![s].step = "dropNew"]
      BY <1>1, <3>2 DEF InStep, TypeOK, Task
    <3>3. CASE tasks' = Finished(s)
      BY <1>1, <3>3, FinishedType
    <3> QED
      BY <2>1, <3>1, <3>2, <3>3
  <2> QED
    BY <2>1, <2>2, OwnersKept
<1>9. ASSUME NEW u \in Users, ListWorkspaces(u) PROVE OwnerPreserved' /\ TasksPreserveOwner'
  BY <1>3, <1>9 DEF ListWorkspaces
<1>10. ASSUME NEW u \in Users, NEW w \in Ids, GetWorkspace(u, w)
       PROVE  OwnerPreserved' /\ TasksPreserveOwner'
  BY <1>3, <1>10 DEF GetWorkspace
<1>11. ASSUME NEW e \in sweeps, SweepStep(e) PROVE OwnerPreserved' /\ TasksPreserveOwner'
  <2>1. CASE SweepWaits(e)
    BY <1>3, <2>1 DEF SweepWaits
  <2>2. CASE SweepTimesOut(e)
    BY <1>1, <2>2, AnnotatedOwner, OwnersKept DEF SweepTimesOut
  <2>3. CASE SweepDropNew(e)
    BY <1>1, <2>3, DeletedOwner, OwnersKept DEF SweepDropNew
  <2>4. CASE SweepDropOld(e)
    BY <1>1, <2>4, DeletedOwner, OwnersKept DEF SweepDropOld
  <2> QED
    BY <1>11, <2>1, <2>2, <2>3, <2>4 DEF SweepStep
<1>12. ASSUME NEW e \in sweeps, SweepCallFails(e) PROVE OwnerPreserved' /\ TasksPreserveOwner'
  BY <1>3, <1>12 DEF SweepCallFails
<1>13. ASSUME NEW n \in Names, Kubelet(n) PROVE OwnerPreserved' /\ TasksPreserveOwner'
  <2>1. \A m \in DOMAIN pods' :
            m \in DOMAIN pods /\ pods'[m].owner = pods[m].owner /\ pods'[m].ws = pods[m].ws
    BY <1>1, <1>13 DEF Kubelet, PodStarts, PodRemoved, Without, Restrict, TypeOK, PodStoreTypeOK, Pod
  <2> QED
    BY <1>13, <2>1, OwnersKept DEF Kubelet
<1>14. CASE TimePasses
  BY <1>3, <1>14 DEF TimePasses, Tick
<1>15. CASE Restart
  BY <1>3, <1>15 DEF Restart
<1>16. CASE UNCHANGED vars
  BY <1>3, <1>16
<1> QED
  BY <1>4, <1>5, <1>6, <1>7, <1>8, <1>9, <1>10, <1>11, <1>12, <1>13, <1>14, <1>15, <1>16
     DEF Next, UpgradingStep

\* An upgraded workspace stays with its user, whoever started the upgrade, at whatever
\* speed pods start and however tasks, listings and restarts overlap.
THEOREM OwnerPreservedHolds == Spec => []OwnerPreserved
<1>1. OwnerInv => OwnerPreserved
  BY DEF OwnerInv
<1> QED
  BY <1>1, OwnerInit, OwnerStep, PTL DEF Spec

=============================================================================
