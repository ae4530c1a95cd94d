---------------------------- MODULE SpawnerProofs ----------------------------
(***************************************************************************)
(* Proofs about Spawner, for any users, workspaces, names, requests in     *)
(* progress and bounds: spawning, stopping, upgrading and cleaning up side *)
(* by side, from an empty namespace.                                       *)
(***************************************************************************)
EXTENDS Spawner, UpgradingProofs, ContentsProofs, FiniteSetTheorems

USE DEF spawnerVars, vars, upgradeVars, storeVars

-----------------------------------------------------------------------------
(* Type correctness *)

RequestsTypeOK ==
    /\ DOMAIN requests \subseteq Requests
    /\ \A r \in DOMAIN requests : requests[r] \in Request

LEMMA SpawnNameType ==
    ASSUME NEW u \in Users, NEW w \in Ids
    PROVE  PodName[<<u, w>>] \in SpawnNames /\ PodName[<<u, w>>] \in Names
<1>1. PodName[<<u, w>>] \in SpawnNames
  BY DEF SpawnNames
<1> QED
  BY <1>1 DEF Names

LEMMA AnsweredFacts ==
    ASSUME NEW r
    PROVE  /\ DOMAIN Answered(r) = DOMAIN requests \ {r}
           /\ \A q \in DOMAIN Answered(r) : Answered(r)[q] = requests[q]
BY WithoutFacts DEF Answered

LEMMA SpawningType == SpawnerTypeOK /\ SpawningStep /\ UNCHANGED upgradeVars => SpawnerTypeOK'
<1> SUFFICES ASSUME SpawnerTypeOK, SpawningStep, UNCHANGED upgradeVars PROVE SpawnerTypeOK'
  OBVIOUS
<1>1. TypeOK /\ RequestsTypeOK /\ PodStoreTypeOK
  BY DEF SpawnerTypeOK, RequestsTypeOK, TypeOK
<1>2. SUFFICES PodStoreTypeOK' /\ RequestsTypeOK'
  BY DEF SpawnerTypeOK, RequestsTypeOK, TypeOK
<1>3. ASSUME NEW r \in Requests, NEW by \in Users, NEW owner \in Users, NEW w \in Ids,
             Spawn(r, by, owner, w)
      PROVE  PodStoreTypeOK' /\ RequestsTypeOK'
  <2> DEFINE q == [step |-> "count", by |-> by, owner |-> owner, ws |-> w, todo |-> {}]
  <2>1. requests' = With(requests, r, q) /\ UNCHANGED storeVars
    BY <1>3 DEF Spawn
  <2>2. q \in Request
    BY DEF Request
  <2> HIDE DEF q
  <2> QED
    BY <1>1, <2>1, <2>2 DEF With, RequestsTypeOK, PodStoreTypeOK
<1>4. ASSUME NEW r \in Requests, NEW by \in Users, NEW w \in Ids, Stop(r, by, w)
      PROVE  PodStoreTypeOK' /\ RequestsTypeOK'
  <2> DEFINE found == {n \in OfWorkspace(w) : Sees(by, n)}
             q == [step |-> "delete", by |-> by, owner |-> by, ws |-> w, todo |-> found]
  <2>1. requests' = With(requests, r, q) /\ UNCHANGED storeVars
    BY <1>4 DEF Stop
  <2>2. found \in SUBSET Names
    BY <1>1 DEF OfWorkspace, PodStoreTypeOK
  <2> HIDE DEF found
  <2>3. q \in Request
    BY <2>2 DEF Request
  <2> HIDE DEF q
  <2> QED
    BY <1>1, <2>1, <2>3 DEF With, RequestsTypeOK, PodStoreTypeOK
<1>5. ASSUME NEW r, requests' = Answered(r), UNCHANGED storeVars
      PROVE  PodStoreTypeOK' /\ RequestsTypeOK'
  BY <1>1, <1>5, AnsweredFacts DEF RequestsTypeOK, PodStoreTypeOK
<1>6. ASSUME NEW r \in Requests, SpawnCounts(r)
      PROVE  PodStoreTypeOK' /\ RequestsTypeOK'
  <2>1. UNCHANGED storeVars /\ r \in DOMAIN requests
    BY <1>6 DEF SpawnCounts, InRequest
  <2>2. CASE requests' = [requests EXCEPT ![r].step = "create"]
    BY <1>1, <2>1, <2>2 DEF RequestsTypeOK, PodStoreTypeOK, Request
  <2> QED
    BY <1>5, <1>6, <2>1, <2>2 DEF SpawnCounts
<1>7. ASSUME NEW r \in Requests, SpawnCreates(r)
      PROVE  PodStoreTypeOK' /\ RequestsTypeOK'
  <2> DEFINE q == requests[r]
             name == PodName[<<q.owner, q.ws>>]
             new == NewPod(q.owner, q.ws, FALSE)
  <2>1. /\ r \in DOMAIN requests /\ requests' = Answered(r) /\ UNCHANGED clock
        /\ pods' = pods \/ pods' = Created(name, new)
    BY <1>7 DEF SpawnCreates, InRequest
  <2>2. q.owner \in Users /\ q.ws \in Ids
    BY <1>1, <2>1 DEF RequestsTypeOK, Request
  <2>3. name \in Names /\ new \in Pod
    BY <1>1, <2>2, SpawnNameType DEF NewPod, Pod, PodStoreTypeOK
  <2> HIDE DEF name, new
  <2>4. PodStoreTypeOK'
    BY <1>1, <2>1, <2>3 DEF PodStoreTypeOK, Created, With
  <2>5. RequestsTypeOK'
    BY <1>1, <2>1, AnsweredFacts DEF RequestsTypeOK
  <2> QED
    BY <2>4, <2>5
<1>8. ASSUME NEW r \in Requests, StopDeletes(r)
      PROVE  PodStoreTypeOK' /\ RequestsTypeOK'
  <2>1. PICK n \in requests[r].todo :
           /\ pods' = Deleted(n) /\ UNCHANGED clock /\ r \in DOMAIN requests
           /\ requests' \in {[requests EXCEPT ![r].todo = @ \ {n}], Answered(r)}
    BY <1>8 DEF StopDeletes, InRequest
  <2>2. PodStoreTypeOK'
    BY <1>1, <2>1, DeletedType DEF PodStoreTypeOK
  <2>3. CASE requests' = [requests EXCEPT ![r].todo = @ \ {n}]
    BY <1>1, <2>1, <2>2, <2>3 DEF RequestsTypeOK, Request
  <2>4. CASE requests' = Answered(r)
    BY <1>1, <2>2, <2>4, AnsweredFacts DEF RequestsTypeOK
  <2> QED
    BY <2>1, <2>2, <2>3, <2>4
<1> QED
  BY <1>3, <1>4, <1>5, <1>6, <1>7, <1>8 DEF SpawningStep, RequestFails

LEMMA CompletionType == SpawnerTypeOK /\ (\E n \in Names : Completes(n)) => SpawnerTypeOK'
BY DEF Completes, PodCompletes, SpawnerTypeOK, TypeOK, PodStoreTypeOK, Pod

LEMMA SpawnerTypeInit == SpawnerInit => SpawnerTypeOK
<1> SUFFICES ASSUME SpawnerInit PROVE SpawnerTypeOK
  OBVIOUS
<1>1. DOMAIN pods = {} /\ DOMAIN tasks = {} /\ DOMAIN requests = {}
  BY DEF SpawnerInit
<1> QED
  BY <1>1 DEF SpawnerInit, SpawnerTypeOK, TypeOK, PodStoreTypeOK

LEMMA SpawnerTypeStep == SpawnerTypeOK /\ [SpawnerNext]_spawnerVars => SpawnerTypeOK'
<1> SUFFICES ASSUME SpawnerTypeOK, [SpawnerNext]_spawnerVars PROVE SpawnerTypeOK'
  OBVIOUS
<1>1. CASE UpgradingStep /\ UNCHANGED requests
  BY <1>1, TypeStep DEF Next, SpawnerTypeOK
<1>2. CASE Restart /\ requests' = << >>
  <2>1. DOMAIN requests' = {}
    BY <1>2
  <2> QED
    BY <1>2, <2>1, TypeStep DEF Next, SpawnerTypeOK
<1>3. CASE SpawningStep /\ UNCHANGED upgradeVars
  BY <1>3, SpawningType
<1>4. CASE \E n \in Names : Completes(n)
  BY <1>4, CompletionType
<1>5. CASE UNCHANGED spawnerVars
  BY <1>5 DEF SpawnerTypeOK, TypeOK, PodStoreTypeOK
<1> QED
  BY <1>1, <1>2, <1>3, <1>4, <1>5 DEF SpawnerNext

\* Pods, upgrades, clean-ups and requests stay well-formed when users spawn, stop and upgrade
\* workspaces side by side (handlers/index.ts:257-420).
THEOREM SpawnerTypeCorrect == SpawnerSpec => []SpawnerTypeOK
BY SpawnerTypeInit, SpawnerTypeStep, PTL DEF SpawnerSpec

-----------------------------------------------------------------------------
(* Whose pod a name stands for *)

\* The names of spawned pods tell the users and ids apart.  The code joins the two by a dash
\* (handlers/index.ts:291), so ids and users that share one can break this.
NamesDistinct ==
    \A u, v \in Users, w, x \in Ids : PodName[<<u, w>>] = PodName[<<v, x>>] => u = v /\ w = x

\* Now and later, if there is a pod of the name n among P, it is that of user u and id w.
Means(P, n, u, w) ==
    /\ u \in Users /\ w \in Ids
    /\ n \in SpawnNames => n = PodName[<<u, w>>]
    /\ n \in DOMAIN P => P[n].owner = u /\ P[n].ws = w

\* What is known of the callers: nobody acts on the pods of others.
Separate == NoAdmins /\ AuthEnabled

Mentions(n) ==
    \/ \E s \in DOMAIN tasks : tasks[s].old = n
    \/ \E e \in sweeps : n \in {e.new, e.old}
    \/ \E r \in DOMAIN requests : n \in requests[r].todo

PodsMean == \A n \in DOMAIN pods : Means(pods, n, pods[n].owner, pods[n].ws)

TasksMean == \A s \in DOMAIN tasks : Means(pods, tasks[s].old, tasks[s].owner, tasks[s].ws)

RequestsMean ==
    Separate => \A r \in DOMAIN requests : \A n \in requests[r].todo :
                   Means(pods, n, requests[r].by, requests[r].ws)

SweepsMean ==
    Separate /\ crashes = 0 =>
        \A e \in sweeps : \E u \in Users, w \in Ids :
            Means(pods, e.new, u, w) /\ Means(pods, e.old, u, w)

\* Nobody has a suffix in hand before its pod exists.
FreshSuffixes ==
    \A s \in Suffixes : s \notin used \/ InStep(s, "create") => s \notin DOMAIN pods /\ ~Mentions(s)

OwnInv ==
    SpawnerTypeOK /\ PodsMean /\ TasksMean /\ RequestsMean /\ SweepsMean /\ FreshSuffixes

\* Names keep their meaning, and what is said of a pod that is there already is true.
LEMMA MeaningKept ==
    ASSUME OwnInv, crashes' = 0 => crashes = 0,
           \A n \in DOMAIN pods' :
              \/ n \in DOMAIN pods
              \/ /\ Means(pods', n, pods'[n].owner, pods'[n].ws)
                 /\ n \in Suffixes => n \in used' /\ ~InStep(n, "create")',
           \A n, u, w : /\ n \in DOMAIN pods \/ Mentions(n)
                        /\ Means(pods, n, u, w)
                        => Means(pods', n, u, w),
           \A s \in DOMAIN tasks' :
              LET t == tasks'[s] IN
              \/ /\ s \in DOMAIN tasks /\ t.old = tasks[s].old
                 /\ t.owner = tasks[s].owner /\ t.ws = tasks[s].ws
              \/ t.old \in DOMAIN pods /\ t.owner = pods[t.old].owner /\ t.ws = pods[t.old].ws,
           \A e \in sweeps' :
              \/ \E d \in sweeps : e.new = d.new /\ e.old = d.old
              \/ /\ e.new \in DOMAIN pods /\ e.old \in DOMAIN pods
                 /\ Separate /\ crashes' = 0 => SameWorkspace(e.new, e.old),
           \A r \in DOMAIN requests' : \A n \in requests'[r].todo :
              \/ /\ r \in DOMAIN requests /\ n \in requests[r].todo
                 /\ requests'[r].by = requests[r].by /\ requests'[r].ws = requests[r].ws
              \/ /\ n \in DOMAIN pods
                 /\ Separate => pods[n].owner = requests'[r].by /\ pods[n].ws = requests'[r].ws,
           \A s \in Suffixes : s \notin used' \/ InStep(s, "create")' =>
              s \notin used \/ InStep(s, "create")
    PROVE  PodsMean' /\ TasksMean' /\ RequestsMean' /\ SweepsMean' /\ FreshSuffixes'
<1>1. \A n \in DOMAIN pods : Means(pods, n, pods[n].owner, pods[n].ws)
  BY DEF OwnInv, PodsMean
<1>2. ASSUME NEW n \in DOMAIN pods PROVE Means(pods', n, pods[n].owner, pods[n].ws)
  BY <1>1
<1>3. PodsMean'
  <2> SUFFICES ASSUME NEW n \in DOMAIN pods' PROVE Means(pods', n, pods'[n].owner, pods'[n].ws)
    BY DEF PodsMean
  <2>1. CASE n \in DOMAIN pods
    <3>1. pods'[n].owner = pods[n].owner /\ pods'[n].ws = pods[n].ws
      BY <1>2, <2>1 DEF Means
    <3> QED
      BY <1>2, <2>1, <3>1
  <2> QED
    BY <2>1
<1>4. TasksMean'
  <2> SUFFICES ASSUME NEW s \in DOMAIN tasks'
               PROVE  Means(pods', tasks'[s].old, tasks'[s].owner, tasks'[s].ws)
    BY DEF TasksMean
  <2>1. CASE /\ s \in DOMAIN tasks /\ tasks'[s].old = tasks[s].old
             /\ tasks'[s].owner = tasks[s].owner /\ tasks'[s].ws = tasks[s].ws
    <3>1. Means(pods, tasks[s].old, tasks[s].owner, tasks[s].ws) /\ Mentions(tasks[s].old)
      BY <2>1 DEF OwnInv, TasksMean, Mentions
    <3> QED
      BY <2>1, <3>1
  <2> QED
    BY <1>2, <2>1
<1>5. RequestsMean'
  <2> SUFFICES ASSUME Separate, NEW r \in DOMAIN requests', NEW n \in requests'[r].todo
               PROVE  Means(pods', n, requests'[r].by, requests'[r].ws)
    BY DEF RequestsMean, Separate, NoAdmins, IsAdmin
  <2>1. CASE /\ r \in DOMAIN requests /\ n \in requests[r].todo
             /\ requests'[r].by = requests[r].by /\ requests'[r].ws = requests[r].ws
    <3>1. Means(pods, n, requests[r].by, requests[r].ws) /\ Mentions(n)
      BY <2>1 DEF OwnInv, RequestsMean, Mentions
    <3> QED
      BY <2>1, <3>1
  <2>2. CASE n \in DOMAIN pods /\ pods[n].owner = requests'[r].by /\ pods[n].ws = requests'[r].ws
    BY <1>2, <2>2
  <2> QED
    BY <2>1, <2>2
<1>6. SweepsMean'
  <2> SUFFICES ASSUME Separate, crashes' = 0, NEW e \in sweeps'
               PROVE  \E u \in Users, w \in Ids :
                         Means(pods', e.new, u, w) /\ Means(pods', e.old, u, w)
    BY DEF SweepsMean, Separate, NoAdmins, IsAdmin
  <2>1. ASSUME NEW d \in sweeps, e.new = d.new, e.old = d.old
        PROVE  \E u \in Users, w \in Ids : Means(pods', e.new, u, w) /\ Means(pods', e.old, u, w)
    <3>1. PICK u \in Users, w \in Ids : Means(pods, d.new, u, w) /\ Means(pods, d.old, u, w)
      BY DEF OwnInv, SweepsMean
    <3>2. Mentions(d.new) /\ Mentions(d.old)
      BY DEF Mentions
    <3>3. Means(pods', d.new, u, w) /\ Means(pods', d.old, u, w)
      BY <3>1, <3>2
    <3> QED
      BY <2>1, <3>3
  <2>2. CASE e.new \in DOMAIN pods /\ e.old \in DOMAIN pods /\ SameWorkspace(e.new, e.old)
    <3> DEFINE u == pods[e.new].owner
               w == pods[e.new].ws
    <3>1. Means(pods', e.new, u, w) /\ Means(pods', e.old, u, w)
      BY <1>2, <2>2 DEF SameWorkspace
    <3>2. u \in Users /\ w \in Ids
      BY <3>1 DEF Means
    <3> HIDE DEF u, w
    <3> QED
      BY <3>1, <3>2
  <2> QED
    BY <2>1, <2>2
<1>7. FreshSuffixes'
  <2> SUFFICES ASSUME NEW s \in Suffixes, s \notin used' \/ InStep(s, "create")'
               PROVE  s \notin DOMAIN pods' /\ ~Mentions(s)'
    BY DEF FreshSuffixes
  <2>1. s \notin DOMAIN pods /\ ~Mentions(s)
    BY DEF OwnInv, FreshSuffixes
  <2>2. s \notin DOMAIN pods'
    BY <2>1
  <2>3. ~Mentions(s)'
    BY <2>1 DEF Mentions
  <2> QED
    BY <2>2, <2>3
<1> QED
  BY <1>3, <1>4, <1>5, <1>6, <1>7

-----------------------------------------------------------------------------
(* Steps that create no pod *)

PodsShrink ==
    \A n \in DOMAIN pods' :
        n \in DOMAIN pods /\ pods'[n].owner = pods[n].owner /\ pods'[n].ws = pods[n].ws

TasksShrink ==
    /\ UNCHANGED used
    /\ \A s \in DOMAIN tasks' :
          /\ s \in DOMAIN tasks /\ tasks'[s].old = tasks[s].old
          /\ tasks'[s].owner = tasks[s].owner /\ tasks'[s].ws = tasks[s].ws
          /\ tasks'[s].step = "create" => tasks[s].step = "create"

SweepsShrink == \A e \in sweeps' : \E d \in sweeps : e.new = d.new /\ e.old = d.old

RequestsShrink ==
    \A r \in DOMAIN requests' : \A n \in requests'[r].todo :
        /\ r \in DOMAIN requests /\ n \in requests[r].todo
        /\ requests'[r].by = requests[r].by /\ requests'[r].ws = requests[r].ws

LEMMA ShrinkingKeeps ==
    ASSUME PodsShrink
    PROVE  \A n, u, w : Means(pods, n, u, w) => Means(pods', n, u, w)
BY DEF PodsShrink, Means

LEMMA Quiet ==
    ASSUME OwnInv, SpawnerTypeOK', PodsShrink, TasksShrink, SweepsShrink, RequestsShrink,
           crashes' = 0 => crashes = 0
    PROVE  OwnInv'
<1>1. \A n \in DOMAIN pods' : n \in DOMAIN pods
  BY DEF PodsShrink
<1>2. \A s \in Suffixes : s \notin used' \/ InStep(s, "create")' =>
              s \notin used \/ InStep(s, "create")
  BY DEF TasksShrink, InStep
<1> QED
  BY <1>1, <1>2, ShrinkingKeeps, MeaningKept DEF OwnInv, TasksShrink, SweepsShrink, RequestsShrink

LEMMA SamePods ==
    ASSUME UNCHANGED pods
    PROVE  PodsShrink
BY DEF PodsShrink

LEMMA SameTasks ==
    ASSUME UNCHANGED <<tasks, used>>
    PROVE  TasksShrink
BY DEF TasksShrink

LEMMA SameSweeps ==
    ASSUME sweeps' \subseteq sweeps
    PROVE  SweepsShrink
BY DEF SweepsShrink

LEMMA SameRequests ==
    ASSUME UNCHANGED requests
    PROVE  RequestsShrink
BY DEF RequestsShrink

LEMMA TaskQuiet ==
    ASSUME TypeOK, NEW s, TaskPoll(s) \/ TaskGivesUp(s) \/ TaskDropNew(s) \/ TaskDropOld(s)
    PROVE  PodsShrink /\ TasksShrink /\ SweepsShrink /\ UNCHANGED crashes
<1>1. CASE TaskPoll(s)
  <2>1. TasksShrink
    BY <1>1 DEF TaskPoll, Polled, Polling, InStep, TypeOK, Task, TasksShrink
  <2> QED
    BY <1>1, <2>1, SamePods, SameSweeps DEF TaskPoll
<1>2. CASE TaskGivesUp(s)
  <2>1. TasksShrink
    BY <1>2 DEF TaskGivesUp, InStep, TypeOK, Task, TasksShrink
  <2>2. PodsShrink
    BY <1>2, AnnotatedOwner DEF TaskGivesUp, PodsShrink
  <2> QED
    BY <1>2, <2>1, <2>2, SameSweeps DEF TaskGivesUp
<1>3. CASE TaskDropNew(s) \/ TaskDropOld(s)
  <2>1. tasks' = Finished(s) /\ UNCHANGED <<clock, used, sweeps, bulk, faults, crashes>>
    BY <1>3 DEF TaskDropNew, TaskDropOld
  <2>2. TasksShrink
    BY <2>1, FinishedType DEF TasksShrink
  <2>3. PodsShrink
    BY <1>3, DeletedOwner DEF TaskDropNew, TaskDropOld, PodsShrink
  <2> QED
    BY <2>1, <2>2, <2>3, SameSweeps
<1> QED
  BY <1>1, <1>2, <1>3

LEMMA TaskFailureQuiet ==
    ASSUME TypeOK, NEW s, TaskCallFails(s)
    PROVE  PodsShrink /\ TasksShrink /\ SweepsShrink /\ UNCHANGED crashes
<1>1. /\ UNCHANGED <<pods, used, sweeps, crashes>>
      /\ \/ InStep(s, "poll") /\ tasks' = Polled(s)
         \/ InStep(s, "poll") /\ tasks' = [tasks EXCEPT ![s].step = "dropNew"]
         \/ tasks' = Finished(s)
  BY DEF TaskCallFails, Polling
<1>2. TasksShrink
  <2>1. CASE InStep(s, "poll") /\ tasks' = Polled(s)
    BY <1>1, <2>1 DEF Polled, InStep, TypeOK, Task, TasksShrink
  <2>2. CASE InStep(s, "poll") /\ tasks' = [tasks EXCEPT ![s].step = "dropNew"]
    BY <1>1, <2>2 DEF InStep, TypeOK, Task, TasksShrink
  <2>3. CASE tasks' = Finished(s)
    BY <1>1, <2>3, FinishedType DEF TasksShrink
  <2> QED
    BY <1>1, <2>1, <2>2, <2>3
<1> QED
  BY <1>1, <1>2, SamePods, SameSweeps

LEMMA SweepQuiet ==
    ASSUME TypeOK, NEW e \in sweeps, SweepStep(e) \/ SweepCallFails(e)
    PROVE  PodsShrink /\ TasksShrink /\ SweepsShrink /\ UNCHANGED crashes
<1>1. UNCHANGED <<tasks, used, crashes>>
  BY DEF SweepStep, SweepCallFails, SweepWaits, SweepTimesOut, SweepDropNew, SweepDropOld
<1>2. pods' \in {pods, Annotated(e.old), Deleted(e.new), Deleted(e.old)}
  BY DEF SweepStep, SweepCallFails, SweepWaits, SweepTimesOut, SweepDropNew, SweepDropOld
<1>3. PodsShrink
  BY <1>2, SamePods, AnnotatedOwner, DeletedOwner DEF PodsShrink
<1>4. sweeps' \in {sweeps \ {e}, (sweeps \ {e}) \cup {[e EXCEPT !.step = "dropNew"]}}
  BY DEF SweepStep, SweepCallFails, SweepWaits, SweepTimesOut, SweepDropNew, SweepDropOld
<1>5. /\ [e EXCEPT !.step = "dropNew"].new = e.new
      /\ [e EXCEPT !.step = "dropNew"].old = e.old
  BY DEF TypeOK, Sweep
<1>6. SweepsShrink
  BY <1>4, <1>5 DEF SweepsShrink
<1> QED
  BY <1>1, <1>3, <1>6, SameTasks

LEMMA ClusterQuiet ==
    ASSUME TypeOK, NEW n, PodStarts(n) \/ PodRemoved(n) \/ PodCompletes(n)
    PROVE  PodsShrink
<1>1. CASE PodRemoved(n)
  <2>1. pods' = Without(pods, n)
    BY <1>1 DEF PodRemoved
  <2>2. DOMAIN pods' = DOMAIN pods \ {n} /\ \A m \in DOMAIN pods' : pods'[m] = pods[m]
    BY <2>1, WithoutFacts
  <2> QED
    BY <2>2 DEF PodsShrink
<1>2. CASE PodStarts(n) \/ PodCompletes(n)
  BY <1>2 DEF PodStarts, PodCompletes, PodsShrink, TypeOK, PodStoreTypeOK, Pod
<1> QED
  BY <1>1, <1>2

\* A request that begins without pods, goes on or ends.
LEMMA RequestQuiet ==
    ASSUME SpawnerTypeOK,
           \/ \E r, by, owner, w : Spawn(r, by, owner, w)
           \/ \E r : SpawnCounts(r) \/ StopDeletes(r) \/ RequestFails(r)
    PROVE  PodsShrink /\ RequestsShrink
<1>0. TypeOK /\ RequestsTypeOK
  BY DEF SpawnerTypeOK, RequestsTypeOK
<1>1. ASSUME NEW r, NEW by, NEW owner, NEW w, Spawn(r, by, owner, w)
      PROVE  PodsShrink /\ RequestsShrink
  BY <1>1 DEF Spawn, With, PodsShrink, RequestsShrink
<1>2. ASSUME NEW r, requests' = Answered(r) PROVE RequestsShrink
  BY <1>2, AnsweredFacts DEF RequestsShrink
<1>3. ASSUME NEW r, SpawnCounts(r) PROVE PodsShrink /\ RequestsShrink
  <2>1. UNCHANGED pods /\ r \in DOMAIN requests
    BY <1>3 DEF SpawnCounts, InRequest
  <2>2. CASE requests' = [requests EXCEPT ![r].step = "create"]
    BY <1>0, <2>1, <2>2 DEF RequestsTypeOK, Request, RequestsShrink, PodsShrink
  <2> QED
    BY <1>2, <1>3, <2>1, <2>2, SamePods DEF SpawnCounts
<1>4. ASSUME NEW r, StopDeletes(r) PROVE PodsShrink /\ RequestsShrink
  <2>1. PICK n \in requests[r].todo :
           /\ pods' = Deleted(n) /\ r \in DOMAIN requests
           /\ requests' \in {[requests EXCEPT ![r].todo = @ \ {n}], Answered(r)}
    BY <1>4 DEF StopDeletes, InRequest
  <2>2. PodsShrink
    BY <1>0, <2>1, DeletedOwner DEF PodsShrink
  <2>3. CASE requests' = [requests EXCEPT ![r].todo = @ \ {n}]
    BY <1>0, <2>1, <2>2, <2>3 DEF RequestsTypeOK, Request, RequestsShrink
  <2> QED
    BY <1>2, <2>1, <2>2, <2>3
<1>5. ASSUME NEW r, RequestFails(r) PROVE PodsShrink /\ RequestsShrink
  BY <1>2, <1>5, SamePods DEF RequestFails
<1> QED
  BY <1>1, <1>3, <1>4, <1>5

-----------------------------------------------------------------------------
(* Steps that look pods up *)

LEMMA LaunchOwn ==
    ASSUME OwnInv, SpawnerTypeOK', NEW u, NEW w, NEW s \in Suffixes, Launch(u, w, s),
           UNCHANGED <<pods, sweeps, crashes, requests>>
    PROVE  OwnInv'
<1>1. PICK old \in DOMAIN pods : tasks' = With(tasks, s, NewTask(old))
  BY DEF Launch, Upgradable, OfWorkspace
<1>2. s \notin used /\ used' = used \cup {s}
  BY DEF Launch
<1>3. \A x \in DOMAIN tasks' :
         \/ x \in DOMAIN tasks /\ tasks'[x] = tasks[x]
         \/ x = s /\ tasks'[x] = NewTask(old)
  BY <1>1 DEF With
<1>4. NewTask(old).old = old /\ NewTask(old).owner = pods[old].owner /\ NewTask(old).ws = pods[old].ws
  BY DEF NewTask
<1>5. \A x \in Suffixes : x \notin used' \/ InStep(x, "create")' => x \notin used \/ InStep(x, "create")
  BY <1>2, <1>3 DEF InStep
<1> HIDE DEF NewTask
<1>6. \A x \in DOMAIN tasks' :
         LET t == tasks'[x] IN
         \/ /\ x \in DOMAIN tasks /\ t.old = tasks[x].old
            /\ t.owner = tasks[x].owner /\ t.ws = tasks[x].ws
         \/ t.old \in DOMAIN pods /\ t.owner = pods[t.old].owner /\ t.ws = pods[t.old].ws
  BY <1>3, <1>4
<1> QED
  BY <1>5, <1>6, MeaningKept DEF OwnInv

\* A listing may see the pods of one user, unless it is the scan of a restart.
LEMMA FindingsOwn ==
    ASSUME OwnInv, SpawnerTypeOK', NEW V \in SUBSET DOMAIN pods, NEW W, NEW found \in Findings(V, W),
           sweeps' \subseteq sweeps \cup found, TasksShrink, RequestsShrink, UNCHANGED pods,
           crashes' = 0 => crashes = 0,
           Separate /\ crashes' = 0 => \A m, n \in V : pods[m].owner = pods[n].owner
    PROVE  OwnInv'
<1>1. \A e \in found : /\ e.new \in DOMAIN pods /\ e.old \in DOMAIN pods
                       /\ Separate /\ crashes' = 0 => SameWorkspace(e.new, e.old)
  <2> SUFFICES ASSUME NEW e \in found
               PROVE  /\ e.new \in DOMAIN pods /\ e.old \in DOMAIN pods
                      /\ Separate /\ crashes' = 0 => SameWorkspace(e.new, e.old)
    OBVIOUS
  <2>1. PICK m, n \in V : e = SweepOf(m, n) /\ pods[m].ws = pods[n].ws
    BY FoundPair
  <2>2. e.new = m /\ e.old = n
    BY <2>1 DEF SweepOf
  <2> QED
    BY <2>1, <2>2 DEF SameWorkspace
<1>2. \A e \in sweeps' :
         \/ \E d \in sweeps : e.new = d.new /\ e.old = d.old
         \/ /\ e.new \in DOMAIN pods /\ e.old \in DOMAIN pods
            /\ Separate /\ crashes' = 0 => SameWorkspace(e.new, e.old)
  BY <1>1
<1>3. \A s \in Suffixes : s \notin used' \/ InStep(s, "create")' =>
              s \notin used \/ InStep(s, "create")
  BY DEF TasksShrink, InStep
<1> QED
  BY <1>2, <1>3, MeaningKept DEF OwnInv, TasksShrink, RequestsShrink

LEMMA ListingOwn ==
    ASSUME OwnInv, SpawnerTypeOK', NEW u \in Users, NEW W, NEW found \in Findings(Visible(u), W),
           sweeps' = sweeps \cup found, UNCHANGED <<pods, tasks, used, crashes, requests>>
    PROVE  OwnInv'
<1>1. Visible(u) \in SUBSET DOMAIN pods
  BY DEF Visible
<1>2. Separate => \A m, n \in Visible(u) : pods[m].owner = pods[n].owner
  BY DEF Separate, NoAdmins, Visible, Sees
<1> QED
  BY <1>1, <1>2, FindingsOwn, SameTasks, SameRequests

LEMMA RestartOwn ==
    ASSUME OwnInv, SpawnerTypeOK', Restart, requests' = << >>
    PROVE  OwnInv'
<1>1. crashes' # 0
  BY DEF Restart, OwnInv, SpawnerTypeOK, TypeOK
<1>2. TasksShrink /\ RequestsShrink
  BY DEF Restart, TasksShrink, RequestsShrink
<1>3. UNCHANGED pods
  BY DEF Restart
<1>4. CASE sweeps' \in Findings(DOMAIN pods, Ids)
  BY <1>1, <1>2, <1>3, <1>4, FindingsOwn
<1>5. CASE sweeps' = {}
  <2>1. SweepsShrink
    BY <1>5 DEF SweepsShrink
  <2> QED
    BY <1>1, <1>2, <1>3, <2>1, SamePods, Quiet
<1> QED
  BY <1>4, <1>5 DEF Restart

LEMMA StopOwn ==
    ASSUME OwnInv, SpawnerTypeOK', NEW r, NEW by \in Users, NEW w, Stop(r, by, w),
           UNCHANGED upgradeVars
    PROVE  OwnInv'
<1> DEFINE found == {n \in OfWorkspace(w) : Sees(by, n)}
           q == [step |-> "delete", by |-> by, owner |-> by, ws |-> w, todo |-> found]
<1>1. requests' = With(requests, r, q) /\ UNCHANGED <<pods, tasks, used, sweeps, crashes>>
  BY DEF Stop
<1>2. q.by = by /\ q.ws = w /\ q.todo = found
  OBVIOUS
<1>3. \A n \in found : /\ n \in DOMAIN pods
                       /\ Separate => pods[n].owner = by /\ pods[n].ws = w
  BY DEF OfWorkspace, Sees, Separate, NoAdmins
<1> HIDE DEF found, q
<1>4. \A x \in DOMAIN requests' :
         \/ x = r /\ requests'[x] = q
         \/ x \in DOMAIN requests /\ requests'[x] = requests[x]
  BY <1>1 DEF With
<1>5. \A x \in DOMAIN requests' : \A n \in requests'[x].todo :
         \/ /\ x \in DOMAIN requests /\ n \in requests[x].todo
            /\ requests'[x].by = requests[x].by /\ requests'[x].ws = requests[x].ws
         \/ /\ n \in DOMAIN pods
            /\ Separate => pods[n].owner = requests'[x].by /\ pods[n].ws = requests'[x].ws
  BY <1>2, <1>3, <1>4
<1>6. \A s \in Suffixes : s \notin used' \/ InStep(s, "create")' =>
              s \notin used \/ InStep(s, "create")
  BY <1>1 DEF InStep
<1> QED
  BY <1>1, <1>5, <1>6, MeaningKept DEF OwnInv

-----------------------------------------------------------------------------
(* Steps that create a pod *)

LEMMA TaskCreateOwn ==
    ASSUME OwnInv, SpawnerTypeOK', NEW s \in Suffixes, TaskCreate(s), UNCHANGED requests
    PROVE  OwnInv'
<1> DEFINE t == tasks[s]
           new == NewPod(t.owner, t.ws, t.error)
<1>1. TypeOK
  BY DEF OwnInv, SpawnerTypeOK
<1>2. /\ InStep(s, "create") /\ s \in DOMAIN tasks
      /\ pods' = Created(s, new)
      /\ \/ tasks' = [tasks EXCEPT ![s].step = "dropOld"]
         \/ tasks' = [tasks EXCEPT ![s].step = "poll", ![s].wake = clock]
      /\ UNCHANGED <<used, sweeps, crashes>>
  BY DEF TaskCreate, InStep
<1>3. new.owner = t.owner /\ new.ws = t.ws
  BY DEF NewPod
<1>4. t.owner \in Users /\ t.ws \in Ids /\ s \in used
  BY <1>1, <1>2 DEF TypeOK, Task
<1> HIDE DEF t, new
<1>5. s \notin DOMAIN pods /\ ~Mentions(s)
  BY <1>2 DEF OwnInv, FreshSuffixes
<1>6. /\ DOMAIN pods' = DOMAIN pods \cup {s}
      /\ pods'[s] = new
      /\ \A n \in DOMAIN pods : pods'[n] = pods[n]
  BY <1>2, <1>5 DEF Created, With
<1>7. \A x \in DOMAIN tasks' :
         /\ x \in DOMAIN tasks /\ tasks'[x].old = tasks[x].old
         /\ tasks'[x].owner = tasks[x].owner /\ tasks'[x].ws = tasks[x].ws
         /\ tasks'[x].step = "create" => x # s /\ tasks[x].step = "create"
  BY <1>1, <1>2 DEF TypeOK, Task
<1>8. s \notin SpawnNames
  BY PodStoreAssumption
<1>9. Means(pods', s, pods'[s].owner, pods'[s].ws)
  BY <1>3, <1>4, <1>6, <1>8 DEF Means
<1>10. \A n \in DOMAIN pods' :
          \/ n \in DOMAIN pods
          \/ /\ Means(pods', n, pods'[n].owner, pods'[n].ws)
             /\ n \in Suffixes => n \in used' /\ ~InStep(n, "create")'
  BY <1>2, <1>4, <1>6, <1>7, <1>9 DEF InStep
<1>11. \A n, u, w : (n \in DOMAIN pods \/ Mentions(n)) /\ Means(pods, n, u, w) => Means(pods', n, u, w)
  BY <1>5, <1>6 DEF Means
<1>12. \A x \in Suffixes : x \notin used' \/ InStep(x, "create")' => x \notin used \/ InStep(x, "create")
  BY <1>2, <1>7 DEF InStep
<1> QED
  BY <1>2, <1>7, <1>10, <1>11, <1>12, MeaningKept DEF OwnInv

LEMMA SpawnCreatesOwn ==
    ASSUME NamesDistinct, OwnInv, SpawnerTypeOK', NEW r, SpawnCreates(r), UNCHANGED upgradeVars
    PROVE  OwnInv'
<1> DEFINE q == requests[r]
           name == PodName[<<q.owner, q.ws>>]
           new == NewPod(q.owner, q.ws, FALSE)
<1>1. /\ r \in DOMAIN requests /\ requests' = Answered(r)
      /\ pods' = IF name \in DOMAIN pods THEN pods ELSE Created(name, new)
      /\ UNCHANGED <<tasks, used, sweeps, crashes>>
  BY DEF SpawnCreates, InRequest
<1>2. q.owner \in Users /\ q.ws \in Ids
  BY <1>1 DEF OwnInv, SpawnerTypeOK, Request
<1>3. name \in SpawnNames /\ name \notin Suffixes
  BY <1>2, SpawnNameType, PodStoreAssumption
<1>4. new.owner = q.owner /\ new.ws = q.ws
  BY DEF NewPod
<1>5. \A u \in Users, w \in Ids : name = PodName[<<u, w>>] => u = q.owner /\ w = q.ws
  BY <1>2 DEF NamesDistinct
<1>6. TasksShrink /\ SweepsShrink
  BY <1>1, SameTasks, SameSweeps
<1>7. RequestsShrink
  BY <1>1, AnsweredFacts DEF RequestsShrink
<1>8. CASE name \in DOMAIN pods
  BY <1>1, <1>6, <1>7, <1>8, SamePods, Quiet
<1>9. CASE name \notin DOMAIN pods
  <2>0. name = PodName[<<q.owner, q.ws>>]
    OBVIOUS
  <2> HIDE DEF q, name, new
  <2>1. /\ DOMAIN pods' = DOMAIN pods \cup {name}
        /\ pods'[name] = new
        /\ \A n \in DOMAIN pods : pods'[n] = pods[n]
    BY <1>1, <1>9 DEF Created, With
  <2>2. Means(pods', name, pods'[name].owner, pods'[name].ws)
    BY <1>2, <1>4, <2>0, <2>1 DEF Means
  <2>3. \A n \in DOMAIN pods' :
           \/ n \in DOMAIN pods
           \/ /\ Means(pods', n, pods'[n].owner, pods'[n].ws)
              /\ n \in Suffixes => n \in used' /\ ~InStep(n, "create")'
    BY <1>3, <2>1, <2>2
  <2>4. \A n, u, w : (n \in DOMAIN pods \/ Mentions(n)) /\ Means(pods, n, u, w) => Means(pods', n, u, w)
    BY <1>3, <1>4, <1>5, <2>1 DEF Means
  <2>5. \A s \in Suffixes : s \notin used' \/ InStep(s, "create")' =>
                s \notin used \/ InStep(s, "create")
    BY <1>1 DEF InStep
  <2> QED
    BY <1>1, <1>6, <1>7, <2>3, <2>4, <2>5, MeaningKept DEF OwnInv, TasksShrink, SweepsShrink, RequestsShrink
<1> QED
  BY <1>8, <1>9

-----------------------------------------------------------------------------
(* Pods are deleted for those they belong to *)

LEMMA OwnInit == SpawnerInit => OwnInv
<1> SUFFICES ASSUME SpawnerInit PROVE OwnInv
  OBVIOUS
<1>1. DOMAIN pods = {} /\ DOMAIN tasks = {} /\ DOMAIN requests = {} /\ sweeps = {}
  BY DEF SpawnerInit
<1> QED
  BY <1>1, SpawnerTypeInit
     DEF OwnInv, PodsMean, TasksMean, RequestsMean, SweepsMean, FreshSuffixes, Mentions

LEMMA OwnStep == NamesDistinct /\ OwnInv /\ [SpawnerNext]_spawnerVars => OwnInv'
<1> SUFFICES ASSUME NamesDistinct, OwnInv, [SpawnerNext]_spawnerVars PROVE OwnInv'
  OBVIOUS
<1>0. SpawnerTypeOK /\ TypeOK /\ SpawnerTypeOK'
  BY SpawnerTypeStep DEF OwnInv, SpawnerTypeOK
<1>1. ASSUME UNCHANGED requests, NEW u \in Users, NEW w \in Ids, NEW s \in Suffixes, Upgrade(u, w, s)
      PROVE  OwnInv'
  BY <1>0, <1>1, LaunchOwn DEF Upgrade
<1>2. ASSUME UNCHANGED requests, NEW u \in Users, UpgradeAll(u) PROVE OwnInv'
  BY <1>0, <1>2, SamePods, SameTasks, SameSweeps, SameRequests, Quiet DEF UpgradeAll
<1>3. ASSUME UNCHANGED requests, NEW u \in Users, ListWorkspaces(u) PROVE OwnInv'
  BY <1>0, <1>3, ListingOwn DEF ListWorkspaces
<1>4. ASSUME UNCHANGED requests, NEW u \in Users, NEW w \in Ids, GetWorkspace(u, w) PROVE OwnInv'
  BY <1>0, <1>4, ListingOwn DEF GetWorkspace
<1>5. ASSUME UNCHANGED requests, NEW b \in bulk, NEW s \in Suffixes, UpgradeAllNext(b, s)
      PROVE  OwnInv'
  <2>1. UNCHANGED <<pods, sweeps, crashes>>
    BY <1>5 DEF UpgradeAllNext
  <2>2. CASE Launch(b.by, b.ws, s)
    BY <1>0, <1>5, <2>1, <2>2, LaunchOwn
  <2>3. CASE UNCHANGED <<tasks, used>>
    BY <1>0, <1>5, <2>1, <2>3, SamePods, SameTasks, SameSweeps, SameRequests, Quiet
  <2> QED
    BY <1>5, <2>2, <2>3 DEF UpgradeAllNext
<1>6. ASSUME UNCHANGED requests, NEW s \in Suffixes, TaskStep(s) \/ TaskCallFails(s) PROVE OwnInv'
  <2>1. CASE TaskCreate(s)
    BY <1>0, <1>6, <2>1, TaskCreateOwn
  <2>2. CASE TaskPoll(s) \/ TaskGivesUp(s) \/ TaskDropNew(s) \/ TaskDropOld(s)
    BY <1>0, <1>6, <2>2, TaskQuiet, SameRequests, Quiet
  <2>3. CASE TaskCallFails(s)
    BY <1>0, <1>6, <2>3, TaskFailureQuiet, SameRequests, Quiet
  <2> QED
    BY <1>6, <2>1, <2>2, <2>3 DEF TaskStep
<1>7. ASSUME UNCHANGED requests, NEW e \in sweeps, SweepStep(e) \/ SweepCallFails(e) PROVE OwnInv'
  BY <1>0, <1>7, SweepQuiet, SameRequests, Quiet
<1>8. ASSUME UNCHANGED requests, NEW n, PodStarts(n) \/ PodRemoved(n) \/ PodCompletes(n),
             UNCHANGED upgradeVars
      PROVE  OwnInv'
  BY <1>0, <1>8, ClusterQuiet, SameTasks, SameSweeps, SameRequests, Quiet
<1>9. ASSUME UNCHANGED <<pods, upgradeVars, requests>> PROVE OwnInv'
  BY <1>0, <1>9, SamePods, SameTasks, SameSweeps, SameRequests, Quiet
<1>10. CASE UpgradingStep /\ UNCHANGED requests
  <2>1. ASSUME TimePasses PROVE OwnInv'
    BY <1>9, <1>10, <2>1 DEF TimePasses, Tick
  <2>2. ASSUME NEW n \in Names, Kubelet(n) PROVE OwnInv'
    BY <1>8, <1>10, <2>2 DEF Kubelet
  <2> QED
    BY <1>1, <1>2, <1>3, <1>4, <1>5, <1>6, <1>7, <1>10, <2>1, <2>2 DEF UpgradingStep
<1>11. CASE Restart /\ requests' = << >>
  BY <1>0, <1>11, RestartOwn
<1>12. CASE SpawningStep /\ UNCHANGED upgradeVars
  <2>1. ASSUME PodsShrink /\ RequestsShrink PROVE OwnInv'
    BY <1>0, <1>12, <2>1, SameTasks, SameSweeps, Quiet
  <2>2. ASSUME NEW r \in Requests, NEW by \in Users, NEW w \in Ids, Stop(r, by, w) PROVE OwnInv'
    BY <1>0, <1>12, <2>2, StopOwn
  <2>3. ASSUME NEW r \in Requests, SpawnCreates(r) PROVE OwnInv'
    BY <1>0, <1>12, <2>3, SpawnCreatesOwn
  <2>4. ASSUME \/ \E r, by, owner, w : Spawn(r, by, owner, w)
               \/ \E r : SpawnCounts(r) \/ StopDeletes(r) \/ RequestFails(r)
        PROVE  OwnInv'
    BY <1>0, <2>1, <2>4, RequestQuiet
  <2> QED
    BY <1>12, <2>2, <2>3, <2>4 DEF SpawningStep
<1>13. CASE \E n \in Names : Completes(n)
  BY <1>8, <1>13 DEF Completes
<1>14. CASE UNCHANGED spawnerVars
  BY <1>9, <1>14
<1> QED
  BY <1>10, <1>11, <1>12, <1>13, <1>14 DEF SpawnerNext

LEMMA OwnImplies == OwnInv => DeletesOwnPodsOnly
<1> SUFFICES ASSUME OwnInv, NoAdmins, AuthEnabled PROVE DeletesOwnPodsOnly
  BY DEF DeletesOwnPodsOnly
<1>1. \A s \in DOMAIN tasks : tasks[s].old \in DOMAIN pods =>
         pods[tasks[s].old].owner = tasks[s].owner /\ pods[tasks[s].old].ws = tasks[s].ws
  BY DEF OwnInv, TasksMean, Means
<1>2. \A r \in DOMAIN requests : \A n \in requests[r].todo \cap DOMAIN pods :
         pods[n].owner = requests[r].by /\ pods[n].ws = requests[r].ws
  BY DEF OwnInv, RequestsMean, Separate, Means
<1>3. ASSUME crashes = 0, NEW e \in sweeps, {e.new, e.old} \subseteq DOMAIN pods
      PROVE  SameWorkspace(e.new, e.old)
  <2>1. PICK u \in Users, w \in Ids : Means(pods, e.new, u, w) /\ Means(pods, e.old, u, w)
    BY <1>3 DEF OwnInv, SweepsMean, Separate
  <2> QED
    BY <1>3, <2>1 DEF Means, SameWorkspace
<1> QED
  BY <1>1, <1>2, <1>3 DEF DeletesOwnPodsOnly

\* Where the names of pods tell the users and ids apart, what the code deletes by a name it
\* has read before is still the pod of that workspace and user, after any number of spawns,
\* stops, upgrades and clean-ups in between (handlers/index.ts:396-420, upgrade.ts:330-420).
THEOREM DeletesOwnPodsOnlyHolds ==
    ASSUME NamesDistinct
    PROVE  SpawnerSpec => []DeletesOwnPodsOnly
<1>1. OwnInv /\ [SpawnerNext]_spawnerVars => OwnInv'
  BY OwnStep
<1> QED
  BY <1>1, OwnInit, OwnImplies, PTL DEF SpawnerSpec

-----------------------------------------------------------------------------
(* The limit on the workspaces of a user *)

QuotaInv ==
    /\ SpawnerTypeOK
    /\ \A u \in Users : IsFiniteSet(Active(u))
    /\ QuotaOvershootBounded

\* Pods and admitted requests only go, and a pod that is done stays so.
PodsFade ==
    \A n \in DOMAIN pods' :
        /\ n \in DOMAIN pods /\ pods'[n].owner = pods[n].owner /\ pods'[n].ws = pods[n].ws
        /\ pods'[n].phase # "Done" => pods[n].phase # "Done"

AdmittedFade == \A u : Admitted(u)' \subseteq Admitted(u)

LEMMA FewerPods ==
    ASSUME NEW S, IsFiniteSet(S), NEW T \in SUBSET S
    PROVE  IsFiniteSet(T) /\ Cardinality(T) \in Nat /\ Cardinality(T) <= Cardinality(S)
BY FS_Subset, FS_CardinalityType

LEMMA SpawnedAreActive ==
    ASSUME NEW u
    PROVE  SpawnedActive(u) \subseteq Active(u)
BY DEF SpawnedActive, Active

LEMMA AdmittedFinite ==
    ASSUME SpawnerTypeOK, NEW u
    PROVE  /\ IsFiniteSet(Admitted(u)) /\ Cardinality(Admitted(u)) \in Nat
           /\ Cardinality(Admitted(u)) <= Cardinality(Requests)
<1>1. Admitted(u) \subseteq Requests
  BY DEF Admitted, SpawnerTypeOK
<1> QED
  BY <1>1, SpawningAssumption, FewerPods

LEMMA FadingPods ==
    ASSUME PodsFade, NEW u
    PROVE  Active(u)' \subseteq Active(u) /\ SpawnedActive(u)' \subseteq SpawnedActive(u)
BY DEF PodsFade, Active, SpawnedActive

\* No user gains anything that the bound counts.
LEMMA QuotaKept ==
    ASSUME QuotaInv, SpawnerTypeOK', AdmittedFade,
           \A u \in Users : IsFiniteSet(Active(u)') /\ SpawnedActive(u)' \subseteq SpawnedActive(u)
    PROVE  QuotaInv'
<1> SUFFICES ASSUME NoAdmins, MaxWorkspaces > 0, NEW u \in Users
             PROVE  Cardinality(SpawnedActive(u)') + Cardinality(Admitted(u)')
                        < MaxWorkspaces + Cardinality(Requests)
  BY DEF QuotaInv, QuotaOvershootBounded, NoAdmins, IsAdmin
<1>1. IsFiniteSet(SpawnedActive(u)) /\ Cardinality(SpawnedActive(u)) \in Nat
  BY SpawnedAreActive, FewerPods DEF QuotaInv
<1>2. /\ Cardinality(SpawnedActive(u)') \in Nat
      /\ Cardinality(SpawnedActive(u)') <= Cardinality(SpawnedActive(u))
  BY <1>1, FewerPods
<1>3. IsFiniteSet(Admitted(u)) /\ Cardinality(Admitted(u)) \in Nat
  BY AdmittedFinite DEF QuotaInv
<1>4. /\ Cardinality(Admitted(u)') \in Nat
      /\ Cardinality(Admitted(u)') <= Cardinality(Admitted(u))
  BY <1>3, FewerPods DEF AdmittedFade
<1>5. Cardinality(SpawnedActive(u)) + Cardinality(Admitted(u)) < MaxWorkspaces + Cardinality(Requests)
  BY DEF QuotaInv, QuotaOvershootBounded
<1>6. MaxWorkspaces \in Nat /\ Cardinality(Requests) \in Nat
  BY SpawningAssumption, FS_CardinalityType
<1> QED
  BY <1>1, <1>2, <1>3, <1>4, <1>5, <1>6

LEMMA FadingKeeps ==
    ASSUME QuotaInv, SpawnerTypeOK', PodsFade, AdmittedFade
    PROVE  QuotaInv'
<1>1. \A u \in Users : IsFiniteSet(Active(u)') /\ SpawnedActive(u)' \subseteq SpawnedActive(u)
  BY FadingPods, FewerPods DEF QuotaInv
<1> QED
  BY <1>1, QuotaKept

LEMMA MarkingFades ==
    ASSUME TypeOK, NEW n,
           \/ pods' \in {pods, Annotated(n), Deleted(n)}
           \/ PodStarts(n) \/ PodCompletes(n) \/ PodRemoved(n)
    PROVE  PodsFade
<1>1. CASE UNCHANGED pods
  BY <1>1 DEF PodsFade
<1>2. CASE pods' = Annotated(n)
  BY <1>2 DEF PodsFade, Annotated, TypeOK, PodStoreTypeOK, Pod
<1>3. CASE pods' = Deleted(n)
  BY <1>3 DEF PodsFade, Deleted, TypeOK, PodStoreTypeOK, Pod
<1>4. CASE PodStarts(n) \/ PodCompletes(n)
  BY <1>4 DEF PodStarts, PodCompletes, PodsFade, TypeOK, PodStoreTypeOK, Pod
<1>5. CASE PodRemoved(n)
  <2>1. pods' = Without(pods, n)
    BY <1>5 DEF PodRemoved
  <2>2. DOMAIN pods' = DOMAIN pods \ {n} /\ \A m \in DOMAIN pods' : pods'[m] = pods[m]
    BY <2>1, WithoutFacts
  <2> QED
    BY <2>2 DEF PodsFade
<1> QED
  BY <1>1, <1>2, <1>3, <1>4, <1>5

\* An upgrade or a clean-up creates a pod under a suffix or lets pods fade.
LEMMA UpgradingFades ==
    ASSUME TypeOK, UpgradingStep \/ Restart
    PROVE  PodsFade \/ \E s \in Suffixes : TaskCreate(s)
<1>1. ASSUME UNCHANGED pods PROVE PodsFade
  BY <1>1, MarkingFades
<1>2. ASSUME NEW u \in Users, NEW w \in Ids, NEW s \in Suffixes, Upgrade(u, w, s) PROVE PodsFade
  BY <1>1, <1>2 DEF Upgrade
<1>3. ASSUME NEW u \in Users, UpgradeAll(u) \/ ListWorkspaces(u) PROVE PodsFade
  BY <1>1, <1>3 DEF UpgradeAll, ListWorkspaces
<1>4. ASSUME NEW u \in Users, NEW w \in Ids, GetWorkspace(u, w) PROVE PodsFade
  BY <1>1, <1>4 DEF GetWorkspace
<1>5. ASSUME NEW b \in bulk, NEW s \in Suffixes, UpgradeAllNext(b, s) PROVE PodsFade
  BY <1>1, <1>5 DEF UpgradeAllNext
<1>6. ASSUME NEW s \in Suffixes, TaskStep(s) \/ TaskCallFails(s), ~TaskCreate(s) PROVE PodsFade
  <2>1. \E n : pods' \in {pods, Annotated(n), Deleted(n)}
    BY <1>6 DEF TaskStep, TaskPoll, TaskGivesUp, TaskDropNew, TaskDropOld, TaskCallFails
  <2> QED
    BY <2>1, MarkingFades
<1>7. ASSUME NEW e \in sweeps, SweepStep(e) \/ SweepCallFails(e) PROVE PodsFade
  <2>1. \E n : pods' \in {pods, Annotated(n), Deleted(n)}
    BY <1>7 DEF SweepStep, SweepWaits, SweepTimesOut, SweepDropNew, SweepDropOld, SweepCallFails
  <2> QED
    BY <2>1, MarkingFades
<1>8. ASSUME NEW n \in Names, Kubelet(n) PROVE PodsFade
  BY <1>8, MarkingFades DEF Kubelet
<1>9. ASSUME TimePasses \/ Restart PROVE PodsFade
  BY <1>1, <1>9 DEF TimePasses, Tick, Restart
<1> QED
  BY <1>2, <1>3, <1>4, <1>5, <1>6, <1>7, <1>8, <1>9 DEF UpgradingStep

\* The new pod of an upgrade does not count as spawned.
LEMMA QuotaTaskCreate ==
    ASSUME QuotaInv, SpawnerTypeOK', NEW s \in Suffixes, TaskCreate(s), UNCHANGED requests
    PROVE  QuotaInv'
<1> DEFINE new == NewPod(tasks[s].owner, tasks[s].ws, tasks[s].error)
<1>1. pods' = Created(s, new)
  BY DEF TaskCreate
<1>2. new.ws = tasks[s].ws
  BY DEF NewPod
<1> HIDE DEF new
<1>3. /\ DOMAIN pods' = DOMAIN pods \cup {s}
      /\ pods'[s] = new
      /\ \A n \in DOMAIN pods \ {s} : pods'[n] = pods[n]
  BY <1>1 DEF Created, With
<1>4. ASSUME NEW u \in Users
      PROVE  IsFiniteSet(Active(u)') /\ SpawnedActive(u)' \subseteq SpawnedActive(u)
  <2>1. Active(u)' \subseteq Active(u) \cup {tasks[s].ws}
    BY <1>2, <1>3 DEF Active
  <2>2. IsFiniteSet(Active(u) \cup {tasks[s].ws})
    BY FS_AddElement DEF QuotaInv
  <2>3. SpawnedActive(u)' \subseteq SpawnedActive(u)
    BY <1>3 DEF SpawnedActive
  <2> QED
    BY <2>1, <2>2, <2>3, FewerPods
<1>5. AdmittedFade
  BY DEF AdmittedFade, Admitted, IsAdmin
<1> QED
  BY <1>4, <1>5, QuotaKept

\* A spawn that passes the check: the user is below the limit, and what overlaps is
\* bounded by the requests there can be.
LEMMA QuotaSpawnCounts ==
    ASSUME QuotaInv, SpawnerTypeOK', NEW r, SpawnCounts(r)
    PROVE  QuotaInv'
<1>1. UNCHANGED pods /\ r \in DOMAIN requests
  BY DEF SpawnCounts, InRequest
<1>2. CASE requests' = Answered(r)
  <2>1. AdmittedFade
    BY <1>2, AnsweredFacts DEF AdmittedFade, Admitted, IsAdmin
  <2>2. PodsFade
    BY <1>1 DEF PodsFade
  <2> QED
    BY <2>1, <2>2, FadingKeeps
<1>3. CASE requests' = [requests EXCEPT ![r].step = "create"] /\ ~OverQuota(requests[r])
  <2>1. \A u : Active(u)' = Active(u) /\ SpawnedActive(u)' = SpawnedActive(u)
    BY <1>1 DEF Active, SpawnedActive
  <2> SUFFICES ASSUME NoAdmins, MaxWorkspaces > 0, NEW u \in Users
               PROVE  Cardinality(SpawnedActive(u)) + Cardinality(Admitted(u)')
                          < MaxWorkspaces + Cardinality(Requests)
    BY <2>1 DEF QuotaInv, QuotaOvershootBounded, NoAdmins, IsAdmin
  <2>2. MaxWorkspaces \in Nat /\ Cardinality(Requests) \in Nat
    BY SpawningAssumption, FS_CardinalityType
  <2>3. /\ requests[r].by \in Users /\ DOMAIN requests' = DOMAIN requests
        /\ \A x \in DOMAIN requests' :
              requests'[x].owner = requests[x].owner /\ requests'[x].by = requests[x].by
        /\ \A x \in DOMAIN requests' \ {r} : requests'[x] = requests[x]
    BY <1>1, <1>3 DEF QuotaInv, SpawnerTypeOK, Request
  <2>4. CASE requests[r].owner = u
    <3>1. ~(Cardinality(Active(u)) >= MaxWorkspaces)
      BY <1>3, <2>3, <2>4 DEF OverQuota, NoAdmins
    <3>2. IsFiniteSet(Active(u)) /\ Cardinality(Active(u)) \in Nat
      BY FS_CardinalityType DEF QuotaInv
    <3>3. /\ Cardinality(SpawnedActive(u)) \in Nat
          /\ Cardinality(SpawnedActive(u)) <= Cardinality(Active(u))
      BY <3>2, SpawnedAreActive, FewerPods
    <3>4. Admitted(u)' \subseteq Requests
      BY DEF Admitted, SpawnerTypeOK
    <3>5. /\ Cardinality(Admitted(u)') \in Nat
          /\ Cardinality(Admitted(u)') <= Cardinality(Requests)
      BY <3>4, SpawningAssumption, FewerPods
    <3> QED
      BY <2>2, <3>1, <3>2, <3>3, <3>5
  <2>5. CASE requests[r].owner # u
    <3>1. Admitted(u)' = Admitted(u)
      BY <2>3, <2>5 DEF Admitted, IsAdmin
    <3> QED
      BY <3>1 DEF QuotaInv, QuotaOvershootBounded
  <2> QED
    BY <2>4, <2>5
<1> QED
  BY <1>2, <1>3 DEF SpawnCounts

\* A spawn that creates its pod gives up its place among the admitted ones.
LEMMA QuotaSpawnCreates ==
    ASSUME QuotaInv, SpawnerTypeOK', NEW r, SpawnCreates(r)
    PROVE  QuotaInv'
<1> DEFINE q == requests[r]
           name == PodName[<<q.owner, q.ws>>]
           new == NewPod(q.owner, q.ws, FALSE)
<1>1. /\ r \in DOMAIN requests /\ q.step = "create" /\ requests' = Answered(r)
      /\ pods' = IF name \in DOMAIN pods THEN pods ELSE Created(name, new)
  BY DEF SpawnCreates, InRequest
<1>2. q.owner \in Users /\ q.by \in Users
  BY <1>1 DEF QuotaInv, SpawnerTypeOK, Request
<1>3. new.owner = q.owner /\ new.ws = q.ws
  BY DEF NewPod
<1>4. DOMAIN requests' = DOMAIN requests \ {r} /\ \A x \in DOMAIN requests' : requests'[x] = requests[x]
  BY <1>1, AnsweredFacts
<1>5. AdmittedFade
  BY <1>4 DEF AdmittedFade, Admitted, IsAdmin
<1>6. CASE name \in DOMAIN pods
  <2>1. PodsFade
    BY <1>1, <1>6 DEF PodsFade
  <2> QED
    BY <1>5, <2>1, FadingKeeps
<1>7. CASE name \notin DOMAIN pods
  <2> HIDE DEF name, new
  <2>1. /\ DOMAIN pods' = DOMAIN pods \cup {name}
        /\ pods'[name] = new
        /\ \A n \in DOMAIN pods : pods'[n] = pods[n]
    BY <1>1, <1>7 DEF Created, With
  <2>2. ASSUME NEW u \in Users
        PROVE  /\ Active(u)' \subseteq Active(u) \cup {q.ws}
               /\ SpawnedActive(u)' \subseteq SpawnedActive(u) \cup {q.ws}
               /\ u # q.owner => SpawnedActive(u)' \subseteq SpawnedActive(u)
    BY <1>3, <2>1 DEF Active, SpawnedActive
  <2>3. ASSUME NEW u \in Users PROVE IsFiniteSet(Active(u)')
    <3>1. IsFiniteSet(Active(u) \cup {q.ws})
      BY FS_AddElement DEF QuotaInv
    <3> QED
      BY <2>2, <3>1, FewerPods
  <2> SUFFICES ASSUME NoAdmins, MaxWorkspaces > 0, NEW u \in Users
               PROVE  Cardinality(SpawnedActive(u)') + Cardinality(Admitted(u)')
                          < MaxWorkspaces + Cardinality(Requests)
    BY <2>3 DEF QuotaInv, QuotaOvershootBounded, NoAdmins, IsAdmin
  <2>4. /\ MaxWorkspaces \in Nat /\ Cardinality(Requests) \in Nat
        /\ Cardinality(SpawnedActive(u)) + Cardinality(Admitted(u))
              < MaxWorkspaces + Cardinality(Requests)
    BY SpawningAssumption, FS_CardinalityType DEF QuotaInv, QuotaOvershootBounded
  <2>5. IsFiniteSet(SpawnedActive(u)) /\ Cardinality(SpawnedActive(u)) \in Nat
    BY SpawnedAreActive, FewerPods DEF QuotaInv
  <2>6. IsFiniteSet(Admitted(u)) /\ Cardinality(Admitted(u)) \in Nat
    BY AdmittedFinite DEF QuotaInv
  <2>7. CASE u = q.owner
    <3>1. r \in Admitted(u) /\ Admitted(u)' = Admitted(u) \ {r}
      BY <1>1, <1>2, <1>4, <2>7 DEF Admitted, NoAdmins, IsAdmin
    <3>2. Cardinality(Admitted(u)') = Cardinality(Admitted(u)) - 1
      BY <2>6, <3>1, FS_RemoveElement
    <3>3. /\ IsFiniteSet(SpawnedActive(u) \cup {q.ws})
          /\ Cardinality(SpawnedActive(u) \cup {q.ws}) <= Cardinality(SpawnedActive(u)) + 1
      <4> DEFINE S == SpawnedActive(u)
      <4>1. IsFiniteSet(S) /\ Cardinality(S) \in Nat
        BY <2>5
      <4> HIDE DEF q, S
      <4>2. /\ IsFiniteSet(S \cup {q.ws})
            /\ Cardinality(S \cup {q.ws}) \in {Cardinality(S), Cardinality(S) + 1}
        BY <4>1, FS_AddElement
      <4>3. Cardinality(S \cup {q.ws}) <= Cardinality(S) + 1
        BY <4>1, <4>2
      <4> QED
        BY <4>2, <4>3 DEF S
    <3>4. /\ Cardinality(SpawnedActive(u)') \in Nat
          /\ Cardinality(SpawnedActive(u)') <= Cardinality(SpawnedActive(u) \cup {q.ws})
      BY <2>2, <3>3, FewerPods
    <3>5. Cardinality(SpawnedActive(u) \cup {q.ws}) \in Nat
      BY <3>3, FS_CardinalityType
    <3> QED
      BY <2>4, <2>5, <2>6, <3>2, <3>3, <3>4, <3>5
  <2>8. CASE u # q.owner
    <3>1. /\ Cardinality(SpawnedActive(u)') \in Nat
          /\ Cardinality(SpawnedActive(u)') <= Cardinality(SpawnedActive(u))
      BY <2>2, <2>5, <2>8, FewerPods
    <3>2. /\ Cardinality(Admitted(u)') \in Nat
          /\ Cardinality(Admitted(u)') <= Cardinality(Admitted(u))
      BY <1>5, <2>6, FewerPods DEF AdmittedFade
    <3> QED
      BY <2>4, <2>5, <2>6, <3>1, <3>2
  <2> QED
    BY <2>7, <2>8
<1> QED
  BY <1>6, <1>7

LEMMA QuotaInit == SpawnerInit => QuotaInv
<1> SUFFICES ASSUME SpawnerInit PROVE QuotaInv
  OBVIOUS
<1>0. DOMAIN pods = {} /\ DOMAIN requests = {}
  BY DEF SpawnerInit
<1>1. \A u \in Users : Active(u) = {} /\ SpawnedActive(u) = {} /\ Admitted(u) = {}
  BY <1>0 DEF Active, SpawnedActive, Admitted
<1>2. Cardinality({}) = 0 /\ IsFiniteSet({})
  BY FS_EmptySet
<1>3. MaxWorkspaces \in Nat /\ Cardinality(Requests) \in Nat
  BY SpawningAssumption, FS_CardinalityType
<1>4. QuotaOvershootBounded
  <2> SUFFICES ASSUME MaxWorkspaces > 0, NEW u \in Users
               PROVE  Cardinality(SpawnedActive(u)) + Cardinality(Admitted(u))
                          < MaxWorkspaces + Cardinality(Requests)
    BY DEF QuotaOvershootBounded
  <2>1. Cardinality(SpawnedActive(u)) = 0 /\ Cardinality(Admitted(u)) = 0
    BY <1>1, <1>2
  <2> QED
    BY <1>3, <2>1
<1> QED
  BY <1>1, <1>2, <1>4, SpawnerTypeInit DEF QuotaInv

LEMMA QuotaStep == QuotaInv /\ [SpawnerNext]_spawnerVars => QuotaInv'
<1> SUFFICES ASSUME QuotaInv, [SpawnerNext]_spawnerVars PROVE QuotaInv'
  OBVIOUS
<1>1. SpawnerTypeOK' /\ SpawnerTypeOK /\ TypeOK
  BY SpawnerTypeStep DEF QuotaInv, SpawnerTypeOK
<1>2. ASSUME requests' = requests \/ requests' = << >> PROVE AdmittedFade
  BY <1>2 DEF AdmittedFade, Admitted, IsAdmin
<1>3. CASE UpgradingStep /\ UNCHANGED requests
  BY <1>1, <1>2, <1>3, UpgradingFades, QuotaTaskCreate, FadingKeeps
<1>4. CASE Restart /\ requests' = << >>
  <2>1. PodsFade
    BY <1>4 DEF Restart, PodsFade
  <2> QED
    BY <1>1, <1>2, <1>4, <2>1, FadingKeeps
<1>5. CASE SpawningStep /\ UNCHANGED upgradeVars
  <2>1. ASSUME UNCHANGED pods PROVE PodsFade
    BY <2>1 DEF PodsFade
  <2>2. ASSUME NEW r, requests' = Answered(r) PROVE AdmittedFade
    BY <2>2, AnsweredFacts DEF AdmittedFade, Admitted, IsAdmin
  <2>3. ASSUME NEW r \in Requests, NEW by \in Users, NEW owner \in Users, NEW w \in Ids,
               Spawn(r, by, owner, w)
        PROVE  QuotaInv'
    <3>1. AdmittedFade
      BY <2>3 DEF Spawn, With, AdmittedFade, Admitted, IsAdmin
    <3> QED
      BY <1>1, <2>1, <2>3, <3>1, FadingKeeps DEF Spawn
  <2>4. ASSUME NEW r \in Requests, NEW by \in Users, NEW w \in Ids, Stop(r, by, w) PROVE QuotaInv'
    <3>1. AdmittedFade
      BY <2>4 DEF Stop, With, AdmittedFade, Admitted, IsAdmin
    <3> QED
      BY <1>1, <2>1, <2>4, <3>1, FadingKeeps DEF Stop
  <2>5. ASSUME NEW r \in Requests, StopDeletes(r) PROVE QuotaInv'
    <3>1. PICK n \in requests[r].todo :
             /\ pods' = Deleted(n) /\ r \in DOMAIN requests
             /\ requests' \in {[requests EXCEPT ![r].todo = @ \ {n}], Answered(r)}
      BY <2>5 DEF StopDeletes, InRequest
    <3>2. CASE requests' = [requests EXCEPT ![r].todo = @ \ {n}]
      <4>1. AdmittedFade
        BY <1>1, <3>1, <3>2 DEF AdmittedFade, Admitted, IsAdmin, SpawnerTypeOK, Request
      <4> QED
        BY <1>1, <3>1, <4>1, MarkingFades, FadingKeeps
    <3>3. CASE requests' = Answered(r)
      BY <1>1, <2>2, <3>1, <3>3, MarkingFades, FadingKeeps
    <3> QED
      BY <3>1, <3>2, <3>3
  <2>6. ASSUME NEW r \in Requests, RequestFails(r) PROVE QuotaInv'
    BY <1>1, <2>1, <2>2, <2>6, FadingKeeps DEF RequestFails
  <2> QED
    BY <1>1, <1>5, <2>3, <2>4, <2>5, <2>6, QuotaSpawnCounts, QuotaSpawnCreates DEF SpawningStep
<1>6. CASE \E n \in Names : Completes(n)
  BY <1>1, <1>2, <1>6, MarkingFades, FadingKeeps DEF Completes
<1>7. CASE UNCHANGED spawnerVars
  <2>1. PodsFade
    BY <1>7 DEF PodsFade
  <2> QED
    BY <1>1, <1>2, <1>7, <2>1, FadingKeeps
<1> QED
  BY <1>3, <1>4, <1>5, <1>6, <1>7 DEF SpawnerNext

\* However many spawns of a user overlap, the workspaces spawned and the spawns admitted stay
\* below the limit plus the requests there can be at a time (handlers/index.ts:266-288).
THEOREM QuotaOvershootBoundedHolds == SpawnerSpec => []QuotaOvershootBounded
<1>1. QuotaInv => QuotaOvershootBounded
  BY DEF QuotaInv
<1> QED
  BY <1>1, QuotaInit, QuotaStep, PTL DEF SpawnerSpec

-----------------------------------------------------------------------------
(* What upgrades make of the contents of a pod *)

\* What the proofs rely on: what users get of the templates, and what they pass to
\* spawn_workspace, is well formed, and in a template no variable of the main container
\* and no volume is there twice.
SoundContents ==
    /\ "provisioned" # NotSet
    /\ \A source \in Sources, user \in Users : SoundTemplate(source, user)
    /\ \A call \in SpawnCalls : SoundCall(call)

\* The annotations inside the spec of a template do not switch hooks.
HooksOutsideSpecs ==
    \A source \in Sources, user \in Users :
        Resolved(source, user) # NotSet =>
            HookKeys \cap DOMAIN Resolved(source, user).spec.annotations = {}

\* An upgrade keeps owner, annotations, environment, volumes, mounts and service account of
\* the pod (upgrade.ts:46-242), whatever the templates were and have become and whatever the
\* user passed to spawn_workspace.
THEOREM UpgradesKeepContentsHolds ==
    ASSUME SoundContents
    PROVE  SpawnerSpec => []UpgradesKeepContents
<1>1. UpgradesKeepContents
  <2> SUFFICES ASSUME NEW before \in Sources, NEW after \in Sources, NEW call \in SpawnCalls,
                      NEW u \in Users, SpawnedPod(before, call, u) # NotSet,
                      UpgradedPod(after, SpawnedPod(before, call, u)) # NotSet
               PROVE  Keeps(UpgradedPod(after, SpawnedPod(before, call, u)),
                            SpawnedPod(before, call, u), after)
    BY DEF UpgradesKeepContents
  <2> DEFINE old == SpawnedPod(before, call, u)
  <2>1. Regular(old) /\ old.labels["owner"] = u
    BY SpawnedPodRegular DEF SoundContents
  <2>2. SoundTemplate(after, old.labels["owner"])
    BY <2>1 DEF SoundContents
  <2> HIDE DEF old
  <2>3. UpgradedPod(after, old) # NotSet
    BY DEF old
  <2> QED
    BY <2>1, <2>2, <2>3, UpgradedPodKeeps DEF old
<1> QED
  BY <1>1, PTL

\* While the template stays as it is, an upgraded pod can be upgraded again, which changes
\* nothing, and listings do not call it outdated (upgrade.ts:64-133, helpers.ts:19-48,
\* 234-251), unless the spec of the template carries annotations that switch hooks.
THEOREM UpgradesSettleHolds ==
    ASSUME SoundContents, HooksOutsideSpecs, NotSetIsNoSpec
    PROVE  SpawnerSpec => []UpgradesSettle
<1>1. UpgradesSettle
  <2> SUFFICES ASSUME NEW before \in Sources, NEW after \in Sources, NEW call \in SpawnCalls,
                      NEW u \in Users, SpawnedPod(before, call, u) # NotSet,
                      UpgradedPod(after, SpawnedPod(before, call, u)) # NotSet
               PROVE  LET new == UpgradedPod(after, SpawnedPod(before, call, u))
                          again == UpgradedPod(after, new)
                      IN  /\ again # NotSet
                          /\ Alike(new, again)
                          /\ Versioned(after, u) => ~Outdated(new, after)
    BY DEF UpgradesSettle
  <2> DEFINE old == SpawnedPod(before, call, u)
  <2>1. Regular(old) /\ old.labels["owner"] = u
    BY SpawnedPodRegular DEF SoundContents
  <2>2. SoundTemplate(after, old.labels["owner"])
    BY <2>1 DEF SoundContents
  <2> HIDE DEF old
  <2>3. UpgradedPod(after, old) # NotSet
    BY DEF old
  <2>4. HookKeys \cap DOMAIN Resolved(after, old.labels["owner"]).spec.annotations = {}
    BY <2>1, <2>3 DEF HooksOutsideSpecs, UpgradedPod
  <2>5. /\ UpgradedPod(after, UpgradedPod(after, old)) # NotSet
        /\ Alike(UpgradedPod(after, old), UpgradedPod(after, UpgradedPod(after, old)))
    BY <2>1, <2>2, <2>3, <2>4, UpgradedPodSettles
  <2>6. Versioned(after, u) => ~Outdated(UpgradedPod(after, old), after)
    BY <2>1, <2>2, <2>3, UpgradedPodUpToDate
  <2> QED
    BY <2>5, <2>6 DEF old
<1> QED
  BY <1>1, PTL

=============================================================================
