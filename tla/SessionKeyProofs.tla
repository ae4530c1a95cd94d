-------------------------- MODULE SessionKeyProofs --------------------------
(***************************************************************************)
(* Proofs about SessionKey, for any number of replicas, rounds of peer     *)
(* discovery, failed calls, restarts and deployments.                      *)
(***************************************************************************)
EXTENDS SessionKey, FiniteSetTheorems, TLAPS

-----------------------------------------------------------------------------
(* Type correctness. *)

\* What the types rest on: a process without a running pod is off, the Secret holds a
\* key only if some process generated it for the Secret, and lives are restarts.
Wellformed ==
    /\ \A r \in Replicas : pods[r].phase \in {"none", "Pending"} => procs[r].step = "off"
    /\ secret \in {<<"absent">>, <<"empty">>} \cup {SecretKeyOf(r, l) : r \in Replicas, l \in Lives}
    /\ \A r \in Replicas : procs[r].step = "reread" => secret # <<"absent">>
    /\ \A r \in Replicas : procs[r].life <= crashes

TypeInv == TypeOK /\ Wellformed

LEMMA IncidentsBounded ==
    ASSUME TypeOK, Incidents < MaxIncidents
    PROVE  faults + 1 \in 0..MaxIncidents /\ crashes + 1 \in 0..MaxIncidents
<1>1. Cardinality(Deletions) \in Nat
  BY SessionKeyAssumption, FS_Subset, FS_CardinalityType DEF Deletions
<1>2. faults \in Nat /\ crashes \in Nat /\ MaxIncidents \in Nat
  BY SessionKeyAssumption DEF TypeOK
<1> QED
  BY <1>1, <1>2 DEF Incidents

\* No two kinds of keys are the same.
LEMMA KeyKinds ==
    ASSUME NEW r, NEW l
    PROVE  /\ SecretKeyOf(r, l) \notin {NoKey, EnvKey, <<"absent">>, <<"empty">>}
           /\ MemoryKeyOf(r, l) \notin {NoKey, EnvKey, <<"absent">>, <<"empty">>}
           /\ EnvKey # NoKey
BY DEF SecretKeyOf, MemoryKeyOf, NoKey, EnvKey

\* A process changes to p, which is as the types want it.
Becomes(r, p) ==
    /\ procs' = [procs EXCEPT ![r] = p]
    /\ p \in Proc
    /\ p.key = NoKey <=> p.step # "serve"
    /\ p.step = "ask" <=> p.asking # {}
    /\ p.life = procs[r].life

LEMMA GotoBecomes ==
    ASSUME TypeInv, NEW r \in Replicas, procs[r].step \notin {"serve", "ask"},
           NEW step \in {"off", "read", "create", "reread", "list"}, Goto(r, step)
    PROVE  \E p : Becomes(r, p) /\ p.step = step
<1> DEFINE p == [procs[r] EXCEPT !.step = step]
<1>1. procs[r] \in Proc /\ procs[r].key = NoKey /\ procs[r].asking = {}
  BY DEF TypeInv, TypeOK
<1>2. p \in Proc /\ p.key = NoKey /\ p.asking = {} /\ p.step = step /\ p.life = procs[r].life
  BY <1>1 DEF Proc, Steps
<1>3. procs' = [procs EXCEPT ![r] = p]
  BY DEF Goto
<1> QED
  BY <1>2, <1>3 DEF Becomes

LEMMA ServeBecomes ==
    ASSUME TypeInv, NEW r \in Replicas, NEW key \in Keys \ {NoKey}, Serve(r, key)
    PROVE  \E p : Becomes(r, p) /\ p.step = "serve" /\ p.key = key
<1> DEFINE p == [procs[r] EXCEPT !.step = "serve", !.key = key, !.asking = {}]
<1>1. procs[r] \in Proc
  BY DEF TypeInv, TypeOK
<1>2. /\ p \in Proc /\ p.key = key /\ p.asking = {} /\ p.step = "serve"
      /\ p.life = procs[r].life
  BY <1>1 DEF Proc, Steps
<1>3. procs' = [procs EXCEPT ![r] = p]
  BY DEF Serve
<1> QED
  BY <1>2, <1>3 DEF Becomes

LEMMA NextAttemptBecomes ==
    ASSUME TypeInv, NEW r \in Replicas, procs[r].step # "serve", NextAttempt(r)
    PROVE  \E p : Becomes(r, p) /\ p.step \in {"list", "serve"}
<1>1. /\ procs[r] \in Proc /\ procs[r].key = NoKey /\ procs[r].life \in Lives
      /\ procs[r].attempt \in 1..MaxAttempts /\ MaxAttempts \in Nat
  BY SessionKeyAssumption DEF TypeInv, TypeOK, Proc
<1>2. CASE procs[r].attempt < MaxAttempts
  <2> DEFINE p == [procs[r] EXCEPT !.step = "list", !.asking = {}, !.attempt = @ + 1]
  <2>1. procs[r].attempt + 1 \in 1..MaxAttempts
    BY <1>1, <1>2
  <2>2. /\ p \in Proc /\ p.key = NoKey /\ p.asking = {} /\ p.step = "list"
        /\ p.life = procs[r].life
    BY <1>1, <2>1 DEF Proc, Steps
  <2>3. procs' = [procs EXCEPT ![r] = p]
    BY <1>2 DEF NextAttempt
  <2> QED
    BY <2>2, <2>3 DEF Becomes
<1>3. CASE ~(procs[r].attempt < MaxAttempts)
  <2> DEFINE key == MemoryKeyOf(r, procs[r].life)
             p == [procs[r] EXCEPT !.step = "serve", !.asking = {}, !.key = key, !.gaveUp = TRUE]
  <2>1. key \in Keys /\ key # NoKey
    BY <1>1, KeyKinds DEF Keys
  <2>2. /\ p \in Proc /\ p.key = key /\ p.asking = {} /\ p.step = "serve"
        /\ p.life = procs[r].life
    BY <1>1, <2>1 DEF Proc, Steps
  <2>3. procs' = [procs EXCEPT ![r] = p]
    BY <1>3 DEF NextAttempt
  <2> QED
    BY <2>1, <2>2, <2>3 DEF Becomes
<1> QED
  BY <1>2, <1>3

\* A step of resolveSessionSecret that leaves the pods alone and keeps the types.
LEMMA ResolutionStep ==
    ASSUME TypeInv, NEW r \in Replicas, pods[r].phase \in {"Running", "Terminating"},
           NEW p, Becomes(r, p), UNCHANGED <<setup, pods, crashes>>,
           faults' = faults \/ Fault,
           secret' = secret \/ secret' \in {SecretKeyOf(q, l) : q \in Replicas, l \in Lives},
           p.step = "reread" => secret # <<"absent">>
    PROVE  TypeInv'
<1>1. faults' \in 0..MaxIncidents
  BY IncidentsBounded DEF TypeInv, TypeOK, Fault
<1>2. /\ procs' \in [Replicas -> Proc]
      /\ \A q \in Replicas : procs'[q] = IF q = r THEN p ELSE procs[q]
  BY DEF Becomes, TypeInv, TypeOK
<1>3. secret' # secret => secret' \notin {<<"absent">>}
  BY KeyKinds
<1>4. \A q \in Replicas : procs'[q].step = "reread" => secret' # <<"absent">>
  BY <1>2, <1>3 DEF TypeInv, Wellformed
<1>5. secret' \in {<<"absent">>, <<"empty">>} \cup Keys
  BY DEF TypeInv, TypeOK, Keys
<1>6. TypeOK'
  BY <1>1, <1>2, <1>5 DEF Becomes, TypeInv, TypeOK
<1>7. Wellformed'
  BY <1>2, <1>4 DEF Becomes, TypeInv, Wellformed
<1> QED
  BY <1>6, <1>7 DEF TypeInv

LEMMA TypeInit == Init => TypeInv
<1> SUFFICES ASSUME Init PROVE TypeInv
  OBVIOUS
<1>1. MaxIncidents \in Nat /\ MaxAttempts \in Nat \ {0} /\ MaxBorn \in Nat
  BY SessionKeyAssumption
<1>2. 0 \in Lives /\ 0 \in 0..MaxBorn /\ 1 \in 1..MaxAttempts
  BY <1>1 DEF Lives
<1>3. Process("off", 0) \in Proc
  BY <1>2 DEF Process, Proc, Steps, Keys
<1>4. TypeOK
  BY <1>1, <1>2, <1>3 DEF Init, TypeOK, Process, Phases, Lives
<1> QED
  BY <1>4 DEF Init, TypeInv, Wellformed, Process

LEMMA FreshProcess ==
    ASSUME NEW step \in {"off", "read"}, NEW life \in Lives
    PROVE  Process(step, life) \in Proc
BY SessionKeyAssumption DEF Process, Proc, Steps, Keys

LEMMA PodSteps ==
    ASSUME TypeInv, NEW r \in Replicas,
           PodCreated(r) \/ PodStarts(r) \/ PodDeleted(r) \/ PodGone(r) \/ Crash(r)
    PROVE  TypeInv'
<1>1. CASE PodCreated(r)
  <2>1. PICK b \in 0..MaxBorn : pods' = [pods EXCEPT ![r] = [phase |-> "Pending", born |-> b]]
    BY <1>1 DEF PodCreated
  <2>2. procs[r].step = "off"
    BY <1>1 DEF PodCreated, TypeInv, Wellformed
  <2>3. TypeOK'
    BY <1>1, <2>1 DEF PodCreated, TypeInv, TypeOK, Phases
  <2> QED
    BY <1>1, <2>1, <2>2, <2>3 DEF PodCreated, TypeInv, Wellformed, TypeOK
<1>2. CASE PodStarts(r)
  <2>1. procs[r].step = "off" /\ Goto(r, "read")
    BY <1>2 DEF PodStarts, TypeInv, Wellformed
  <2>2. PICK p : Becomes(r, p) /\ p.step = "read"
    BY <2>1, GotoBecomes
  <2>3. /\ procs' \in [Replicas -> Proc]
        /\ \A q \in Replicas : procs'[q] = IF q = r THEN p ELSE procs[q]
    BY <2>2 DEF Becomes, TypeInv, TypeOK
  <2>4. TypeOK'
    BY <1>2, <2>2, <2>3 DEF PodStarts, Becomes, TypeInv, TypeOK, Phases
  <2> QED
    BY <1>2, <2>2, <2>3, <2>4 DEF PodStarts, Becomes, TypeInv, Wellformed, TypeOK
<1>3. CASE PodDeleted(r)
  <2>1. TypeOK'
    BY <1>3 DEF PodDeleted, TypeInv, TypeOK, Phases
  <2> QED
    BY <1>3, <2>1 DEF PodDeleted, TypeInv, Wellformed, TypeOK
<1>4. CASE PodGone(r)
  <2> DEFINE p == Process("off", procs[r].life)
  <2>1. p \in Proc /\ p.step = "off" /\ p.key = NoKey /\ p.asking = {} /\ p.life = procs[r].life
    BY FreshProcess DEF TypeInv, TypeOK, Proc, Process
  <2>2. procs' = [procs EXCEPT ![r] = p] /\ pods' = [pods EXCEPT ![r].phase = "gone"]
    BY <1>4 DEF PodGone
  <2> HIDE DEF p
  <2>3. TypeOK'
    BY <1>4, <2>1, <2>2 DEF PodGone, TypeInv, TypeOK, Phases
  <2> QED
    BY <1>4, <2>1, <2>2, <2>3 DEF PodGone, TypeInv, Wellformed, TypeOK
<1>5. CASE Crash(r)
  <2> DEFINE p == Process("read", procs[r].life + 1)
  <2>1. crashes' = crashes + 1 /\ crashes + 1 \in 0..MaxIncidents /\ crashes \in Nat
    BY <1>5, IncidentsBounded DEF Crash, TypeInv, TypeOK
  <2>2. procs[r].life \in Nat /\ procs[r].life <= crashes /\ MaxIncidents \in Nat
    BY SessionKeyAssumption DEF TypeInv, TypeOK, Wellformed, Proc, Lives
  <2>3. procs[r].life + 1 \in Lives
    BY <2>1, <2>2 DEF Lives
  <2>4. /\ p \in Proc /\ p.step = "read" /\ p.key = NoKey /\ p.asking = {}
        /\ p.life <= crashes + 1
    BY <2>1, <2>2, <2>3, FreshProcess DEF Process
  <2>5. procs' = [procs EXCEPT ![r] = p] /\ UNCHANGED <<setup, secret, pods, faults>>
    BY <1>5 DEF Crash
  <2> HIDE DEF p
  <2>6. TypeOK'
    BY <2>1, <2>4, <2>5 DEF TypeInv, TypeOK
  <2>7. \A q \in Replicas : procs'[q].life <= crashes'
    <3>1. \A q \in Replicas : procs[q].life \in Nat /\ procs[q].life <= crashes
      BY SessionKeyAssumption DEF TypeInv, TypeOK, Wellformed, Proc, Lives
    <3> QED
      BY <2>1, <2>4, <2>5, <3>1 DEF TypeInv, TypeOK
  <2>8. pods[r].phase = "Running"
    BY <1>5 DEF Crash
  <2> QED
    BY <2>4, <2>5, <2>6, <2>7, <2>8 DEF TypeInv, Wellformed, TypeOK
<1> QED
  BY <1>1, <1>2, <1>3, <1>4, <1>5

LEMMA ReadStep ==
    ASSUME TypeInv, NEW r \in Replicas, ReadSecret(r) \/ RereadSecret(r)
    PROVE  TypeInv'
<1>1. /\ pods[r].phase \in {"Running", "Terminating"} /\ procs[r].step \in {"read", "reread"}
      /\ UNCHANGED <<setup, secret, pods, crashes>> /\ (faults' = faults \/ Fault)
  BY DEF ReadSecret, RereadSecret, At
<1>2. CASE \E step \in {"list", "create"} : Goto(r, step)
  <2>1. PICK p : Becomes(r, p) /\ p.step \in {"list", "create"}
    BY <1>1, <1>2, GotoBecomes
  <2> QED
    BY <1>1, <2>1, ResolutionStep
<1>3. CASE \E key \in Keys \ {NoKey} : Serve(r, key)
  <2>1. PICK p : Becomes(r, p) /\ p.step = "serve"
    BY <1>3, ServeBecomes
  <2> QED
    BY <1>1, <2>1, ResolutionStep
<1>4. secret \notin {<<"absent">>, <<"empty">>} => secret \in Keys \ {NoKey}
  BY KeyKinds DEF TypeInv, Wellformed, Keys
<1>5. EnvKey \in Keys \ {NoKey}
  BY KeyKinds DEF Keys
<1>6. CASE ReadSecret(r)
  <2>1. \/ \E step \in {"list", "create"} : Goto(r, step)
        \/ Serve(r, EnvKey)
        \/ secret \notin {<<"absent">>, <<"empty">>} /\ Serve(r, secret)
    BY <1>6 DEF ReadSecret, TypeInv, TypeOK, Setup
  <2> QED
    BY <1>2, <1>3, <1>4, <1>5, <2>1
<1>7. CASE RereadSecret(r)
  <2>1. secret # <<"absent">>
    BY <1>7 DEF RereadSecret, At, TypeInv, Wellformed
  <2>2. Goto(r, "list") \/ (secret # <<"empty">> /\ Serve(r, secret))
    BY <1>7 DEF RereadSecret
  <2> QED
    BY <1>2, <1>3, <1>4, <2>1, <2>2
<1> QED
  BY <1>6, <1>7

LEMMA CreateStep ==
    ASSUME TypeInv, NEW r \in Replicas, CreateSecret(r)
    PROVE  TypeInv'
<1> DEFINE key == SecretKeyOf(r, procs[r].life)
<1>1. /\ pods[r].phase \in {"Running", "Terminating"} /\ procs[r].step = "create"
      /\ UNCHANGED <<setup, pods, crashes>> /\ (faults' = faults \/ Fault)
  BY DEF CreateSecret, At
<1>2. procs[r].life \in Lives /\ key \in Keys \ {NoKey}
  BY KeyKinds DEF TypeInv, TypeOK, Proc, Keys
<1>3. secret' = secret \/ secret' \in {SecretKeyOf(q, l) : q \in Replicas, l \in Lives}
  BY <1>2 DEF CreateSecret
<1>4. \/ Goto(r, "list") \/ Serve(r, key)
      \/ secret # <<"absent">> /\ Goto(r, "reread")
  BY DEF CreateSecret
<1> HIDE DEF key
<1>5. CASE Goto(r, "list")
  <2>1. PICK p : Becomes(r, p) /\ p.step = "list"
    BY <1>1, <1>5, GotoBecomes
  <2> QED
    BY <1>1, <1>3, <2>1, ResolutionStep
<1>6. CASE Serve(r, key)
  <2>1. PICK p : Becomes(r, p) /\ p.step = "serve"
    BY <1>2, <1>6, ServeBecomes
  <2> QED
    BY <1>1, <1>3, <2>1, ResolutionStep
<1>7. CASE secret # <<"absent">> /\ Goto(r, "reread")
  <2>1. PICK p : Becomes(r, p) /\ p.step = "reread"
    BY <1>1, <1>7, GotoBecomes
  <2> QED
    BY <1>1, <1>3, <1>7, <2>1, ResolutionStep
<1> QED
  BY <1>4, <1>5, <1>6, <1>7

LEMMA ListStep ==
    ASSUME TypeInv, NEW r \in Replicas, ListPeers(r)
    PROVE  TypeInv'
<1> DEFINE key == MemoryKeyOf(r, procs[r].life)
<1>1. /\ pods[r].phase \in {"Running", "Terminating"} /\ procs[r].step = "list"
      /\ UNCHANGED <<setup, secret, pods, crashes>> /\ (faults' = faults \/ Fault)
  BY DEF ListPeers, At
<1>2. procs[r] \in Proc /\ procs[r].key = NoKey /\ key \in Keys \ {NoKey}
  BY <1>1, KeyKinds DEF TypeInv, TypeOK, Proc, Keys
<1>3. \/ Serve(r, key) \/ NextAttempt(r)
      \/ /\ OlderRunning(r) # {}
         /\ procs' = [procs EXCEPT ![r].step = "ask", ![r].asking = OlderRunning(r)]
  BY DEF ListPeers
<1> HIDE DEF key
<1>4. CASE Serve(r, key)
  <2>1. PICK p : Becomes(r, p) /\ p.step = "serve"
    BY <1>2, <1>4, ServeBecomes
  <2> QED
    BY <1>1, <2>1, ResolutionStep
<1>5. CASE NextAttempt(r)
  <2>1. PICK p : Becomes(r, p) /\ p.step \in {"list", "serve"}
    BY <1>1, <1>5, NextAttemptBecomes
  <2> QED
    BY <1>1, <2>1, ResolutionStep
<1>6. CASE /\ OlderRunning(r) # {}
           /\ procs' = [procs EXCEPT ![r].step = "ask", ![r].asking = OlderRunning(r)]
  <2> DEFINE p == [procs[r] EXCEPT !.step = "ask", !.asking = OlderRunning(r)]
  <2>1. OlderRunning(r) \in SUBSET Replicas
    BY DEF OlderRunning, Active
  <2>2. p \in Proc /\ p.step = "ask" /\ p.key = NoKey /\ p.asking # {} /\ p.life = procs[r].life
    BY <1>2, <1>6, <2>1 DEF Proc, Steps
  <2>3. Becomes(r, p)
    BY <1>6, <2>2 DEF Becomes
  <2> HIDE DEF p
  <2> QED
    BY <1>1, <2>2, <2>3, ResolutionStep
<1> QED
  BY <1>3, <1>4, <1>5, <1>6

LEMMA AskStep ==
    ASSUME TypeInv, NEW r \in Replicas, AskPeer(r)
    PROVE  TypeInv'
<1>1. /\ pods[r].phase \in {"Running", "Terminating"} /\ procs[r].step = "ask"
      /\ UNCHANGED <<setup, secret, pods, crashes>> /\ (faults' = faults \/ Fault)
  BY DEF AskPeer, At
<1>2. procs[r] \in Proc /\ procs[r].key = NoKey /\ procs[r].asking \in SUBSET Replicas
  BY <1>1 DEF TypeInv, TypeOK, Proc
<1>3. PICK peer \in procs[r].asking :
         (Answers(peer) /\ Serve(r, procs[peer].key)) \/ NotAnswered(r, peer)
  BY DEF AskPeer
<1>4. CASE Answers(peer) /\ Serve(r, procs[peer].key)
  <2>1. peer \in Replicas /\ procs[peer].step = "serve"
    BY <1>2, <1>4 DEF Answers, Serving, At
  <2>2. procs[peer].key \in Keys \ {NoKey}
    BY <2>1 DEF TypeInv, TypeOK, Proc
  <2>3. PICK p : Becomes(r, p) /\ p.step = "serve"
    BY <1>4, <2>2, ServeBecomes
  <2> QED
    BY <1>1, <2>3, ResolutionStep
<1>5. CASE procs[r].asking = {peer} /\ NextAttempt(r)
  <2>1. PICK p : Becomes(r, p) /\ p.step \in {"list", "serve"}
    BY <1>1, <1>5, NextAttemptBecomes
  <2> QED
    BY <1>1, <2>1, ResolutionStep
<1>6. CASE /\ procs[r].asking # {peer}
           /\ procs' = [procs EXCEPT ![r].asking = @ \ {peer}]
  <2> DEFINE p == [procs[r] EXCEPT !.asking = @ \ {peer}]
  <2>1. procs[r].asking \ {peer} \in SUBSET Replicas /\ procs[r].asking \ {peer} # {}
    BY <1>2, <1>3, <1>6
  <2>2. p \in Proc /\ p.step = "ask" /\ p.key = NoKey /\ p.asking # {} /\ p.life = procs[r].life
    BY <1>1, <1>2, <2>1 DEF Proc
  <2>3. Becomes(r, p)
    BY <1>6, <2>2 DEF Becomes
  <2> HIDE DEF p
  <2> QED
    BY <1>1, <2>2, <2>3, ResolutionStep
<1> QED
  BY <1>3, <1>4, <1>5, <1>6 DEF NotAnswered

LEMMA TypeStep == TypeInv /\ [Next]_vars => TypeInv'
<1> SUFFICES ASSUME TypeInv, [Next]_vars PROVE TypeInv'
  OBVIOUS
<1>1. CASE UNCHANGED vars
  BY <1>1 DEF vars, TypeInv, TypeOK, Wellformed
<1>2. ASSUME NEW r \in Replicas, Resolve(r) PROVE TypeInv'
  BY <1>2, ReadStep, CreateStep, ListStep, AskStep DEF Resolve
<1> QED
  BY <1>1, <1>2, PodSteps DEF Next

\* Every replica's process, the Secret and the counters are well-formed, a process has a
\* key exactly when it serves, and asks exactly while it has somebody to ask.
THEOREM TypeCorrect == Spec => []TypeOK
<1>1. TypeInv => TypeOK
  BY DEF TypeInv
<1> QED
  BY <1>1, TypeInit, TypeStep, PTL DEF Spec

-----------------------------------------------------------------------------
(* Agreement on the key. *)

\* Processes only leave the path that leads to the one key when a call fails or the
\* Secret cannot be used; whoever serves got its key from the variable, or from the
\* Secret, which is there by then and keeps its key.
OnlyKey ==
    /\ setup.env =>
          \A r \in Replicas :
             /\ procs[r].step \in {"off", "read", "serve"}
             /\ procs[r].step = "serve" => procs[r].key = EnvKey
    /\ Dependable /\ ~setup.env =>
          \A r \in Replicas :
             /\ procs[r].step \notin {"list", "ask"}
             /\ procs[r].step = "serve" => secret # <<"absent">> /\ procs[r].key = secret

AgreementInv == TypeInv /\ OnlyKey

\* A replica makes a step that keeps OnlyKey for itself, and nobody else is affected.
LEMMA OnlyKeyKept ==
    ASSUME AgreementInv, NEW r \in Replicas,
           UNCHANGED setup, faults' \in Nat, faults <= faults',
           secret' = secret \/ (secret = <<"absent">> /\ secret' # <<"absent">>),
           \A q \in Replicas \ {r} : procs'[q] = procs[q],
           setup.env =>
               /\ procs'[r].step \in {"off", "read", "serve"}
               /\ procs'[r].step = "serve" => procs'[r].key = EnvKey,
           Dependable' /\ ~setup.env =>
               /\ procs'[r].step \notin {"list", "ask"}
               /\ procs'[r].step = "serve" => secret' # <<"absent">> /\ procs'[r].key = secret'
    PROVE  OnlyKey'
<1>1. faults \in Nat
  BY DEF AgreementInv, TypeInv, TypeOK
<1>2. Dependable' /\ ~setup.env => Dependable
  BY <1>1 DEF Dependable
<1>3. CASE setup.env
  BY <1>3 DEF AgreementInv, OnlyKey
<1>4. CASE ~setup.env
  BY <1>2, <1>4 DEF AgreementInv, OnlyKey
<1> QED
  BY <1>3, <1>4

\* What a step writes to the process of r.
LEMMA ProcWritten ==
    ASSUME TypeInv, NEW r \in Replicas
    PROVE  /\ \A step : Goto(r, step) =>
                 /\ procs'[r].step = step
                 /\ \A q \in Replicas \ {r} : procs'[q] = procs[q]
           /\ \A key : Serve(r, key) =>
                 /\ procs'[r].step = "serve" /\ procs'[r].key = key
                 /\ \A q \in Replicas \ {r} : procs'[q] = procs[q]
           /\ \A step, life : procs' = [procs EXCEPT ![r] = Process(step, life)] =>
                 /\ procs'[r].step = step
                 /\ \A q \in Replicas \ {r} : procs'[q] = procs[q]
<1>1. DOMAIN procs = Replicas /\ procs[r] \in Proc
  BY DEF TypeInv, TypeOK
<1>2. ASSUME NEW step, Goto(r, step)
      PROVE  procs'[r].step = step /\ \A q \in Replicas \ {r} : procs'[q] = procs[q]
  BY <1>1, <1>2 DEF Goto, Proc
<1>3. ASSUME NEW key, Serve(r, key)
      PROVE  /\ procs'[r].step = "serve" /\ procs'[r].key = key
             /\ \A q \in Replicas \ {r} : procs'[q] = procs[q]
  BY <1>1, <1>3 DEF Serve, Proc
<1>4. ASSUME NEW step, NEW life, procs' = [procs EXCEPT ![r] = Process(step, life)]
      PROVE  procs'[r].step = step /\ \A q \in Replicas \ {r} : procs'[q] = procs[q]
  BY <1>1, <1>4 DEF Process
<1> QED
  BY <1>2, <1>3, <1>4

LEMMA FaultCounts ==
    ASSUME TypeInv, Fault, ~setup.env, UNCHANGED setup
    PROVE  ~Dependable'
<1>1. faults \in Nat
  BY DEF TypeInv, TypeOK
<1> QED
  BY <1>1 DEF Fault, Dependable

LEMMA PodAgreement ==
    ASSUME AgreementInv, NEW r \in Replicas,
           PodCreated(r) \/ PodStarts(r) \/ PodDeleted(r) \/ PodGone(r) \/ Crash(r)
    PROVE  OnlyKey'
<1>1. /\ UNCHANGED <<setup, secret, faults>> /\ faults' \in Nat /\ faults <= faults'
      /\ \/ UNCHANGED procs
         \/ Goto(r, "read")
         \/ \E step \in {"off", "read"} : \E life : procs' = [procs EXCEPT ![r] = Process(step, life)]
  BY DEF PodCreated, PodStarts, PodDeleted, PodGone, Crash, AgreementInv, TypeInv, TypeOK
<1>2. CASE UNCHANGED procs
  BY <1>1, <1>2 DEF AgreementInv, OnlyKey, Dependable
<1>3. CASE ~UNCHANGED procs
  <2>1. /\ procs'[r].step \in {"off", "read"}
        /\ \A q \in Replicas \ {r} : procs'[q] = procs[q]
    BY <1>1, <1>3, ProcWritten DEF AgreementInv
  <2> QED
    BY <1>1, <2>1, OnlyKeyKept
<1> QED
  BY <1>2, <1>3

LEMMA ReadAgreement ==
    ASSUME AgreementInv, NEW r \in Replicas, ReadSecret(r) \/ RereadSecret(r)
    PROVE  OnlyKey'
<1>1. /\ TypeInv /\ UNCHANGED <<setup, secret>> /\ faults' \in Nat /\ faults <= faults'
  BY DEF AgreementInv, TypeInv, TypeOK, ReadSecret, RereadSecret, Fault
<1>2. /\ procs[r].step \in {"read", "reread"}
      /\ procs[r].step = "reread" => ~setup.env /\ secret # <<"absent">>
  BY DEF AgreementInv, OnlyKey, TypeInv, Wellformed, ReadSecret, RereadSecret, At
<1>3. CASE setup.env
  <2>1. Serve(r, EnvKey)
    BY <1>2, <1>3 DEF ReadSecret, RereadSecret, At
  <2> QED
    BY <1>1, <1>3, <2>1, ProcWritten, OnlyKeyKept
<1>4. CASE ~setup.env /\ Fault
  <2>1. \A q \in Replicas \ {r} : procs'[q] = procs[q]
    BY <1>1, ProcWritten DEF ReadSecret, RereadSecret
  <2> QED
    BY <1>1, <1>4, <2>1, FaultCounts, OnlyKeyKept
<1>5. CASE ~setup.env /\ ~Fault
  <2>1. \/ Goto(r, "list") /\ ~Dependable'
        \/ Goto(r, "create")
        \/ secret # <<"absent">> /\ Serve(r, secret)
    <3>1. CASE ReadSecret(r)
      <4>1. CASE setup.secrets = "none" \/ secret = <<"empty">>
        BY <1>1, <1>5, <3>1, <4>1 DEF ReadSecret, Dependable
      <4>2. CASE setup.secrets # "none" /\ secret = <<"absent">>
        BY <1>1, <1>5, <3>1, <4>2 DEF ReadSecret, Dependable
      <4>3. CASE setup.secrets # "none" /\ secret \notin {<<"absent">>, <<"empty">>}
        BY <1>5, <3>1, <4>3 DEF ReadSecret
      <4> QED
        BY <4>1, <4>2, <4>3
    <3>2. CASE RereadSecret(r)
      BY <1>1, <1>2, <1>5, <3>2 DEF RereadSecret, At, Dependable
    <3> QED
      BY <3>1, <3>2
  <2> QED
    BY <1>1, <1>5, <2>1, ProcWritten, OnlyKeyKept
<1> QED
  BY <1>3, <1>4, <1>5

LEMMA CreateAgreement ==
    ASSUME AgreementInv, NEW r \in Replicas, CreateSecret(r)
    PROVE  OnlyKey'
<1> DEFINE key == SecretKeyOf(r, procs[r].life)
<1>1. /\ TypeInv /\ UNCHANGED setup /\ faults' \in Nat /\ faults <= faults'
      /\ ~setup.env /\ procs[r].step = "create"
  BY DEF AgreementInv, OnlyKey, TypeInv, TypeOK, CreateSecret, Fault, At
<1>2. secret' = secret \/ (secret = <<"absent">> /\ secret' # <<"absent">>)
  BY KeyKinds DEF CreateSecret
<1>3. \A q \in Replicas \ {r} : procs'[q] = procs[q]
  BY <1>1, ProcWritten DEF CreateSecret
<1>4. CASE Fault
  BY <1>1, <1>2, <1>3, <1>4, FaultCounts, OnlyKeyKept
<1>5. CASE ~Fault
  <2>1. \/ secret' = key /\ Serve(r, key)
        \/ Goto(r, "reread")
        \/ Goto(r, "list") /\ ~Dependable'
    BY <1>1, <1>5 DEF CreateSecret, Dependable
  <2>2. key # <<"absent">>
    BY KeyKinds
  <2> HIDE DEF key
  <2> QED
    BY <1>1, <1>2, <1>3, <2>1, <2>2, ProcWritten, OnlyKeyKept
<1> QED
  BY <1>4, <1>5

LEMMA PeerAgreement ==
    ASSUME AgreementInv, NEW r \in Replicas, ListPeers(r) \/ AskPeer(r)
    PROVE  OnlyKey'
<1>1. /\ TypeInv /\ UNCHANGED <<setup, secret>> /\ faults' \in Nat /\ faults <= faults'
      /\ procs[r].step \in {"list", "ask"} /\ ~setup.env
  BY DEF AgreementInv, OnlyKey, TypeInv, TypeOK, ListPeers, AskPeer, Fault, At
<1>2. ~Dependable
  BY <1>1 DEF AgreementInv, OnlyKey
<1>3. ~Dependable'
  BY <1>1, <1>2 DEF TypeInv, TypeOK, Dependable
<1> QED
  BY <1>1, <1>3 DEF OnlyKey

LEMMA AgreementInit == Init => AgreementInv
BY TypeInit DEF Init, AgreementInv, OnlyKey, Process

LEMMA AgreementStep == AgreementInv /\ [Next]_vars => AgreementInv'
<1> SUFFICES ASSUME AgreementInv, [Next]_vars PROVE OnlyKey'
  BY TypeStep DEF AgreementInv
<1>1. CASE UNCHANGED vars
  BY <1>1 DEF vars, AgreementInv, OnlyKey, Dependable
<1>2. ASSUME NEW r \in Replicas, Resolve(r) PROVE OnlyKey'
  BY <1>2, ReadAgreement, CreateAgreement, PeerAgreement DEF Resolve
<1> QED
  BY <1>1, <1>2, PodAgreement DEF Next

\* All replicas that serve have the one signing key, in any order of starts, reads,
\* creations that win or lose the race for the Secret, restarts and deletions: with the
\* variable set always, else as long as the Secret can be used and no call has failed.
THEOREM KeyAgreementHolds == Spec => []KeyAgreement
<1>1. AgreementInv => KeyAgreement
  <2> SUFFICES ASSUME AgreementInv, Dependable, NEW r \in Replicas, Serving(r)
               PROVE  procs[r].key = IF setup.env THEN EnvKey ELSE secret
    BY DEF KeyAgreement
  <2>1. procs[r].step = "serve"
    BY DEF Serving, At
  <2> QED
    BY <2>1 DEF AgreementInv, OnlyKey
<1> QED
  BY <1>1, AgreementInit, AgreementStep, PTL DEF Spec

-----------------------------------------------------------------------------
(* The bound on disagreement. *)

OwnKey(r) == MemoryKeyOf(r, procs[r].life)

\* The keys of lives that a restart has ended; there are as many lives as restarts.
PastKeys == {k \in Keys : \E q \in Replicas, l \in Lives : l < procs[q].life /\ k = MemoryKeyOf(q, l)}

GaveUp == {r \in Replicas : procs[r].gaveUp}
Twins == {r \in Created : \E q \in Created \ {r} : pods[q].born = pods[r].born}

\* Where the Secret can be used only a failed call leads away from it.
SecretUsable ==
    ~setup.env /\ setup.secrets = "write" /\ setup.statuses /\ secret # <<"empty">>

SecretWritten ==
    /\ secret \notin {<<"absent">>, <<"empty">>} => setup.secrets = "write" /\ setup.statuses
    /\ \A r \in Replicas : procs[r].step = "create" => setup.statuses

\* A key in use is the variable's, the Secret's, or one that a replica has made for itself: in
\* an earlier life, or in this one, and then it has the key still or its pod is gone.
Origin(key) ==
    \/ setup.env /\ key = EnvKey
    \/ ~setup.env /\ key = secret
    \/ key \in PastKeys
    \/ \E q \in Replicas : key = OwnKey(q) /\ (procs[q].key = key \/ pods[q].phase = "gone")

Origins == \A r \in Replicas : procs[r].step = "serve" => Origin(procs[r].key)

\* The leader is before all who could make a key after it.
Leads(r) == \A q \in Active \ {r} : Before(r, q)

\* F are the replicas that a failed call had an effect on.  Any other that has made its own
\* key and lives has given up, was created in the same second as another one, or leads.
Charged(F) ==
    /\ Cardinality(F) <= faults
    /\ SecretUsable => \A r \in Replicas : procs[r].step \in {"list", "ask"} => r \in F
    /\ \A r \in Replicas : procs[r].key = OwnKey(r) =>
          \/ r \in F \cup Deletions \cup GaveUp \cup Twins
          \/ ~SecretUsable /\ Leads(r)

PastCounted == IsFiniteSet(PastKeys) /\ Cardinality(PastKeys) <= crashes

DisagreementInv ==
    /\ AgreementInv /\ SecretWritten /\ Origins /\ PastCounted
    /\ \E F \in SUBSET Replicas : Charged(F)

LEMMA OwnKeys ==
    ASSUME NEW r, NEW l
    PROVE  /\ \A q, m : MemoryKeyOf(r, l) = MemoryKeyOf(q, m) => r = q /\ l = m
           /\ \A q, m : MemoryKeyOf(r, l) # SecretKeyOf(q, m)
           /\ MemoryKeyOf(r, l) \notin {NoKey, EnvKey, <<"absent">>, <<"empty">>}
BY DEF SecretKeyOf, MemoryKeyOf, NoKey, EnvKey

\* A replica that has no key makes a step of the resolution.  If that gives it a key, then the
\* variable's, the Secret's, that of a peer, or its own one because a call failed, because it
\* gave up, or because it leads.
Resolves(r) ==
    /\ procs[r].key = NoKey /\ pods[r].phase # "gone"
    /\ UNCHANGED <<setup, pods, crashes>>
    /\ \A q \in Replicas \ {r} : procs'[q] = procs[q]
    /\ procs'[r].life = procs[r].life
    /\ faults' \in {faults, faults + 1}
    /\ \/ secret' = secret
       \/ /\ setup.secrets = "write" /\ setup.statuses
          /\ secret = <<"absent">> /\ secret' # <<"empty">>
    /\ procs'[r].step = "create" => setup.statuses
    /\ procs'[r].step \in {"list", "ask"} =>
          ~SecretUsable \/ faults' = faults + 1 \/ procs[r].step \in {"list", "ask"}
    /\ procs'[r].step = "serve" =>
          \/ setup.env /\ procs'[r].key = EnvKey
          \/ ~setup.env /\ procs'[r].key = secret'
          \/ \E peer \in Replicas \ {r} : procs[peer].step = "serve" /\ procs'[r].key = procs[peer].key
          \/ /\ procs'[r].key = OwnKey(r)
             /\ \/ faults' = faults + 1
                \/ procs'[r].gaveUp
                \/ procs[r].step = "list" /\ Leads(r)

LEMMA ResolvesKeeps ==
    ASSUME DisagreementInv, AgreementInv', NEW r \in Replicas, Resolves(r)
    PROVE  DisagreementInv'
<1>0. /\ TypeInv /\ TypeInv' /\ faults \in Nat
  BY DEF DisagreementInv, AgreementInv, TypeInv, TypeOK
<1>1. PICK F \in SUBSET Replicas : Charged(F)
  BY DEF DisagreementInv
<1>2. /\ secret \in {<<"absent">>, <<"empty">>} \cup {SecretKeyOf(q, l) : q \in Replicas, l \in Lives}
      /\ secret' \in {<<"absent">>, <<"empty">>} \cup {SecretKeyOf(q, l) : q \in Replicas, l \in Lives}
  BY <1>0 DEF TypeInv, Wellformed
<1>3. \A q \in Replicas : OwnKey(q)' = OwnKey(q)
  BY DEF Resolves, OwnKey
<1>4. PastKeys' = PastKeys
  BY DEF Resolves, PastKeys
<1>5. SecretWritten'
  BY DEF DisagreementInv, SecretWritten, Resolves
<1>6. PastCounted'
  BY <1>4 DEF DisagreementInv, PastCounted, Resolves
<1>7. \A q \in Replicas : procs[q].step = "serve" =>
         Origin(procs[q].key) /\ procs[q].key \notin {NoKey, <<"absent">>, OwnKey(r)}
  <2> SUFFICES ASSUME NEW q \in Replicas, procs[q].step = "serve"
               PROVE  Origin(procs[q].key) /\ procs[q].key \notin {NoKey, <<"absent">>, OwnKey(r)}
    OBVIOUS
  <2>1. Origin(procs[q].key) /\ procs[q].key # NoKey /\ procs[q].key \in Keys
    BY <1>0 DEF DisagreementInv, Origins, TypeInv, TypeOK, Proc
  <2>2. procs[q].key # <<"absent">>
    BY <2>1, KeyKinds DEF Keys, NoKey, EnvKey
  <2>3. procs[q].key # OwnKey(r)
    <3>1. OwnKey(r) \notin {EnvKey, secret, NoKey}
      BY <1>2, OwnKeys DEF OwnKey
    <3>2. OwnKey(r) \notin PastKeys
      <4>1. \A l \in Lives : l < procs[r].life => l # procs[r].life
        BY DEF Lives
      <4> QED
        BY <4>1, OwnKeys DEF PastKeys, OwnKey
    <3>3. \A p \in Replicas : OwnKey(r) = OwnKey(p) => p = r
      BY OwnKeys DEF OwnKey
    <3> QED
      BY <2>1, <3>1, <3>2, <3>3 DEF Origin, Resolves
  <2> QED
    BY <2>1, <2>2, <2>3
<1>8. \A key : Origin(key) /\ key \notin {<<"absent">>, OwnKey(r)} => Origin(key)'
  BY <1>2, <1>3, <1>4, KeyKinds DEF Origin, Resolves
<1>9. Origins'
  <2> SUFFICES ASSUME NEW q \in Replicas, procs'[q].step = "serve",
                      NEW key, key = procs'[q].key
               PROVE  Origin(key)'
    BY DEF Origins
  <2>1. CASE q # r \/ \E peer \in Replicas \ {r} :
                         procs[peer].step = "serve" /\ procs'[r].key = procs[peer].key
    BY <1>7, <1>8, <2>1 DEF Resolves
  <2>2. CASE q = r /\ key = OwnKey(r)
    BY <1>3, <2>2 DEF Origin
  <2>3. CASE q = r /\ ((setup.env /\ key = EnvKey) \/ (~setup.env /\ key = secret'))
    BY <2>3 DEF Origin, Resolves
  <2> QED
    BY <2>1, <2>2, <2>3 DEF Resolves
<1>10. \E G \in SUBSET Replicas : Charged(G)'
  <2>1. /\ IsFiniteSet(F) /\ Cardinality(F) \in Nat /\ Cardinality(F) <= faults
        /\ IsFiniteSet(F \cup {r}) /\ Cardinality(F \cup {r}) <= Cardinality(F) + 1
    <3>1. IsFiniteSet(F) /\ Cardinality(F) \in Nat
      BY SessionKeyAssumption, FS_Subset, FS_CardinalityType
    <3>2. /\ IsFiniteSet(F \cup {r})
          /\ Cardinality(F \cup {r}) = Cardinality(F) \/ Cardinality(F \cup {r}) = Cardinality(F) + 1
      BY <3>1, FS_AddElement
    <3> QED
      BY <1>1, <3>1, <3>2 DEF Charged
  <2>2. Cardinality(F \cup {r}) \in Nat
    BY <2>1, FS_CardinalityType
  <2>3. PICK G \in SUBSET Replicas :
           /\ Cardinality(G) <= faults'
           /\ F \subseteq G /\ (faults' = faults + 1 => r \in G)
    <3>1. CASE faults' = faults
      BY <1>0, <2>1, <3>1
    <3>2. CASE faults' = faults + 1
      BY <1>0, <2>1, <2>2, <3>2
    <3> QED
      BY <3>1, <3>2 DEF Resolves
  <2>4. SecretUsable' = SecretUsable
    BY <1>2, KeyKinds DEF SecretUsable, Resolves
  <2>5. SecretUsable => \A q \in Replicas : procs'[q].step \in {"list", "ask"} => q \in G
    BY <1>1, <2>3 DEF Charged, Resolves
  <2>6. Deletions' = Deletions /\ Twins' = Twins /\ Created' = Created /\ Active' = Active
    BY DEF Resolves, Deletions, Twins, Created, Active
  <2>7. \A q \in Replicas : Leads(q)' = Leads(q)
    BY <2>6 DEF Leads, Before, Resolves
  <2>8. ASSUME NEW q \in Replicas \ {r}, procs'[q].key = OwnKey(q)
        PROVE  q \in G \cup Deletions \cup GaveUp' \cup Twins \/ (~SecretUsable /\ Leads(q))
    BY <1>1, <2>3, <2>8 DEF Charged, Resolves, GaveUp
  <2>9. ASSUME procs'[r].key = OwnKey(r)
        PROVE  r \in G \cup GaveUp' \/ (~SecretUsable /\ Leads(r))
    <3>1. procs'[r].step = "serve"
      BY <1>0, <2>9, OwnKeys DEF OwnKey, TypeInv, TypeOK
    <3>2. procs'[r].key \notin {EnvKey, secret'}
      BY <1>2, <2>9, OwnKeys DEF OwnKey
    <3>3. faults' = faults + 1 \/ procs'[r].gaveUp \/ (procs[r].step = "list" /\ Leads(r))
      BY <1>7, <2>9, <3>1, <3>2 DEF Resolves
    <3> QED
      BY <1>1, <2>3, <3>3 DEF Charged, GaveUp
  <2>10. \A q \in Replicas : procs'[q].key = OwnKey(q)' =>
            q \in G \cup Deletions' \cup GaveUp' \cup Twins' \/ (~SecretUsable' /\ Leads(q)')
    BY <1>3, <2>4, <2>6, <2>7, <2>8, <2>9
  <2>11. Charged(G)'
    BY <2>3, <2>4, <2>5, <2>10 DEF Charged
  <2> QED
    BY <2>3, <2>11
<1> QED
  BY <1>5, <1>6, <1>9, <1>10 DEF DisagreementInv

\* A step of a pod, by which its process may lose its key.
LEMMA PodsKeep ==
    ASSUME DisagreementInv, AgreementInv', NEW r \in Replicas,
           UNCHANGED <<setup, secret, faults>>,
           \A q \in Replicas \ {r} : procs'[q] = procs[q],
           \/ procs'[r] = procs[r]
           \/ procs'[r].key = NoKey /\ procs'[r].step \in {"off", "read"},
           Deletions \subseteq Deletions', Twins \subseteq Twins',
           \A q \in Replicas : procs[q].step = "serve" /\ Leads(q) => Leads(q)' \/ q \in Twins',
           \A key : Origin(key) => Origin(key)',
           PastCounted'
    PROVE  DisagreementInv'
<1>0. TypeInv /\ TypeInv'
  BY DEF DisagreementInv, AgreementInv
<1>1. PICK F \in SUBSET Replicas : Charged(F)
  BY DEF DisagreementInv
<1>2. SecretWritten' /\ SecretUsable' = SecretUsable
  BY DEF DisagreementInv, SecretWritten, SecretUsable
<1>3. Origins'
  <2> SUFFICES ASSUME NEW q \in Replicas, procs'[q].step = "serve",
                      NEW key, key = procs'[q].key
               PROVE  Origin(key)'
    BY DEF Origins
  <2>1. procs'[q] = procs[q]
    OBVIOUS
  <2> QED
    BY <2>1 DEF DisagreementInv, Origins
<1>4. Charged(F)'
  <2>1. SecretUsable => \A q \in Replicas : procs'[q].step \in {"list", "ask"} => q \in F
    BY <1>1 DEF Charged
  <2>2. \A q \in Replicas : procs'[q].key = OwnKey(q)' =>
           q \in F \cup Deletions' \cup GaveUp' \cup Twins' \/ (~SecretUsable' /\ Leads(q)')
    <3> SUFFICES ASSUME NEW q \in Replicas, procs'[q].key = OwnKey(q)'
                 PROVE  q \in F \cup Deletions' \cup GaveUp' \cup Twins' \/ (~SecretUsable' /\ Leads(q)')
      OBVIOUS
    <3>1. procs'[q].key # NoKey
      BY OwnKeys DEF OwnKey
    <3>2. procs'[q] = procs[q] /\ procs[q].step = "serve"
      BY <1>0, <3>1 DEF TypeInv, TypeOK
    <3>3. procs[q].key = OwnKey(q)
      BY <3>2 DEF OwnKey
    <3>4. q \in GaveUp => q \in GaveUp'
      BY <3>2 DEF GaveUp
    <3> QED
      BY <1>1, <1>2, <3>2, <3>3, <3>4 DEF Charged
  <2> QED
    BY <1>1, <1>2, <2>1, <2>2 DEF Charged
<1> QED
  BY <1>2, <1>3, <1>4 DEF DisagreementInv

LEMMA PodKeeps ==
    ASSUME DisagreementInv, AgreementInv', NEW r \in Replicas,
           PodCreated(r) \/ PodStarts(r) \/ PodDeleted(r) \/ PodGone(r) \/ Crash(r)
    PROVE  DisagreementInv'
<1>0. /\ TypeInv /\ PastCounted
      /\ DOMAIN procs = Replicas /\ DOMAIN pods = Replicas
      /\ \A q \in Replicas : procs[q] \in Proc /\ pods[q] \in [phase : Phases, born : 0..MaxBorn]
  BY DEF DisagreementInv, AgreementInv, TypeInv, TypeOK
<1>1. CASE PodCreated(r)
  <2>1. PICK b \in 0..MaxBorn :
           /\ \A q \in Created : b >= pods[q].born
           /\ pods' = [pods EXCEPT ![r] = [phase |-> "Pending", born |-> b]]
    BY <1>1 DEF PodCreated
  <2>2. /\ pods'[r].phase = "Pending" /\ pods'[r].born = b /\ pods[r].phase = "none"
        /\ \A q \in Replicas \ {r} : pods'[q] = pods[q]
        /\ UNCHANGED <<setup, secret, procs, faults, crashes>>
    BY <1>0, <1>1, <2>1 DEF PodCreated
  <2>3. Deletions' = Deletions /\ Created' = Created \cup {r} /\ Active' = Active \cup {r}
    BY <2>2 DEF Deletions, Created, Active
  <2>4. r \notin Created /\ Twins \subseteq Twins'
    BY <2>2, <2>3 DEF Twins, Created
  <2>5. ASSUME NEW q \in Replicas, procs[q].step = "serve", Leads(q)
        PROVE  Leads(q)' \/ q \in Twins'
    <3>1. q \in Created /\ q # r
      BY <1>0, <2>2, <2>5 DEF TypeInv, Wellformed, Created
    <3>2. CASE pods[q].born = b
      BY <2>2, <2>3, <2>4, <3>1, <3>2 DEF Twins
    <3>3. CASE pods[q].born # b
      <4>1. pods[q].born < b
        BY <1>0, <2>1, <3>1, <3>3
      <4> QED
        BY <2>2, <2>3, <2>5, <3>1, <4>1 DEF Leads, Before, Active
    <3> QED
      BY <3>2, <3>3
  <2>6. PastCounted' /\ \A key : Origin(key) => Origin(key)'
    BY <1>0, <2>2 DEF PastCounted, PastKeys, Origin, OwnKey
  <2> QED
    BY <2>2, <2>3, <2>4, <2>5, <2>6, PodsKeep
<1>2. CASE PodStarts(r) \/ PodDeleted(r)
  <2>1. /\ UNCHANGED <<setup, secret, faults, crashes>>
        /\ \A q \in Replicas \ {r} : procs'[q] = procs[q]
        /\ procs'[r].life = procs[r].life /\ procs'[r].key = procs[r].key
        /\ procs'[r] = procs[r] \/ (procs'[r].key = NoKey /\ procs'[r].step = "read")
    BY <1>0, <1>2 DEF PodStarts, PodDeleted, Goto, Proc, TypeInv, TypeOK, Wellformed
  <2>2. /\ \A q \in Replicas : pods'[q].born = pods[q].born
        /\ \A q \in Replicas \ {r} : pods'[q].phase = pods[q].phase
        /\ pods[r].phase \in {"Pending", "Running"}
        /\ pods'[r].phase \in {"Running", "Terminating", "gone"}
    BY <1>0, <1>2 DEF PodStarts, PodDeleted
  <2>3. Deletions \subseteq Deletions' /\ Created' = Created /\ Active' \subseteq Active
    BY <2>2 DEF Deletions, Created, Active
  <2>4. Twins' = Twins
    BY <2>2, <2>3 DEF Twins, Created
  <2>5. \A q \in Replicas : Leads(q) => Leads(q)'
    BY <2>2, <2>3 DEF Leads, Before, Active
  <2>6. \A q \in Replicas : procs'[q].life = procs[q].life /\ procs'[q].key = procs[q].key
    BY <2>1
  <2>7. PastKeys' = PastKeys /\ \A q \in Replicas : OwnKey(q)' = OwnKey(q)
    BY <2>6 DEF PastKeys, OwnKey
  <2>8. PastCounted' /\ \A key : Origin(key) => Origin(key)'
    BY <1>0, <2>1, <2>2, <2>6, <2>7 DEF PastCounted, Origin
  <2> QED
    BY <2>1, <2>3, <2>4, <2>5, <2>8, PodsKeep
<1>3. CASE PodGone(r)
  <2>1. /\ UNCHANGED <<setup, secret, faults, crashes>>
        /\ \A q \in Replicas \ {r} : procs'[q] = procs[q]
        /\ procs'[r].life = procs[r].life /\ procs'[r].key = NoKey /\ procs'[r].step = "off"
    BY <1>0, <1>3 DEF PodGone, Process
  <2>2. /\ \A q \in Replicas : pods'[q].born = pods[q].born
        /\ \A q \in Replicas \ {r} : pods'[q].phase = pods[q].phase
        /\ pods[r].phase = "Terminating" /\ pods'[r].phase = "gone"
    BY <1>0, <1>3 DEF PodGone
  <2>3. Deletions' = Deletions /\ Created' = Created /\ Active' = Active
    BY <2>2 DEF Deletions, Created, Active
  <2>4. Twins' = Twins
    BY <2>2, <2>3 DEF Twins, Created
  <2>5. \A q \in Replicas : Leads(q) => Leads(q)'
    BY <2>2, <2>3 DEF Leads, Before, Active
  <2>6. \A q \in Replicas : procs'[q].life = procs[q].life
    BY <2>1
  <2>7. PastKeys' = PastKeys /\ \A q \in Replicas : OwnKey(q)' = OwnKey(q)
    BY <2>6 DEF PastKeys, OwnKey
  <2>8. PastCounted' /\ \A key : Origin(key) => Origin(key)'
    BY <1>0, <2>1, <2>2, <2>7 DEF PastCounted, Origin
  <2> QED
    BY <2>1, <2>3, <2>4, <2>5, <2>8, PodsKeep
<1>4. CASE Crash(r)
  <2>1. /\ UNCHANGED <<setup, secret, pods, faults>> /\ crashes' = crashes + 1
        /\ \A q \in Replicas \ {r} : procs'[q] = procs[q]
        /\ procs'[r].life = procs[r].life + 1 /\ procs'[r].key = NoKey /\ procs'[r].step = "read"
        /\ pods[r].phase = "Running"
    BY <1>0, <1>4 DEF Crash, Process
  <2>2. Deletions' = Deletions /\ Created' = Created /\ Active' = Active /\ Twins' = Twins
    BY <2>1 DEF Deletions, Created, Active, Twins
  <2>3. \A q \in Replicas : Leads(q) => Leads(q)'
    BY <2>1, <2>2 DEF Leads, Before
  <2>4. PastKeys' = PastKeys \cup {OwnKey(r)}
    <3>1. \A q \in Replicas : procs[q].life \in Lives /\ Lives \subseteq Int
      BY <1>0, SessionKeyAssumption DEF Proc, Lives
    <3>2. OwnKey(r) \in Keys
      BY <3>1 DEF OwnKey, Keys
    <3>3. \A l \in Lives : l < procs'[r].life <=> (l < procs[r].life \/ l = procs[r].life)
      BY <2>1, <3>1
    <3>4. \A k : (\E l \in Lives : l < procs'[r].life /\ k = MemoryKeyOf(r, l)) <=>
                 (\E l \in Lives : l < procs[r].life /\ k = MemoryKeyOf(r, l)) \/ k = OwnKey(r)
      BY <3>1, <3>3 DEF OwnKey
    <3> QED
      BY <2>1, <3>2, <3>4 DEF PastKeys
  <2>5. PastCounted'
    <3>1. /\ IsFiniteSet(PastKeys \cup {OwnKey(r)})
          /\ \/ Cardinality(PastKeys \cup {OwnKey(r)}) = Cardinality(PastKeys)
             \/ Cardinality(PastKeys \cup {OwnKey(r)}) = Cardinality(PastKeys) + 1
      BY <1>0, FS_AddElement DEF PastCounted
    <3>2. Cardinality(PastKeys) \in Nat /\ Cardinality(PastKeys) <= crashes /\ crashes \in Nat
      BY <1>0, FS_CardinalityType DEF PastCounted, TypeInv, TypeOK
    <3> QED
      BY <2>1, <2>4, <3>1, <3>2 DEF PastCounted
  <2>6. \A q \in Replicas \ {r} : OwnKey(q)' = OwnKey(q)
    BY <2>1 DEF OwnKey
  <2>7. \A key : Origin(key) => Origin(key)'
    BY <2>1, <2>4, <2>6 DEF Origin
  <2> QED
    BY <2>1, <2>2, <2>3, <2>5, <2>7, PodsKeep
<1> QED
  BY <1>1, <1>2, <1>3, <1>4

\* What a step of the resolution writes to the process of r, the age of its key included.
LEMMA ProcRewritten ==
    ASSUME TypeInv, NEW r \in Replicas
    PROVE  /\ \A step : Goto(r, step) =>
                 /\ procs'[r].step = step /\ procs'[r].life = procs[r].life
                 /\ \A q \in Replicas \ {r} : procs'[q] = procs[q]
           /\ \A key : Serve(r, key) =>
                 /\ procs'[r].step = "serve" /\ procs'[r].key = key /\ procs'[r].life = procs[r].life
                 /\ \A q \in Replicas \ {r} : procs'[q] = procs[q]
           /\ NextAttempt(r) =>
                 /\ \/ procs'[r].step = "list"
                    \/ procs'[r].step = "serve" /\ procs'[r].key = OwnKey(r) /\ procs'[r].gaveUp
                 /\ procs'[r].life = procs[r].life
                 /\ \A q \in Replicas \ {r} : procs'[q] = procs[q]
<1>1. DOMAIN procs = Replicas /\ procs[r] \in Proc
  BY DEF TypeInv, TypeOK
<1>2. ASSUME NEW step, Goto(r, step)
      PROVE  /\ procs'[r].step = step /\ procs'[r].life = procs[r].life
             /\ \A q \in Replicas \ {r} : procs'[q] = procs[q]
  BY <1>1, <1>2 DEF Goto, Proc
<1>3. ASSUME NEW key, Serve(r, key)
      PROVE  /\ procs'[r].step = "serve" /\ procs'[r].key = key /\ procs'[r].life = procs[r].life
             /\ \A q \in Replicas \ {r} : procs'[q] = procs[q]
  BY <1>1, <1>3 DEF Serve, Proc
<1>4. ASSUME NextAttempt(r)
      PROVE  /\ \/ procs'[r].step = "list"
                \/ procs'[r].step = "serve" /\ procs'[r].key = OwnKey(r) /\ procs'[r].gaveUp
             /\ procs'[r].life = procs[r].life
             /\ \A q \in Replicas \ {r} : procs'[q] = procs[q]
  <2>1. CASE procs[r].attempt < MaxAttempts
    BY <1>1, <1>4, <2>1 DEF NextAttempt, Proc
  <2>2. CASE ~(procs[r].attempt < MaxAttempts)
    BY <1>1, <1>4, <2>2 DEF NextAttempt, Proc, OwnKey
  <2> QED
    BY <2>1, <2>2
<1> QED
  BY <1>2, <1>3, <1>4

LEMMA ResolutionKeeps ==
    ASSUME DisagreementInv, AgreementInv', NEW r \in Replicas, Resolve(r)
    PROVE  DisagreementInv'
<1>0. TypeInv /\ procs[r] \in Proc
  BY DEF DisagreementInv, AgreementInv, TypeInv, TypeOK
<1>1. /\ UNCHANGED <<setup, pods, crashes>> /\ faults' \in {faults, faults + 1}
      /\ pods[r].phase # "gone" /\ procs[r].step \in {"read", "create", "reread", "list", "ask"}
      /\ procs[r].step \in {"create", "reread", "list", "ask"} => ~setup.env
      /\ Fault => faults' = faults + 1
  BY DEF DisagreementInv, AgreementInv, OnlyKey, Resolve, ReadSecret, CreateSecret, RereadSecret,
         ListPeers, AskPeer, Fault, At
<1>2. procs[r].key = NoKey
  BY <1>0, <1>1 DEF TypeInv, TypeOK
<1>3. CASE ReadSecret(r) \/ RereadSecret(r)
  <2>1. \/ Goto(r, "list") /\ (~SecretUsable \/ faults' = faults + 1)
        \/ Goto(r, "create") /\ setup.statuses
        \/ setup.env /\ Serve(r, EnvKey)
        \/ ~setup.env /\ Serve(r, secret)
    <3>1. CASE ReadSecret(r)
      BY <1>1, <3>1 DEF ReadSecret, SecretUsable
    <3>2. CASE RereadSecret(r)
      BY <1>1, <3>2 DEF RereadSecret, SecretUsable, At
    <3> QED
      BY <1>3, <3>1, <3>2
  <2>2. secret' = secret
    BY <1>3 DEF ReadSecret, RereadSecret
  <2>3. Resolves(r)
    BY <1>0, <1>1, <1>2, <2>1, <2>2, ProcRewritten DEF Resolves
  <2> QED
    BY <2>3, ResolvesKeeps
<1>4. CASE CreateSecret(r)
  <2> DEFINE key == SecretKeyOf(r, procs[r].life)
  <2>1. \/ Goto(r, "list") /\ (~SecretUsable \/ faults' = faults + 1)
        \/ Goto(r, "reread")
        \/ ~setup.env /\ secret' = key /\ Serve(r, key)
    BY <1>1, <1>4 DEF CreateSecret, SecretUsable, At
  <2>2. \/ secret' = secret
        \/ /\ setup.secrets = "write" /\ setup.statuses
           /\ secret = <<"absent">> /\ secret' # <<"empty">>
    BY <1>4, KeyKinds DEF CreateSecret, At, DisagreementInv, SecretWritten
  <2> HIDE DEF key
  <2>3. Resolves(r)
    BY <1>0, <1>1, <1>2, <2>1, <2>2, ProcRewritten DEF Resolves
  <2> QED
    BY <2>3, ResolvesKeeps
<1>5. CASE ListPeers(r)
  <2>1. /\ procs[r].step = "list" /\ secret' = secret
        /\ \/ Serve(r, OwnKey(r)) /\ (Leads(r) \/ faults' = faults + 1)
           \/ NextAttempt(r)
           \/ procs' = [procs EXCEPT ![r].step = "ask", ![r].asking = OlderRunning(r)]
    BY <1>1, <1>5 DEF ListPeers, OwnKey, Leads, At
  <2>2. procs' = [procs EXCEPT ![r].step = "ask", ![r].asking = OlderRunning(r)] =>
           /\ procs'[r].step = "ask" /\ procs'[r].life = procs[r].life
           /\ \A q \in Replicas \ {r} : procs'[q] = procs[q]
    BY <1>0 DEF TypeInv, TypeOK, Proc
  <2>3. Resolves(r)
    BY <1>0, <1>1, <1>2, <2>1, <2>2, ProcRewritten DEF Resolves
  <2> QED
    BY <2>3, ResolvesKeeps
<1>6. CASE AskPeer(r)
  <2>1. procs[r].step = "ask" /\ secret' = secret /\ procs[r].asking \subseteq Replicas
    BY <1>0, <1>6 DEF AskPeer, At, Proc
  <2>2. PICK peer \in procs[r].asking :
           \/ procs[peer].step = "serve" /\ Serve(r, procs[peer].key)
           \/ NextAttempt(r)
           \/ procs' = [procs EXCEPT ![r].asking = @ \ {peer}]
    BY <1>6 DEF AskPeer, NotAnswered, Answers, Serving, At
  <2>3. peer \in Replicas /\ (procs[peer].step = "serve" => peer # r)
    BY <2>1
  <2>4. procs' = [procs EXCEPT ![r].asking = @ \ {peer}] =>
           /\ procs'[r].step = "ask" /\ procs'[r].life = procs[r].life
           /\ \A q \in Replicas \ {r} : procs'[q] = procs[q]
    BY <1>0, <2>1 DEF TypeInv, TypeOK, Proc
  <2>5. Resolves(r)
    BY <1>0, <1>1, <1>2, <2>1, <2>2, <2>3, <2>4, ProcRewritten DEF Resolves
  <2> QED
    BY <2>5, ResolvesKeeps
<1> QED
  BY <1>3, <1>4, <1>5, <1>6 DEF Resolve

LEMMA DisagreementInit == Init => DisagreementInv
<1> SUFFICES ASSUME Init PROVE DisagreementInv
  OBVIOUS
<1>1. AgreementInv /\ SecretWritten /\ Origins
  BY AgreementInit DEF Init, SecretWritten, Origins, Process
<1>2. PastKeys = {}
  BY SessionKeyAssumption DEF Init, PastKeys, Process, Lives
<1>3. PastCounted
  BY <1>2, FS_EmptySet DEF PastCounted, Init
<1>4. Charged({})
  BY OwnKeys, FS_EmptySet DEF Charged, Init, Process, OwnKey
<1> QED
  BY <1>1, <1>3, <1>4 DEF DisagreementInv

LEMMA DisagreementStep == DisagreementInv /\ [Next]_vars => DisagreementInv'
<1> SUFFICES ASSUME DisagreementInv, [Next]_vars PROVE DisagreementInv'
  OBVIOUS
<1>1. AgreementInv'
  BY AgreementStep DEF DisagreementInv
<1>2. CASE UNCHANGED vars
  <2>1. /\ SecretWritten' = SecretWritten /\ Origins' = Origins /\ PastCounted' = PastCounted
        /\ \A F : Charged(F)' = Charged(F)
    BY <1>2 DEF vars, SecretWritten, Origins, Origin, OwnKey, PastCounted, PastKeys, Charged,
                SecretUsable, Leads, Active, Before, Deletions, GaveUp, Twins, Created
  <2> QED
    BY <1>1, <2>1 DEF DisagreementInv
<1> QED
  BY <1>1, <1>2, PodKeeps, ResolutionKeeps DEF Next

\* The values of a function are no more than its arguments.
LEMMA ImageBounded ==
    ASSUME NEW C, IsFiniteSet(C), NEW f, DOMAIN f = C
    PROVE  /\ IsFiniteSet({f[x] : x \in C})
           /\ Cardinality({f[x] : x \in C}) <= Cardinality(C)
<1> DEFINE T == {f[x] : x \in C}
           g == [x \in C |-> f[x]]
<1>1. g \in Surjection(C, T)
  BY DEF Surjection
<1> QED
  BY <1>1, FS_Surjection

LEMMA UnionBounded ==
    ASSUME NEW S, NEW T, IsFiniteSet(S), IsFiniteSet(T)
    PROVE  /\ IsFiniteSet(S \cup T)
           /\ Cardinality(S \cup T) \in Nat /\ Cardinality(S) \in Nat /\ Cardinality(T) \in Nat
           /\ Cardinality(S \cup T) <= Cardinality(S) + Cardinality(T)
<1>1. IsFiniteSet(S \cup T) /\ IsFiniteSet(S \cap T)
  BY FS_Union, FS_Intersection
<1>2. /\ Cardinality(S \cup T) \in Nat /\ Cardinality(S) \in Nat /\ Cardinality(T) \in Nat
      /\ Cardinality(S \cap T) \in Nat
  BY <1>1, FS_CardinalityType
<1>3. Cardinality(S \cup T) = Cardinality(S) + Cardinality(T) - Cardinality(S \cap T)
  BY FS_Union
<1> QED
  BY <1>1, <1>2, <1>3

\* The keys that count once: the variable's, the Secret's, or the leader's.
Chosen ==
    IF setup.env THEN {EnvKey} ELSE IF SecretUsable THEN {secret}
    ELSE {OwnKey(q) : q \in {p \in Active : procs[p].key = OwnKey(p) /\ Leads(p)}}

LEMMA OneChosen ==
    ASSUME DisagreementInv
    PROVE  IsFiniteSet(Chosen) /\ Cardinality(Chosen) <= 1
<1>1. ASSUME NEW key, Chosen = {key}
      PROVE  IsFiniteSet(Chosen) /\ Cardinality(Chosen) <= 1
  <2>1. IsFiniteSet({key}) /\ Cardinality({key}) = 1
    BY FS_Singleton
  <2>2. Cardinality(Chosen) = 1
    BY <1>1, <2>1
  <2> QED
    BY <1>1, <2>1, <2>2
<1>2. CASE setup.env \/ SecretUsable
  <2>1. Chosen = {EnvKey} \/ Chosen = {secret}
    BY <1>2 DEF Chosen
  <2> QED
    BY <1>1, <2>1
<1>3. CASE ~setup.env /\ ~SecretUsable
  <2>1. \A p, q \in Active : Leads(p) /\ Leads(q) => p = q
    <3>1. \A p \in Active : p \in Int /\ pods[p].born \in Int
      BY SessionKeyAssumption DEF DisagreementInv, AgreementInv, TypeInv, TypeOK, Active
    <3> QED
      BY <3>1 DEF Leads, Before
  <2>2. Chosen = {} \/ \E q \in Active : Chosen = {OwnKey(q)}
    BY <1>3, <2>1 DEF Chosen
  <2>3. CASE Chosen = {}
    <3>1. IsFiniteSet({}) /\ Cardinality({}) = 0
      BY FS_EmptySet
    <3>2. Cardinality(Chosen) = 0
      BY <2>3, <3>1
    <3> QED
      BY <2>3, <3>1, <3>2
  <2> QED
    BY <1>1, <2>2, <2>3
<1> QED
  BY <1>2, <1>3

LEMMA Bounded ==
    ASSUME DisagreementInv
    PROVE  DisagreementBounded
<1>0. /\ AgreementInv /\ TypeInv /\ faults \in Nat /\ crashes \in Nat
  BY DEF DisagreementInv, AgreementInv, TypeInv, TypeOK
<1>1. PICK F \in SUBSET Replicas : Charged(F)
  BY DEF DisagreementInv
<1> DEFINE D == Deletions
           G == GaveUp
           T == Twins
           C == ((F \cup D) \cup G) \cup T
           f == [r \in C |-> OwnKey(r)]
           Own == {f[r] : r \in C}
<1>2. C \in SUBSET Replicas
  BY DEF Deletions, GaveUp, Twins, Created
<1>3. IsFiniteSet(F) /\ IsFiniteSet(D) /\ IsFiniteSet(G) /\ IsFiniteSet(T) /\ IsFiniteSet(C)
  BY <1>2, SessionKeyAssumption, FS_Subset
<1>4. Cardinality(F) <= faults
  BY <1>1 DEF Charged
<1>5. Disturbances = faults + crashes + Cardinality(D) + Cardinality(G) + Cardinality(T)
  BY DEF Disturbances, Incidents, GaveUp, Twins
<1>6. ServedKeys \subseteq (Chosen \cup PastKeys) \cup Own
  <2> SUFFICES ASSUME NEW r \in Replicas, Serving(r), NEW key, key = procs[r].key
               PROVE  key \in (Chosen \cup PastKeys) \cup Own
    BY DEF ServedKeys
  <2>1. procs[r].step = "serve" /\ Origin(key) /\ key \in Keys
    BY <1>0 DEF Serving, At, DisagreementInv, Origins, TypeInv, TypeOK, Proc
  <2>2. CASE setup.env
    BY <1>0, <2>1, <2>2 DEF AgreementInv, OnlyKey, Chosen
  <2>3. CASE ~setup.env /\ key = secret
    <3>1. key \notin {<<"absent">>, <<"empty">>}
      BY <2>1, KeyKinds DEF Keys, NoKey, EnvKey
    <3>2. SecretUsable
      BY <2>3, <3>1 DEF DisagreementInv, SecretWritten, SecretUsable
    <3> QED
      BY <2>3, <3>2 DEF Chosen
  <2>4. ASSUME ~setup.env, NEW q \in Replicas, key = OwnKey(q),
               procs[q].key = key \/ pods[q].phase = "gone"
        PROVE  key \in (Chosen \cup PastKeys) \cup Own
    <3>1. CASE q \in C
      BY <2>4, <3>1
    <3>2. CASE q \notin C
      <4>1. procs[q].key = OwnKey(q) /\ pods[q].phase \notin {"Terminating", "gone"}
        BY <2>4, <3>2 DEF Deletions
      <4>2. Leads(q) /\ ~SecretUsable
        BY <1>1, <3>2, <4>1 DEF Charged
      <4>3. procs[q].step = "serve"
        BY <1>0, <4>1, OwnKeys DEF OwnKey, TypeInv, TypeOK
      <4>4. q \in Active
        BY <1>0, <4>1, <4>3 DEF TypeInv, TypeOK, Wellformed, Active, Phases
      <4> QED
        BY <2>4, <4>1, <4>2, <4>4 DEF Chosen
    <3> QED
      BY <3>1, <3>2
  <2> QED
    BY <2>1, <2>2, <2>3, <2>4 DEF Origin
<1>7. IsFiniteSet(Own) /\ Cardinality(Own) <= Cardinality(C)
  BY <1>3, ImageBounded
<1>8. /\ IsFiniteSet(Chosen) /\ Cardinality(Chosen) <= 1
      /\ IsFiniteSet(PastKeys) /\ Cardinality(PastKeys) <= crashes
  BY OneChosen DEF DisagreementInv, PastCounted
<1> HIDE DEF D, G, T, Own, f
<1>9. /\ Cardinality(C) <= Cardinality(F) + Cardinality(D) + Cardinality(G) + Cardinality(T)
      /\ Cardinality(C) \in Nat /\ Cardinality(F) \in Nat /\ Cardinality(D) \in Nat
      /\ Cardinality(G) \in Nat /\ Cardinality(T) \in Nat
  <2>1. /\ IsFiniteSet(F \cup D) /\ Cardinality(F \cup D) \in Nat
        /\ Cardinality(F) \in Nat /\ Cardinality(D) \in Nat
        /\ Cardinality(F \cup D) <= Cardinality(F) + Cardinality(D)
    BY <1>3, UnionBounded
  <2>2. /\ IsFiniteSet((F \cup D) \cup G) /\ Cardinality((F \cup D) \cup G) \in Nat
        /\ Cardinality(G) \in Nat
        /\ Cardinality((F \cup D) \cup G) <= Cardinality(F \cup D) + Cardinality(G)
    BY <1>3, <2>1, UnionBounded
  <2>3. /\ Cardinality(C) \in Nat /\ Cardinality(T) \in Nat
        /\ Cardinality(C) <= Cardinality((F \cup D) \cup G) + Cardinality(T)
    BY <1>3, <2>2, UnionBounded
  <2> QED
    BY <2>1, <2>2, <2>3
<1> HIDE DEF C
<1>10. /\ IsFiniteSet(Chosen \cup PastKeys) /\ Cardinality(Chosen \cup PastKeys) <= 1 + crashes
       /\ Cardinality(Chosen \cup PastKeys) \in Nat
  BY <1>0, <1>8, UnionBounded
<1>11. /\ IsFiniteSet((Chosen \cup PastKeys) \cup Own)
       /\ Cardinality((Chosen \cup PastKeys) \cup Own) <=
             Cardinality(Chosen \cup PastKeys) + Cardinality(Own)
       /\ Cardinality((Chosen \cup PastKeys) \cup Own) \in Nat /\ Cardinality(Own) \in Nat
  BY <1>7, <1>10, UnionBounded
<1>12. Cardinality(ServedKeys) <= Cardinality((Chosen \cup PastKeys) \cup Own)
       /\ Cardinality(ServedKeys) \in Nat
  BY <1>6, <1>11, FS_Subset, FS_CardinalityType
<1> QED
  BY <1>0, <1>4, <1>5, <1>7, <1>9, <1>10, <1>11, <1>12 DEF DisagreementBounded

\* Without a usable Secret the replicas' keys are no more than one and the disturbances that
\* account for the others: the leader is the only one that makes a key without a reason.
THEOREM DisagreementBoundedHolds == Spec => []DisagreementBounded
BY DisagreementInit, DisagreementStep, Bounded, PTL DEF Spec

=============================================================================
