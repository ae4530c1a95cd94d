--------------------------- MODULE DashboardProofs ---------------------------
(***************************************************************************)
(* Proofs about Dashboard: the tools of the server under any number of     *)
(* clients, for any objects, users and rights, and the page next to them.  *)
(***************************************************************************)
EXTENDS Dashboard, FiniteSetTheorems, TLAPS

-----------------------------------------------------------------------------
(* What holds between the calls of the tools *)

Creating == {"create_template", "create_pod", "create_pod_from_template"}

\* A tool lets the caller act on the object, or show it.
Own(tool, who, o) ==
    /\ Restricted(who) => o.owner = Sub(who)
    /\ o.kind = "pod" /\ tool \notin WorkspaceTools => Permitted(who, o)

\* A call that is about to act has seen what the caller may act on, or did not have to look.
Vetted(tool, who, seen) ==
    tool \notin Creating =>
        /\ \A o \in seen : Own(tool, who, o)
        /\ seen = {} /\ tool # "list_pods" =>
              /\ ~Restricted(who)
              /\ tool # "delete_template" => tool \notin WorkspaceTools /\ ~setup.managedOnly

\* A call under way says what it is about, and whose it is where that matters.
Filled(call) ==
    call.step # "idle" =>
        call.name \in Names /\ call.labels \in Labels /\ (Auth => call.who # NoClaims)

CallsFilled == \A c \in Clients : Filled(calls[c])

CallsVetted ==
    \A c \in Clients :
        calls[c].step = "act" => Vetted(calls[c].tool, calls[c].who, calls[c].seen)

UidsUnique == \A o, p \in objects : o.uid = p.uid => o = p

\* An object with the resource version that was read is the object that was read.
SeenExact ==
    \A c \in Clients : \A s \in calls[c].seen :
        /\ s.rv <= version
        /\ \A o \in objects : o.uid = s.uid /\ o.rv = s.rv => o = s

AcknowledgedOld == \A a \in acknowledged : a.uid \in Nat /\ a.uid <= version

ToolsInv ==
    /\ ToolsTypeOK /\ UidsUnique /\ CallsFilled /\ SeenExact /\ CallsVetted
    /\ AcknowledgedOld /\ UpdatesSurvive

\* Objects go, one object comes, or one takes the place of another with all its notes.
Incoming(o) ==
    /\ o \in Object /\ o.rv = version + 1 /\ o.uid <= o.rv
    /\ \/ o.uid = version + 1
       \/ \E old \in objects \ objects' :
             o.uid = old.uid /\ o.kind = old.kind /\ old.notes \subseteq o.notes
    /\ \A p \in objects \cap objects' : ~(p.kind = o.kind /\ p.name = o.name)

ObjectsEvolve ==
    /\ version' \in {version, version + 1}
    /\ \A o \in objects' \ objects :
          /\ version' = version + 1 /\ Incoming(o)
          /\ \A p \in objects' \ objects : p = o
    /\ \A a \in acknowledged' :
          a \in acknowledged \/ \E o \in objects' \ objects : a.uid = o.uid /\ a.note \in o.notes

\* A call goes on knowing what it knew and what is there.
Goes(c, call) ==
    /\ calls' = [calls EXCEPT ![c] = call]
    /\ call \in Call /\ call.who \in Callers
    /\ call.seen \subseteq calls[c].seen \cup objects
    /\ Filled(call)
    /\ call.step = "act" => Vetted(call.tool, call.who, call.seen)

CallGoesOn(c) == setup' = setup /\ \E call : Goes(c, call)

-----------------------------------------------------------------------------

LEMMA SameSetup ==
    ASSUME setup' = setup
    PROVE  /\ Call' = Call /\ Callers' = Callers /\ Auth' = Auth
           /\ \A tool, who, seen : Vetted(tool, who, seen)' <=> Vetted(tool, who, seen)
BY DEF Call, Callers, Auth, Vetted, Own, Restricted, Permitted, Sub

LEMMA IdleType ==
    ToolsTypeOK => Idle \in Call /\ Idle.who = NoClaims /\ Idle.step = "idle" /\ Idle.seen = {}
BY DEF Idle, Call

LEMMA ObjectsKept ==
    ASSUME ToolsInv, ObjectsEvolve, setup' = setup
    PROVE  /\ version' \in Nat /\ version <= version'
           /\ WellFormed(objects', version')
           /\ UidsUnique' /\ AcknowledgedOld' /\ UpdatesSurvive'
<1>1. /\ version \in Nat /\ objects \subseteq Object
      /\ \A o \in objects : o.uid <= o.rv /\ o.rv <= version
      /\ \A o, p \in objects : o.kind = p.kind /\ o.name = p.name => o = p
  BY DEF ToolsInv, ToolsTypeOK, WellFormed
<1>2. version' \in Nat /\ version <= version'
  BY <1>1 DEF ObjectsEvolve
<1>3. \A o \in Object : o.uid \in Nat /\ o.rv \in Nat
  BY DEF Object
<1>4. \A o \in objects' : o \in objects \/ (version' = version + 1 /\ Incoming(o))
  BY DEF ObjectsEvolve
<1>5. objects' \subseteq Object
  BY <1>1, <1>4 DEF Incoming
<1>6. ASSUME NEW o \in objects' PROVE o.uid <= o.rv /\ o.rv <= version'
  <2>1. CASE o \in objects
    BY <1>1, <1>2, <1>3, <2>1
  <2>2. CASE version' = version + 1 /\ Incoming(o)
    BY <1>1, <2>2 DEF Incoming
  <2> QED
    BY <1>4, <2>1, <2>2
<1>7. ASSUME NEW o \in objects', NEW p \in objects', o.kind = p.kind, o.name = p.name
      PROVE  o = p
  <2>1. CASE o \in objects /\ p \in objects
    BY <1>1, <1>7, <2>1
  <2>2. CASE o \notin objects /\ p \in objects
    BY <1>4, <1>7, <2>2 DEF Incoming
  <2>3. CASE o \in objects /\ p \notin objects
    BY <1>4, <1>7, <2>3 DEF Incoming
  <2>4. CASE o \notin objects /\ p \notin objects
    BY <2>4 DEF ObjectsEvolve
  <2> QED
    BY <2>1, <2>2, <2>3, <2>4
<1>8. ASSUME NEW o \in objects' \ objects, NEW p \in objects, o.uid = p.uid
      PROVE  p \notin objects' /\ o.kind = p.kind /\ p.notes \subseteq o.notes
  <2>1. Incoming(o)
    BY <1>4
  <2>2. o.uid # version + 1
    BY <1>1, <1>3, <1>8
  <2>3. PICK old \in objects \ objects' :
            o.uid = old.uid /\ o.kind = old.kind /\ old.notes \subseteq o.notes
    BY <2>1, <2>2 DEF Incoming
  <2>4. old = p
    BY <1>8, <2>3 DEF ToolsInv, UidsUnique
  <2> QED
    BY <2>3, <2>4
<1>9. UidsUnique'
  <2> SUFFICES ASSUME NEW o \in objects', NEW p \in objects', o.uid = p.uid PROVE o = p
    BY DEF UidsUnique
  <2>1. CASE o \in objects /\ p \in objects
    BY <2>1 DEF ToolsInv, UidsUnique
  <2>2. CASE o \notin objects /\ p \in objects
    BY <1>8, <2>2
  <2>3. CASE o \in objects /\ p \notin objects
    BY <1>8, <2>3
  <2>4. CASE o \notin objects /\ p \notin objects
    BY <2>4 DEF ObjectsEvolve
  <2> QED
    BY <2>1, <2>2, <2>3, <2>4
<1>10. AcknowledgedOld'
  <2> SUFFICES ASSUME NEW a \in acknowledged' PROVE a.uid \in Nat /\ a.uid <= version'
    BY DEF AcknowledgedOld
  <2>1. CASE a \in acknowledged
    BY <1>1, <1>2, <2>1 DEF ToolsInv, AcknowledgedOld
  <2>2. CASE \E o \in objects' : a.uid = o.uid
    BY <1>2, <1>3, <1>5, <1>6, <2>2
  <2> QED
    BY <2>1, <2>2 DEF ObjectsEvolve
<1>11. UpdatesSurvive'
  <2> SUFFICES ASSUME NEW a \in acknowledged', NEW o \in objects', o.kind = "configmap", o.uid = a.uid
               PROVE  a.note \in o.notes
    BY DEF UpdatesSurvive
  <2>1. CASE a \in acknowledged
    <3>1. CASE o \in objects
      BY <2>1, <3>1 DEF ToolsInv, UpdatesSurvive
    <3>2. CASE o \notin objects
      <4>1. a.uid \in Nat /\ a.uid <= version
        BY <2>1 DEF ToolsInv, AcknowledgedOld
      <4>2. o.uid # version + 1
        BY <1>1, <4>1
      <4>3. PICK old \in objects : o.uid = old.uid /\ o.kind = old.kind /\ old.notes \subseteq o.notes
        BY <1>4, <3>2, <4>2 DEF Incoming
      <4>4. a.note \in old.notes
        BY <2>1, <4>3 DEF ToolsInv, UpdatesSurvive
      <4> QED
        BY <4>3, <4>4
    <3> QED
      BY <3>1, <3>2
  <2>2. CASE \E p \in objects' : a.uid = p.uid /\ a.note \in p.notes
    BY <1>9, <2>2 DEF UidsUnique
  <2> QED
    BY <2>1, <2>2 DEF ObjectsEvolve
<1> QED
  BY <1>2, <1>5, <1>6, <1>7, <1>9, <1>10, <1>11 DEF WellFormed

\* What a call has seen stays what it was.
LEMMA SeenKept ==
    ASSUME ToolsInv, ObjectsEvolve, NEW s,
           \/ s \in objects
           \/ \E c \in Clients : s \in calls[c].seen
    PROVE  s.rv <= version' /\ \A o \in objects' : o.uid = s.uid /\ o.rv = s.rv => o = s
<1>1. version \in Nat /\ objects \subseteq Object /\ calls \in [Clients -> Call]
  BY DEF ToolsInv, ToolsTypeOK, WellFormed
<1>2. s \in Object
  BY <1>1 DEF Call
<1>3. s.rv \in Nat /\ s.rv <= version
  BY <1>1, <1>2 DEF Object, ToolsInv, ToolsTypeOK, WellFormed, SeenExact
<1>4. ASSUME NEW o \in objects, o.uid = s.uid, o.rv = s.rv PROVE o = s
  BY <1>4 DEF ToolsInv, UidsUnique, SeenExact
<1>5. ASSUME NEW o \in objects' \ objects PROVE o.rv # s.rv
  BY <1>1, <1>3 DEF ObjectsEvolve, Incoming
<1> QED
  BY <1>1, <1>3, <1>4, <1>5 DEF ObjectsEvolve

LEMMA ToolsKept ==
    ASSUME ToolsInv, ObjectsEvolve, NEW c \in Clients, CallGoesOn(c)
    PROVE  ToolsInv'
<1>1. setup' = setup
  BY DEF CallGoesOn
<1>2. PICK call : Goes(c, call)
  BY DEF CallGoesOn
<1>3. /\ version' \in Nat
      /\ WellFormed(objects', version')
      /\ UidsUnique' /\ AcknowledgedOld' /\ UpdatesSurvive'
  BY <1>1, ObjectsKept
<1>4. calls \in [Clients -> Call] /\ setup \in Setups /\ \A d \in Clients : calls[d].who \in Callers
  BY DEF ToolsInv, ToolsTypeOK
<1>5. /\ calls' \in [Clients -> Call] /\ calls'[c] = call
      /\ \A d \in Clients \ {c} : calls'[d] = calls[d]
  BY <1>2, <1>4 DEF Goes
<1>6. ToolsTypeOK'
  <2>1. \A d \in Clients : calls'[d].who \in Callers
    BY <1>2, <1>4, <1>5 DEF Goes
  <2> QED
    BY <1>1, <1>3, <1>4, <1>5, <2>1, SameSetup DEF ToolsTypeOK
<1>7. CallsFilled'
  <2>1. \A d \in Clients : Filled(calls'[d])
    BY <1>2, <1>5 DEF Goes, ToolsInv, CallsFilled
  <2> QED
    BY <1>1, <2>1 DEF CallsFilled, Filled, Auth
<1>8. CallsVetted'
  <2>1. \A d \in Clients : calls'[d].step = "act" =>
            Vetted(calls'[d].tool, calls'[d].who, calls'[d].seen)
    BY <1>2, <1>5 DEF Goes, ToolsInv, CallsVetted
  <2> SUFFICES ASSUME NEW d \in Clients, calls'[d].step = "act"
               PROVE  Vetted(calls[d].tool, calls[d].who, calls[d].seen)'
    BY DEF CallsVetted
  <2>2. Vetted(calls'[d].tool, calls'[d].who, calls'[d].seen)
    BY <2>1
  <2> QED
    BY <1>1, <2>2 DEF Vetted, Own, Restricted, Permitted, Sub, Auth
<1>9. SeenExact'
  <2> SUFFICES ASSUME NEW d \in Clients, NEW s \in calls'[d].seen
               PROVE  s.rv <= version' /\ \A o \in objects' : o.uid = s.uid /\ o.rv = s.rv => o = s
    BY DEF SeenExact
  <2>1. s \in objects \/ \E e \in Clients : s \in calls[e].seen
    BY <1>2, <1>5 DEF Goes
  <2> QED
    BY <2>1, SeenKept
<1> QED
  BY <1>3, <1>6, <1>7, <1>8, <1>9 DEF ToolsInv

-----------------------------------------------------------------------------
(* The steps of the tools *)

LEMMA StillThere ==
    ASSUME UNCHANGED <<objects, acknowledged>>, version' \in {version, version + 1}
    PROVE  ObjectsEvolve
BY DEF ObjectsEvolve

LEMMA AsksGoesOn ==
    ASSUME ToolsInv, NEW c \in Clients, NEW tool, NEW action, NEW readers, NEW refused,
           Asks(c, tool, action, readers, refused),
           \A who \in Callers \ readers :
              \/ tool \in Creating \cup {"list_pods"}
              \/ Auth /\ who = NoClaims
              \/ ~Restricted(who) /\ (tool # "delete_template" =>
                                         tool \notin WorkspaceTools /\ ~setup.managedOnly)
    PROVE  CallGoesOn(c)
<1>1. PICK who \in Callers, name \in Names, labels \in Labels :
         calls' = [calls EXCEPT ![c] =
             IF name \in refused \/ ~May(who, action) THEN Idle
             ELSE [tool |-> tool, who |-> who, name |-> name, labels |-> labels,
                   step |-> IF who \in readers THEN "read" ELSE "act", seen |-> {}]]
  BY DEF Asks
<1> DEFINE call == [tool |-> tool, who |-> who, name |-> name, labels |-> labels,
                    step |-> IF who \in readers THEN "read" ELSE "act", seen |-> {}]
<1>2. setup' = setup /\ tool \in setup.tools
  BY DEF Asks
<1>3. CASE calls' = [calls EXCEPT ![c] = Idle]
  <2>1. Goes(c, Idle)
    BY <1>3, IdleType DEF Goes, ToolsInv, Callers, Filled
  <2> QED
    BY <1>2, <2>1 DEF CallGoesOn
<1>4. CASE May(who, action) /\ calls' = [calls EXCEPT ![c] = call]
  <2>1. who \in Users \cup {NoClaims}
    BY DEF Callers
  <2>2. call \in Call
    BY <1>2, <2>1 DEF Call
  <2>3. /\ call.who = who /\ call.seen = {} /\ call.tool = tool
        /\ call.step = IF who \in readers THEN "read" ELSE "act"
    OBVIOUS
  <2>4. Auth => who # NoClaims
    BY <1>4 DEF May
  <2>5. call.step = "act" => Vetted(tool, who, {})
    BY <2>3, <2>4 DEF Vetted
  <2>6. call.name \in Names /\ call.labels \in Labels
    OBVIOUS
  <2> HIDE DEF call
  <2>7. Goes(c, call)
    BY <1>4, <2>2, <2>3, <2>4, <2>5, <2>6 DEF Goes, Filled
  <2> QED
    BY <1>2, <2>7 DEF CallGoesOn
<1> QED
  BY <1>1, <1>3, <1>4

LEMMA EndsGoesOn ==
    ASSUME ToolsInv, NEW c \in Clients, Ends(c), setup' = setup
    PROVE  CallGoesOn(c)
<1>1. Goes(c, Idle)
  BY IdleType DEF Goes, Ends, ToolsInv, Callers, Filled
<1> QED
  BY <1>1 DEF CallGoesOn

LEMMA ReadsGoesOn ==
    ASSUME ToolsInv, NEW c \in Clients, NEW found \in SUBSET objects, NEW permitted \in BOOLEAN,
           Reads(c, found, permitted), calls[c].step = "read",
           permitted => Vetted(calls[c].tool, calls[c].who, found)
    PROVE  CallGoesOn(c)
<1> DEFINE call == [calls[c] EXCEPT !.step = "act", !.seen = found]
<1>1. setup' = setup
  BY DEF Reads
<1>2. calls[c] \in Call /\ calls[c].who \in Callers /\ objects \subseteq Object
  BY DEF ToolsInv, ToolsTypeOK, WellFormed
<1>3. CASE ~permitted
  BY <1>1, <1>3, EndsGoesOn DEF Reads, Ends
<1>4. CASE permitted
  <2>1. calls' = [calls EXCEPT ![c] = call]
    BY <1>4 DEF Reads
  <2>2. /\ call \in Call /\ call.who = calls[c].who /\ call.tool = calls[c].tool
        /\ call.seen = found /\ call.step = "act"
        /\ call.name = calls[c].name /\ call.labels = calls[c].labels
    BY <1>2 DEF Call
  <2> HIDE DEF call
  <2>3. Filled(call)
    BY <2>2 DEF ToolsInv, CallsFilled, Filled
  <2>4. Goes(c, call)
    BY <1>2, <1>4, <2>1, <2>2, <2>3 DEF Goes
  <2> QED
    BY <1>1, <2>4 DEF CallGoesOn
<1> QED
  BY <1>3, <1>4

LEMMA ShowsGoesOn ==
    ASSUME ToolsInv, NEW c \in Clients, NEW found \in SUBSET (objects \cup calls[c].seen),
           Shows(c, found)
    PROVE  CallGoesOn(c)
<1> DEFINE call == [Idle EXCEPT !.who = calls[c].who, !.seen = found]
<1>1. setup' = setup /\ calls' = [calls EXCEPT ![c] = call]
  BY DEF Shows
<1>2. calls[c] \in Call /\ calls[c].who \in Callers /\ objects \subseteq Object
  BY DEF ToolsInv, ToolsTypeOK, WellFormed
<1>3. found \subseteq Object
  BY <1>2 DEF Call
<1>4. call \in Call /\ call.who = calls[c].who /\ call.seen = found /\ call.step = "idle"
  BY <1>2, <1>3 DEF Idle, Call, Callers
<1> HIDE DEF call
<1>5. Goes(c, call)
  BY <1>1, <1>2, <1>4 DEF Goes, Filled
<1> QED
  BY <1>1, <1>5 DEF CallGoesOn

LEMMA Labelled ==
    ASSUME ToolsInv, NEW c \in Clients, calls[c].step = "act", NEW owner \in Owners, NEW marked \in BOOLEAN
    PROVE  Owner(calls[c].labels, owner) \in Owners /\ Mark(calls[c].labels, marked) \in BOOLEAN
<1>1. calls[c].labels \in Labels
  BY DEF ToolsInv, CallsFilled, Filled
<1> QED
  BY <1>1 DEF Owner, Mark, Owners

\* A new object has a version of its own.
LEMMA CreationEvolves ==
    ASSUME ToolsTypeOK, NEW o \in Object, o.uid = version + 1, o.rv = version + 1,
           Named(o.kind, o.name) = {}, objects' = objects \cup {o},
           version' = version + 1, UNCHANGED acknowledged
    PROVE  ObjectsEvolve
<1>1. Incoming(o)
  BY DEF Incoming, Named, Object
<1>2. \A p \in objects' \ objects : p = o
  OBVIOUS
<1> QED
  BY <1>1, <1>2 DEF ObjectsEvolve

LEMMA DeletionEvolves ==
    ASSUME objects' \subseteq objects, version' \in {version, version + 1}, UNCHANGED acknowledged
    PROVE  ObjectsEvolve
BY DEF ObjectsEvolve

\* One object takes the place of another of the same name.
LEMMA ReplacementEvolves ==
    ASSUME ToolsTypeOK, NEW old \in objects, NEW o \in Object,
           o.kind = old.kind, o.name = old.name, o.rv = version + 1,
           \/ o.uid = old.uid /\ old.notes \subseteq o.notes
           \/ o.uid = version + 1,
           objects' = (objects \ {old}) \cup {o}, version' = version + 1,
           \A a \in acknowledged' : a \in acknowledged \/ (a.uid = o.uid /\ a.note \in o.notes)
    PROVE  ObjectsEvolve
<1>1. /\ version \in Nat /\ old \in Object
      /\ old.uid <= old.rv /\ old.rv <= version
      /\ \A p \in objects : p.rv <= version
      /\ \A p, q \in objects : p.kind = q.kind /\ p.name = q.name => p = q
  BY DEF ToolsTypeOK, WellFormed
<1>2. o \notin objects /\ o # old
  BY <1>1 DEF Object
<1>3. o \in objects' \ objects /\ old \in objects \ objects'
  BY <1>2
<1>4. o.uid <= o.rv
  BY <1>1 DEF Object
<1>5. \A p \in objects \cap objects' : ~(p.kind = o.kind /\ p.name = o.name)
  BY <1>1, <1>2
<1>6. Incoming(o)
  BY <1>3, <1>4, <1>5 DEF Incoming
<1>7. \A p \in objects' \ objects : p = o
  OBVIOUS
<1> QED
  BY <1>3, <1>6, <1>7 DEF ObjectsEvolve

LEMMA AsksKept ==
    ASSUME ToolsInv, NEW c \in Clients, NEW tool, NEW action, NEW readers, NEW refused,
           Asks(c, tool, action, readers, refused),
           \A who \in Callers \ readers :
              \/ tool \in Creating \cup {"list_pods"}
              \/ Auth /\ who = NoClaims
              \/ ~Restricted(who) /\ (tool # "delete_template" =>
                                         tool \notin WorkspaceTools /\ ~setup.managedOnly)
    PROVE  ToolsInv'
<1>1. CallGoesOn(c)
  BY AsksGoesOn
<1>2. ObjectsEvolve
  BY StillThere DEF Asks
<1> QED
  BY <1>1, <1>2, ToolsKept

LEMMA ReadsKept ==
    ASSUME ToolsInv, NEW c \in Clients, NEW found \in SUBSET objects, NEW permitted \in BOOLEAN,
           Reads(c, found, permitted), calls[c].step = "read",
           permitted => Vetted(calls[c].tool, calls[c].who, found)
    PROVE  ToolsInv'
<1>1. CallGoesOn(c)
  BY ReadsGoesOn
<1>2. ObjectsEvolve
  BY StillThere DEF Reads
<1> QED
  BY <1>1, <1>2, ToolsKept

LEMMA ShowsKept ==
    ASSUME ToolsInv, NEW c \in Clients, NEW found \in SUBSET (objects \cup calls[c].seen),
           Shows(c, found)
    PROVE  ToolsInv'
<1>1. CallGoesOn(c)
  BY ShowsGoesOn
<1>2. ObjectsEvolve
  BY StillThere DEF Shows
<1> QED
  BY <1>1, <1>2, ToolsKept

LEMMA CreatesKept ==
    ASSUME ToolsInv, NEW c \in Clients, NEW kind \in {"configmap", "pod"},
           NEW owner \in Owners, NEW marked \in BOOLEAN,
           Creates(c, kind, owner, marked), calls[c].step = "act"
    PROVE  ToolsInv'
<1> DEFINE o == [kind |-> kind, name |-> calls[c].name, uid |-> version + 1, rv |-> version + 1,
                 owner |-> owner, marked |-> marked, notes |-> {}]
<1>1. /\ version' = version + 1 /\ UNCHANGED <<setup, acknowledged>> /\ Ends(c)
      /\ objects' = objects \cup {o}
      /\ Named(kind, calls[c].name) = {}
  BY DEF Creates
<1>2. ToolsTypeOK /\ version \in Nat /\ calls[c].name \in Names
  BY DEF ToolsInv, ToolsTypeOK, CallsFilled, Filled
<1>3. o \in Object
  BY <1>2 DEF Object
<1>4. o.uid = version + 1 /\ o.rv = version + 1 /\ o.kind = kind /\ o.name = calls[c].name
  OBVIOUS
<1> HIDE DEF o
<1>5. ObjectsEvolve
  BY <1>1, <1>2, <1>3, <1>4, CreationEvolves
<1> QED
  BY <1>1, <1>5, EndsGoesOn, ToolsKept

LEMMA DeletesKept ==
    ASSUME ToolsInv, NEW c \in Clients, NEW kind, Deletes(c, kind)
    PROVE  ToolsInv'
<1>1. objects' \subseteq objects /\ Ends(c) /\ UNCHANGED <<setup, version, acknowledged>>
  BY DEF Deletes
<1>2. ObjectsEvolve
  BY <1>1, DeletionEvolves
<1> QED
  BY <1>1, <1>2, EndsGoesOn, ToolsKept

LEMMA CallFailsKept ==
    ASSUME ToolsInv, NEW c \in Clients, CallFails(c)
    PROVE  ToolsInv'
<1>1. ObjectsEvolve
  BY StillThere DEF CallFails
<1> QED
  BY <1>1, EndsGoesOn, ToolsKept DEF CallFails

\* A template is read before it is changed, and a creator may change it.
LEMMA CreatorVetted ==
    ASSUME NEW c, NEW tool, tool \notin Creating, NEW found \in SUBSET Named("configmap", calls[c].name),
           found # {}, Creator(c, found)
    PROVE  Vetted(tool, calls[c].who, found)
BY DEF Named, Creator, Vetted, Own

LEMMA CreateTemplateKept ==
    ASSUME ToolsInv, NEW c \in Clients, CreateTemplate(c)
    PROVE  ToolsInv'
<1>1. CASE Asks(c, "create_template", "template:create", {}, {})
  BY <1>1, AsksKept DEF Creating
<1>2. CASE At(c, "create_template", "act")
           /\ Creates(c, "configmap",
                      IF Auth THEN Sub(calls[c].who) ELSE Owner(calls[c].labels, Unset),
                      Mark(calls[c].labels, TRUE))
  <2>1. calls[c].step = "act"
    BY <1>2 DEF At
  <2>2. Owner(calls[c].labels, Unset) \in Owners /\ Mark(calls[c].labels, TRUE) \in BOOLEAN
    BY <2>1, Labelled DEF Owners
  <2>3. Auth => Sub(calls[c].who) \in Owners
    BY <2>1 DEF ToolsInv, ToolsTypeOK, CallsFilled, Filled, Callers, Sub, Owners
  <2> QED
    BY <1>2, <2>1, <2>2, <2>3, CreatesKept
<1> QED
  BY <1>1, <1>2 DEF CreateTemplate

LEMMA UpdateTemplateKept ==
    ASSUME ToolsInv, NEW c \in Clients, UpdateTemplate(c)
    PROVE  ToolsInv'
<1>1. CASE Asks(c, "update_template", "template:write", Callers, LocalNames)
  BY <1>1, AsksKept
<1>2. CASE /\ At(c, "update_template", "read")
           /\ LET found == Named("configmap", calls[c].name)
              IN found # {} /\ Reads(c, found, Creator(c, found))
  <2> DEFINE found == Named("configmap", calls[c].name)
  <2>1. calls[c].tool = "update_template" /\ calls[c].step = "read"
    BY <1>2 DEF At
  <2>2. found # {} /\ found \in SUBSET objects /\ Reads(c, found, Creator(c, found))
    BY <1>2 DEF Named
  <2>3. Creator(c, found) \in BOOLEAN
    BY DEF Creator
  <2>4. Creator(c, found) => Vetted(calls[c].tool, calls[c].who, found)
    BY <2>1, <2>2, CreatorVetted DEF Creating
  <2> HIDE DEF found
  <2> QED
    BY <2>1, <2>2, <2>3, <2>4, ReadsKept
<1>3. ASSUME At(c, "update_template", "act"), NEW seen \in calls[c].seen,
             NEW old \in Replaced(seen),
             version' = version + 1,
             objects' = (objects \ {old}) \cup
                   {[seen EXCEPT !.uid = old.uid, !.rv = version', !.notes = @ \cup {c},
                                 !.owner = Owner(calls[c].labels, @),
                                 !.marked = Mark(calls[c].labels, @)]},
             acknowledged' = acknowledged \cup {[uid |-> old.uid, note |-> c]},
             Ends(c), UNCHANGED <<setup, left>>
      PROVE  ToolsInv'
  <2>1. calls[c].step = "act"
    BY <1>3 DEF At
  <2>2. old \in objects /\ old.uid = seen.uid /\ old.rv = seen.rv
    BY DEF Replaced, Named
  <2>3. old = seen
    BY <2>2 DEF ToolsInv, SeenExact
  <2>4. old \in Object /\ version \in Nat /\ ToolsTypeOK
    BY <2>2 DEF ToolsInv, ToolsTypeOK, WellFormed
  <2> DEFINE owner == Owner(calls[c].labels, old.owner)
             marked == Mark(calls[c].labels, old.marked)
             o == [old EXCEPT !.uid = old.uid, !.rv = version + 1, !.notes = @ \cup {c},
                              !.owner = owner, !.marked = marked]
  <2>5. owner \in Owners /\ marked \in BOOLEAN
    BY <2>1, <2>4, Labelled DEF Object
  <2>6. objects' = (objects \ {old}) \cup {o}
    <3>1. o = [seen EXCEPT !.uid = old.uid, !.rv = version', !.notes = @ \cup {c},
                           !.owner = Owner(calls[c].labels, @),
                           !.marked = Mark(calls[c].labels, @)]
      BY <1>3, <2>3
    <3> QED
      BY <1>3, <3>1
  <2> HIDE DEF owner, marked
  <2>7. /\ o \in Object /\ o.kind = old.kind /\ o.name = old.name /\ o.rv = version + 1
        /\ o.uid = old.uid /\ o.notes = old.notes \cup {c}
    <3> DEFINE rv == version + 1
               notes == old.notes \cup {c}
    <3>1. rv \in Nat /\ old.uid \in Nat /\ notes \in SUBSET Clients
      BY <2>4 DEF Object
    <3>2. o = [old EXCEPT !.uid = old.uid, !.rv = rv, !.notes = notes,
                          !.owner = owner, !.marked = marked]
      OBVIOUS
    <3> HIDE DEF o, rv, notes
    <3>3. /\ o \in Object /\ o.kind = old.kind /\ o.name = old.name /\ o.rv = rv
          /\ o.uid = old.uid /\ o.notes = notes
      BY <2>4, <2>5, <3>1, <3>2 DEF Object
    <3> QED
      BY <3>3 DEF rv, notes
  <2> HIDE DEF o
  <2>8. \A a \in acknowledged' : a \in acknowledged \/ (a.uid = o.uid /\ a.note \in o.notes)
    BY <1>3, <2>7
  <2>9. ObjectsEvolve
    BY <1>3, <2>2, <2>4, <2>6, <2>7, <2>8, ReplacementEvolves
  <2> QED
    BY <1>3, <2>9, EndsGoesOn, ToolsKept
<1> QED
  BY <1>1, <1>2, <1>3 DEF UpdateTemplate

LEMMA DeleteTemplateKept ==
    ASSUME ToolsInv, NEW c \in Clients, DeleteTemplate(c)
    PROVE  ToolsInv'
<1>1. CASE Asks(c, "delete_template", "template:write",
                {who \in Users : Restricted(who)}, LocalNames)
  <2>1. \A who \in Callers \ {who \in Users : Restricted(who)} :
            (Auth /\ who = NoClaims) \/ ~Restricted(who)
    BY DEF Callers, Restricted
  <2> QED
    BY <1>1, <2>1, AsksKept
<1>2. CASE /\ At(c, "delete_template", "read")
           /\ LET found == Named("configmap", calls[c].name)
              IN found # {} /\ Reads(c, found, Creator(c, found))
  <2> DEFINE found == Named("configmap", calls[c].name)
  <2>1. calls[c].tool = "delete_template" /\ calls[c].step = "read"
    BY <1>2 DEF At
  <2>2. found # {} /\ found \in SUBSET objects /\ Reads(c, found, Creator(c, found))
    BY <1>2 DEF Named
  <2>3. Creator(c, found) \in BOOLEAN
    BY DEF Creator
  <2>4. Creator(c, found) => Vetted(calls[c].tool, calls[c].who, found)
    BY <2>1, <2>2, CreatorVetted DEF Creating
  <2> HIDE DEF found
  <2> QED
    BY <2>1, <2>2, <2>3, <2>4, ReadsKept
<1>3. CASE At(c, "delete_template", "act") /\ Deletes(c, "configmap")
  BY <1>3, DeletesKept
<1> QED
  BY <1>1, <1>2, <1>3 DEF DeleteTemplate

LEMMA GetTemplateKept ==
    ASSUME ToolsInv, NEW c \in Clients, GetTemplate(c)
    PROVE  ToolsInv'
<1>1. CASE Asks(c, "get_template", "read", Callers, {})
  BY <1>1, AsksKept
<1>2. CASE \E found \in {Named("configmap", calls[c].name), {}} : Shows(c, found)
  BY <1>2, ShowsKept DEF Named
<1> QED
  BY <1>1, <1>2 DEF GetTemplate

LEMMA CreatePodFromTemplateKept ==
    ASSUME ToolsInv, NEW c \in Clients, CreatePodFromTemplate(c)
    PROVE  ToolsInv'
<1>1. CASE Asks(c, "create_pod_from_template", "write", Callers, {})
  BY <1>1, AsksKept
<1>2. ASSUME At(c, "create_pod_from_template", "read"),
             NEW found \in {Named("configmap", calls[c].name), {}},
             Reads(c, found, found # {} \/ LocalTemplate(calls[c].name))
      PROVE  ToolsInv'
  <2> DEFINE permitted == found # {} \/ LocalTemplate(calls[c].name)
  <2>1. found \in SUBSET objects /\ permitted \in BOOLEAN
    BY DEF Named
  <2>2. calls[c].step = "read" /\ Vetted(calls[c].tool, calls[c].who, found)
    BY <1>2 DEF At, Vetted, Creating
  <2> QED
    BY <1>2, <2>1, <2>2, ReadsKept
<1>3. CASE At(c, "create_pod_from_template", "act")
           /\ Creates(c, "pod", Owner(calls[c].labels, Unset), Mark(calls[c].labels, FALSE))
  <2>1. calls[c].step = "act"
    BY <1>3 DEF At
  <2>2. Owner(calls[c].labels, Unset) \in Owners /\ Mark(calls[c].labels, FALSE) \in BOOLEAN
    BY <2>1, Labelled DEF Owners
  <2> QED
    BY <1>3, <2>1, <2>2, CreatesKept
<1> QED
  BY <1>1, <1>2, <1>3 DEF CreatePodFromTemplate

LEMMA CreatePodKept ==
    ASSUME ToolsInv, NEW c \in Clients, CreatePod(c)
    PROVE  ToolsInv'
<1>1. CASE Asks(c, "create_pod", "write", {}, {})
  BY <1>1, AsksKept DEF Creating
<1>2. CASE At(c, "create_pod", "act")
           /\ Creates(c, "pod",
                      IF Auth THEN Sub(calls[c].who) ELSE Owner(calls[c].labels, Unset), TRUE)
  <2>1. calls[c].step = "act"
    BY <1>2 DEF At
  <2>2. Owner(calls[c].labels, Unset) \in Owners
    BY <2>1, Labelled DEF Owners
  <2>3. Auth => Sub(calls[c].who) \in Owners
    BY <2>1 DEF ToolsInv, ToolsTypeOK, CallsFilled, Filled, Callers, Sub, Owners
  <2> QED
    BY <1>2, <2>1, <2>2, <2>3, CreatesKept
<1> QED
  BY <1>1, <1>2 DEF CreatePod

\* Whoever is not checked may act on every pod.
LEMMA UncheckedVetted ==
    \A who \in Callers \ Checked :
        (Auth /\ who = NoClaims) \/ (~Restricted(who) /\ ~setup.managedOnly)
BY DEF Checked, Callers, Restricted

LEMMA ChecksPodKept ==
    ASSUME ToolsInv, NEW c \in Clients, NEW tool, ChecksPod(c, tool)
    PROVE  ToolsInv'
<1>1. PICK o \in Named("pod", calls[c].name) : Reads(c, {o}, Permitted(calls[c].who, o))
  BY DEF ChecksPod
<1>2. calls[c].step = "read"
  BY DEF ChecksPod, At
<1>3. {o} \in SUBSET objects /\ Permitted(calls[c].who, o) \in BOOLEAN
  BY DEF Named, Permitted
<1>4. Permitted(calls[c].who, o) => Vetted(calls[c].tool, calls[c].who, {o})
  BY DEF Vetted, Own, Permitted
<1> QED
  BY <1>1, <1>2, <1>3, <1>4, ReadsKept

LEMMA DeletePodKept ==
    ASSUME ToolsInv, NEW c \in Clients, DeletePod(c)
    PROVE  ToolsInv'
<1>1. CASE Asks(c, "delete_pod", "write", Checked, {})
  BY <1>1, UncheckedVetted, AsksKept DEF WorkspaceTools
<1> QED
  BY <1>1, ChecksPodKept, DeletesKept DEF DeletePod

LEMMA PatchPodKept ==
    ASSUME ToolsInv, NEW c \in Clients, PatchPod(c)
    PROVE  ToolsInv'
<1>1. CASE Asks(c, "patch_pod", "write", Checked, {})
  BY <1>1, UncheckedVetted, AsksKept DEF WorkspaceTools
<1>2. ASSUME At(c, "patch_pod", "act"), NEW old \in Named("pod", calls[c].name),
             version' = version + 1,
             objects' = (objects \ {old}) \cup
                   {[old EXCEPT !.rv = version', !.notes = @ \cup {c},
                                !.owner = Owner(calls[c].labels, @),
                                !.marked = Mark(calls[c].labels, @)]},
             Ends(c), UNCHANGED <<setup, left, acknowledged>>
      PROVE  ToolsInv'
  <2>1. calls[c].step = "act"
    BY <1>2 DEF At
  <2>2. old \in objects
    BY DEF Named
  <2>3. old \in Object /\ version \in Nat /\ ToolsTypeOK
    BY <2>2 DEF ToolsInv, ToolsTypeOK, WellFormed
  <2> DEFINE owner == Owner(calls[c].labels, old.owner)
             marked == Mark(calls[c].labels, old.marked)
             o == [old EXCEPT !.rv = version + 1, !.notes = @ \cup {c},
                              !.owner = owner, !.marked = marked]
  <2>4. owner \in Owners /\ marked \in BOOLEAN
    BY <2>1, <2>3, Labelled DEF Object
  <2>5. objects' = (objects \ {old}) \cup {o}
    BY <1>2
  <2> HIDE DEF owner, marked
  <2>6. /\ o \in Object /\ o.kind = old.kind /\ o.name = old.name /\ o.rv = version + 1
        /\ o.uid = old.uid /\ o.notes = old.notes \cup {c}
    <3> DEFINE rv == version + 1
               notes == old.notes \cup {c}
    <3>1. rv \in Nat /\ old.uid \in Nat /\ notes \in SUBSET Clients
      BY <2>3 DEF Object
    <3>2. o = [old EXCEPT !.uid = old.uid, !.rv = rv, !.notes = notes,
                          !.owner = owner, !.marked = marked]
      BY <2>3 DEF Object
    <3> HIDE DEF o, rv, notes
    <3>3. /\ o \in Object /\ o.kind = old.kind /\ o.name = old.name /\ o.rv = rv
          /\ o.uid = old.uid /\ o.notes = notes
      BY <2>3, <2>4, <3>1, <3>2 DEF Object
    <3> QED
      BY <3>3 DEF rv, notes
  <2> HIDE DEF o
  <2>7. ObjectsEvolve
    BY <1>2, <2>2, <2>3, <2>5, <2>6, ReplacementEvolves
  <2> QED
    BY <1>2, <2>7, EndsGoesOn, ToolsKept
<1> QED
  BY <1>1, <1>2, ChecksPodKept DEF PatchPod

LEMMA GetPodKept ==
    ASSUME ToolsInv, NEW c \in Clients, GetPod(c)
    PROVE  ToolsInv'
<1>1. CASE Asks(c, "get_pod", "read", Callers, {})
  BY <1>1, AsksKept
<1>2. ASSUME At(c, "get_pod", "read"), NEW o \in Named("pod", calls[c].name), Shows(c, {o})
      PROVE  ToolsInv'
  BY <1>2, ShowsKept DEF Named
<1>3. ASSUME At(c, "get_pod", "read"), Reads(c, {}, FALSE) PROVE ToolsInv'
  BY <1>3, ReadsKept DEF At
<1> QED
  BY <1>1, <1>2, <1>3 DEF GetPod

LEMMA GetPodLogsKept ==
    ASSUME ToolsInv, NEW c \in Clients, GetPodLogs(c)
    PROVE  ToolsInv'
<1>1. CASE Asks(c, "get_pod_logs", "read", Checked, {})
  BY <1>1, UncheckedVetted, AsksKept DEF WorkspaceTools
<1>2. CASE Asks(c, "get_pod_logs", "read", Callers, {})
  BY <1>2, AsksKept
<1>3. CASE Shows(c, Named("pod", calls[c].name))
  BY <1>3, ShowsKept DEF Named
<1> QED
  BY <1>1, <1>2, <1>3, ChecksPodKept DEF GetPodLogs

LEMMA ListPodsKept ==
    ASSUME ToolsInv, NEW c \in Clients, ListPods(c)
    PROVE  ToolsInv'
<1> DEFINE listed == {o \in objects : o.kind = "pod" /\ Permitted(calls[c].who, o)}
<1>1. CASE Asks(c, "list_pods", "read", Callers, {})
  BY <1>1, AsksKept
<1>2. CASE At(c, "list_pods", "read") /\ Reads(c, listed, TRUE)
  <2>1. calls[c].tool = "list_pods" /\ calls[c].step = "read" /\ listed \in SUBSET objects
    BY <1>2 DEF At
  <2>2. Vetted("list_pods", calls[c].who, listed)
    BY DEF Vetted, Own, Permitted
  <2> HIDE DEF listed
  <2> QED
    BY <1>2, <2>1, <2>2, ReadsKept
<1>3. CASE Shows(c, listed)
  BY <1>3, ShowsKept
<1>4. CASE Shows(c, calls[c].seen)
  BY <1>4, ShowsKept
<1> QED
  BY <1>1, <1>2, <1>3, <1>4 DEF ListPods

LEMMA FindsWorkspaceKept ==
    ASSUME ToolsInv, NEW c \in Clients, NEW tool \in WorkspaceTools, FindsWorkspace(c, tool)
    PROVE  ToolsInv'
<1> DEFINE found == WorkspacePods(calls[c].who, calls[c].name)
<1>1. /\ calls[c].tool = tool /\ calls[c].step = "read"
      /\ found # {} /\ Reads(c, found, TRUE)
  BY DEF FindsWorkspace, At
<1>2. found \in SUBSET objects
  BY DEF WorkspacePods, Named
<1>3. Vetted(tool, calls[c].who, found)
  BY <1>1 DEF Vetted, Own, WorkspacePods
<1> HIDE DEF found
<1> QED
  BY <1>1, <1>2, <1>3, ReadsKept

LEMMA WorkspaceToolsKept ==
    ASSUME ToolsInv, NEW c \in Clients, GetWorkspaceEvents(c) \/ RunAgentInWorkspace(c)
    PROVE  ToolsInv'
<1>1. CASE \/ Asks(c, "get_workspace_events", "read", Callers, {})
           \/ Asks(c, "run_agent_in_workspace", "workspace:write", Callers, {})
  BY <1>1, AsksKept
<1>2. CASE Shows(c, Named("pod", calls[c].name))
  BY <1>2, ShowsKept DEF Named
<1> QED
  BY <1>1, <1>2, FindsWorkspaceKept DEF GetWorkspaceEvents, RunAgentInWorkspace, WorkspaceTools

LEMMA ToolStepKept ==
    ASSUME ToolsInv, NEW c \in Clients, ToolStep(c)
    PROVE  ToolsInv'
BY CreateTemplateKept, UpdateTemplateKept, DeleteTemplateKept, GetTemplateKept,
   CreatePodFromTemplateKept, CreatePodKept, DeletePodKept, PatchPodKept, GetPodKept,
   GetPodLogsKept, ListPodsKept, WorkspaceToolsKept, CallFailsKept DEF ToolStep

-----------------------------------------------------------------------------
(* What holds between the steps of the page *)

Maybe == Tokens \cup {NoToken}

PageFields == {"saved", "active", "bound", "live", "ready", "due", "session", "ns", "auto",
               "admin", "templates", "workspaces"}

\* callServerTool is live only for the token that is active, and one is needed to get there.
PageOK(required, page, last) ==
    /\ PageFields \subseteq DOMAIN page
    /\ page.saved \in Maybe /\ page.active \in Maybe /\ page.bound \in Maybe
    /\ page.session \in 0..last
    /\ page.live \in BOOLEAN
    /\ page.live => page.bound = page.active /\ (required => page.active # NoToken)

ConnectionSteps == {"sent", "reviewing", "opened", "refused", "unauthorized"}

Connection == [step : ConnectionSteps, token : Maybe, live : BOOLEAN, session : Nat,
               fresh : Maybe]

\* A connection was opened with a token where one is needed; the live one with the active one.
ConnectionOK(required, c, active, last) ==
    \/ c = Off
    \/ /\ c \in Connection /\ c.session \in 0..last
       /\ required => c.token # NoToken
       /\ c.live => c.token = active

ConnectionsOK(required, inits, active, last) ==
    /\ DOMAIN inits = Connections
    /\ \A i \in Connections : ConnectionOK(required, inits[i], active, last)

RefreshFields == {"step", "phase", "active", "ns", "bound", "live", "token", "session",
                  "status", "content", "fresh"}

Steps == Actions \cup {"capabilities", "namespace", "templates", "workspaces"}

\* The function that a live call was made with is that of the active token.
Carries(required, r, active) ==
    /\ RefreshFields \subseteq DOMAIN r
    /\ r.active \in Maybe /\ r.live \in BOOLEAN
    /\ r.live => r.bound = active /\ (required => active # NoToken)

RefreshOK(required, r, active, last) ==
    \/ r = Off
    \/ /\ Carries(required, r, active)
       /\ r.step \in Steps /\ r.phase \in {"sent", "answered"}
       /\ r.token \in Maybe /\ r.fresh \in Maybe
       /\ r.session \in 0..last

RefreshesOK(required, calling, active, last) ==
    /\ DOMAIN calling = Slots
    /\ \A s \in Slots : RefreshOK(required, calling[s], active, last)

BrowserOK(required, page, calling, inits, last) ==
    /\ PageOK(required, page, last)
    /\ RefreshesOK(required, calling, page.active, last)
    /\ ConnectionsOK(required, inits, page.active, last)

PageInv ==
    /\ issued \in Nat /\ SessionsTypeOK
    /\ BrowserOK(Auth, ui, refreshes, connections, issued)

CookieOK == cookie \in Maybe

-----------------------------------------------------------------------------

LEMMA OffFacts == Off.step = "off" /\ DOMAIN Off = {"step"}
BY DEF Off

\* Sessions are only added.
LEMMA BrowserStays ==
    ASSUME NEW required, NEW page, NEW calling, NEW inits, NEW last \in Nat, NEW next \in Nat,
           last <= next, BrowserOK(required, page, calling, inits, last)
    PROVE  BrowserOK(required, page, calling, inits, next)
<1>1. \A n \in 0..last : n \in 0..next
  OBVIOUS
<1> QED
  BY <1>1 DEF BrowserOK, PageOK, RefreshesOK, RefreshOK, ConnectionsOK, ConnectionOK

LEMMA ConnectingOK ==
    ASSUME NEW inits, NEW active, NEW token \in Maybe, NEW last \in Nat,
           ConnectionsOK(Auth, inits, active, last)
    PROVE  ConnectionsOK(Auth, Connecting(inits, token), token, last)
<1> DEFINE free == {i \in Connections : inits[i].step = "off"}
           cleaned == [i \in Connections |->
                          IF inits[i].step = "off" THEN Off ELSE [inits[i] EXCEPT !.live = FALSE]]
           first == CHOOSE i \in free : \A j \in free : i <= j
           c == Initializing(token)
<1>1. ASSUME NEW i \in Connections PROVE ConnectionOK(Auth, cleaned[i], token, last)
  <2>1. CASE inits[i].step = "off"
    BY <2>1 DEF ConnectionOK
  <2>2. CASE inits[i].step # "off"
    <3> DEFINE d == [inits[i] EXCEPT !.live = FALSE]
    <3>1. /\ inits[i] \in Connection /\ inits[i].session \in 0..last
          /\ Auth => inits[i].token # NoToken
      BY <2>2, OffFacts DEF ConnectionsOK, ConnectionOK
    <3>2. /\ d \in Connection /\ d.live = FALSE /\ d.token = inits[i].token
          /\ d.session = inits[i].session
      BY <3>1 DEF Connection
    <3>3. cleaned[i] = d
      BY <2>2
    <3> HIDE DEF d
    <3> QED
      BY <3>1, <3>2, <3>3 DEF ConnectionOK
  <2> QED
    BY <2>1, <2>2
<1>2. DOMAIN cleaned = Connections
  OBVIOUS
<1> HIDE DEF cleaned
<1>3. CASE ~CanConnect(token)
  <2>1. Connecting(inits, token) = cleaned
    BY <1>3 DEF Connecting, cleaned
  <2> QED
    BY <1>1, <1>2, <2>1 DEF ConnectionsOK
<1>4. CASE CanConnect(token)
  <2>1. Connecting(inits, token) = [cleaned EXCEPT ![first] = c]
    BY <1>4 DEF Connecting, cleaned
  <2>2. ConnectionOK(Auth, c, token, last)
    <3>1. c \in Connection /\ c.session \in 0..last /\ c.token = token
      BY DEF Connection, ConnectionSteps, Initializing, NoSession, Maybe
    <3>2. Auth => token # NoToken
      BY <1>4 DEF CanConnect, Required
    <3> QED
      BY <3>1, <3>2 DEF ConnectionOK
  <2> HIDE DEF c, first
  <2>3. \A i \in Connections : [cleaned EXCEPT ![first] = c][i] \in {cleaned[i], c}
    BY <1>2
  <2>4. DOMAIN [cleaned EXCEPT ![first] = c] = Connections
    BY <1>2
  <2> QED
    BY <1>1, <2>1, <2>2, <2>3, <2>4 DEF ConnectionsOK
<1> QED
  BY <1>3, <1>4

LEMMA NewPageOK ==
    ASSUME NEW token \in Maybe, NEW auto, NEW last \in Nat
    PROVE  BrowserOK(Auth, Page(token, auto), NoRefreshes,
                     Connecting([i \in Connections |-> Off], token), last)
<1>1. PageOK(Auth, Page(token, auto), last) /\ Page(token, auto).active = token
  BY DEF PageOK, Page, PageFields, NoSession, Maybe
<1>2. RefreshesOK(Auth, NoRefreshes, token, last)
  BY DEF RefreshesOK, NoRefreshes, RefreshOK
<1>3. ConnectionsOK(Auth, [i \in Connections |-> Off], token, last)
  BY DEF ConnectionsOK, ConnectionOK
<1>4. ConnectionsOK(Auth, Connecting([i \in Connections |-> Off], token), token, last)
  BY <1>3, ConnectingOK
<1> QED
  BY <1>1, <1>2, <1>4 DEF BrowserOK

LEMMA OpenedOK ==
    ASSUME NEW token \in Maybe, NEW auto, NEW last \in Nat, Opened(token, auto)
    PROVE  BrowserOK(Auth, ui', refreshes', connections', last)
BY NewPageOK DEF Opened

LEMMA CleanedOK ==
    ASSUME NEW calling, NEW active, NEW token, NEW last,
           RefreshesOK(Auth, calling, active, last)
    PROVE  RefreshesOK(Auth, Cleaned(calling), token, last)
<1> SUFFICES ASSUME NEW s \in Slots
             PROVE  RefreshOK(Auth, IF calling[s].step = "off" THEN Off
                                    ELSE [calling[s] EXCEPT !.live = FALSE], token, last)
  BY DEF RefreshesOK, Cleaned
<1>1. CASE calling[s].step = "off"
  BY <1>1 DEF RefreshOK
<1>2. CASE calling[s].step # "off"
  <2> DEFINE d == [calling[s] EXCEPT !.live = FALSE]
  <2>1. RefreshOK(Auth, calling[s], active, last) /\ calling[s] # Off
    BY <1>2, OffFacts DEF RefreshesOK
  <2>2. RefreshFields \subseteq DOMAIN calling[s]
    BY <2>1 DEF RefreshOK, Carries
  <2>3. /\ d.live = FALSE /\ d.bound = calling[s].bound
        /\ d.active = calling[s].active /\ d.step = calling[s].step
        /\ d.phase = calling[s].phase /\ d.token = calling[s].token
        /\ d.fresh = calling[s].fresh /\ d.session = calling[s].session
        /\ DOMAIN d = DOMAIN calling[s]
    BY <2>2 DEF RefreshFields
  <2> HIDE DEF d
  <2>4. RefreshOK(Auth, d, token, last)
    BY <2>1, <2>3 DEF RefreshOK, Carries
  <2> QED
    BY <1>2, <2>4 DEF d
<1> QED
  BY <1>1, <1>2

LEMMA ActivatesOK ==
    ASSUME NEW page, NEW calling, NEW inits, NEW token \in Maybe, NEW last \in Nat,
           BrowserOK(Auth, page, calling, inits, last), Activates(page, calling, inits, token)
    PROVE  BrowserOK(Auth, ui', refreshes', connections', last)
<1>1. CASE token = page.active
  BY <1>1 DEF Activates
<1>2. CASE token # page.active
  <2> DEFINE next == [page EXCEPT !.active = token, !.live = FALSE]
  <2>1. /\ ui' = next /\ refreshes' = Cleaned(calling)
        /\ connections' = Connecting(inits, token)
    BY <1>2 DEF Activates
  <2>2. PageFields \subseteq DOMAIN page
    BY DEF BrowserOK, PageOK
  <2>3. /\ DOMAIN next = DOMAIN page /\ next.active = token /\ next.live = FALSE
        /\ next.saved = page.saved /\ next.bound = page.bound /\ next.session = page.session
    BY <2>2 DEF PageFields
  <2> HIDE DEF next
  <2>4. PageOK(Auth, next, last)
    BY <2>3 DEF BrowserOK, PageOK
  <2>5. RefreshesOK(Auth, Cleaned(calling), token, last)
    BY CleanedOK DEF BrowserOK
  <2>6. ConnectionsOK(Auth, Connecting(inits, token), token, last)
    BY ConnectingOK DEF BrowserOK
  <2> QED
    BY <2>1, <2>3, <2>4, <2>5, <2>6 DEF BrowserOK
<1> QED
  BY <1>1, <1>2

LEMMA SentOK ==
    ASSUME NEW page, NEW r, NEW step \in Steps, NEW last,
           PageOK(Auth, page, last), Carries(Auth, r, page.active)
    PROVE  RefreshOK(Auth, Sent(page, r, step), page.active, last)
<1> DEFINE d == [r EXCEPT !.step = step, !.phase = "sent", !.bound = page.bound,
                          !.live = page.live, !.token = Token(page),
                          !.session = page.session, !.status = "none", !.content = {},
                          !.fresh = NoToken]
<1>1. CASE Required /\ Token(page) = NoToken
  BY <1>1 DEF Sent, RefreshOK
<1>2. CASE ~(Required /\ Token(page) = NoToken)
  <2>1. RefreshFields \subseteq DOMAIN r
    BY DEF Carries
  <2>2. /\ DOMAIN d = DOMAIN r /\ d.step = step /\ d.phase = "sent" /\ d.token = Token(page)
        /\ d.session = page.session /\ d.fresh = NoToken /\ d.active = r.active
        /\ d.bound = page.bound /\ d.live = page.live
    BY <2>1 DEF RefreshFields
  <2>3. Token(page) \in Maybe
    BY DEF Token, PageOK
  <2>4. Sent(page, r, step) = d
    BY <1>2 DEF Sent
  <2> HIDE DEF d
  <2>5. Carries(Auth, d, page.active)
    BY <2>1, <2>2 DEF Carries, PageOK
  <2> QED
    BY <2>2, <2>3, <2>4, <2>5 DEF RefreshOK, PageOK, Maybe
<1> QED
  BY <1>1, <1>2

LEMMA ClosureOK ==
    ASSUME NEW page, NEW last, PageOK(Auth, page, last)
    PROVE  Carries(Auth, Closure(page), page.active)
BY DEF Carries, Closure, PageOK, RefreshFields

LEMMA AuthenticatedOK ==
    ASSUME CookieOK, NEW token \in Maybe
    PROVE  Authenticated(token) \in Maybe /\ Fresh(token) \in Maybe
BY DEF CookieOK, Authenticated, Fresh, Maybe

LEMMA AnswerOK ==
    ASSUME CookieOK, NEW r, NEW active, NEW last, NEW status, NEW content,
           RefreshOK(Auth, r, active, last), r.step # "off"
    PROVE  RefreshOK(Auth, Answer(r, status, content), active, last)
<1> DEFINE fresh == IF status \in {"ok", "error"} THEN Fresh(r.token) ELSE NoToken
           d == [r EXCEPT !.phase = "answered", !.status = status, !.content = content,
                          !.fresh = fresh]
<1>1. r # Off
  BY OffFacts
<1>2. RefreshFields \subseteq DOMAIN r
  BY <1>1 DEF RefreshOK, Carries
<1>3. fresh \in Maybe
  BY <1>1, AuthenticatedOK DEF RefreshOK, Maybe
<1>4. Answer(r, status, content) = d
  BY DEF Answer
<1> HIDE DEF fresh
<1>5. /\ DOMAIN d = DOMAIN r /\ d.step = r.step /\ d.phase = "answered" /\ d.token = r.token
      /\ d.session = r.session /\ d.fresh = fresh /\ d.active = r.active
      /\ d.bound = r.bound /\ d.live = r.live
  BY <1>2 DEF RefreshFields
<1> HIDE DEF d
<1>6. Carries(Auth, d, active)
  BY <1>1, <1>5 DEF RefreshOK, Carries
<1> QED
  BY <1>1, <1>3, <1>4, <1>5, <1>6 DEF RefreshOK

-----------------------------------------------------------------------------
(* The steps of the page and of the server keep it *)

LEMMA PageStep ==
    ASSUME PageInv, setup' = setup, UNCHANGED sessionVars,
           BrowserOK(Auth, ui', refreshes', connections', issued)
    PROVE  PageInv'
<1>1. Auth' = Auth
  BY DEF Auth
<1>2. issued' = issued /\ SessionsTypeOK'
  BY DEF PageInv, SessionsTypeOK, sessionVars
<1> QED
  BY <1>1, <1>2 DEF PageInv

\* A session is opened for a connection.
LEMMA OpensOK ==
    ASSUME PageInv, NEW i \in Connections, NEW tools \in SUBSET Resources, NEW fresh \in Maybe,
           connections[i].step # "off", Opens(tools), report' \in (SUBSET Resources) \cup {NoReport},
           connections' = [connections EXCEPT ![i].step = "opened", ![i].session = issued',
                                              ![i].fresh = fresh],
           UNCHANGED <<setup, ui, refreshes>>
    PROVE  PageInv'
<1> DEFINE n == issued'
           c == [connections[i] EXCEPT !.step = "opened", !.session = n, !.fresh = fresh]
<1>1. /\ issued \in Nat /\ issued' = issued + 1 /\ Auth' = Auth
      /\ sessions' = sessions \cup {[id |-> issued + 1, tools |-> tools]}
  BY DEF PageInv, Opens, Auth
<1>2. SessionsTypeOK'
  <2>1. \A s \in sessions : s.id \in 1..issued
    BY DEF PageInv, SessionsTypeOK
  <2>2. \A s \in sessions' : s.id \in 1..issued' /\ s.tools \subseteq Resources
    BY <1>1, <2>1 DEF PageInv, SessionsTypeOK
  <2>3. ASSUME NEW s \in sessions', NEW t \in sessions', s.id = t.id PROVE s = t
    BY <1>1, <2>1, <2>3 DEF PageInv, SessionsTypeOK
  <2> QED
    BY <2>2, <2>3 DEF SessionsTypeOK
<1>3. BrowserOK(Auth, ui, refreshes, connections, issued')
  <2>1. issued' \in Nat /\ issued <= issued'
    BY <1>1
  <2> QED
    BY <2>1, BrowserStays DEF PageInv
<1>4. connections[i] \in Connection /\ ConnectionOK(Auth, connections[i], ui.active, issued)
  BY OffFacts DEF PageInv, BrowserOK, ConnectionsOK, ConnectionOK
<1>5. connections[i] # Off
  BY OffFacts
<1>6. /\ c \in Connection /\ c.session = issued' /\ c.live = connections[i].live
      /\ c.token = connections[i].token
  <2>1. n \in Nat
    BY <1>1
  <2> HIDE DEF n
  <2>2. /\ c \in Connection /\ c.session = n /\ c.live = connections[i].live
        /\ c.token = connections[i].token
    BY <1>4, <2>1 DEF Connection, ConnectionSteps
  <2> HIDE DEF c
  <2> QED
    BY <2>2 DEF n
<1>7. connections' = [connections EXCEPT ![i] = c] /\ DOMAIN connections = Connections
  BY DEF PageInv, BrowserOK, ConnectionsOK
<1> HIDE DEF c, n
<1>8. issued' \in 0..issued'
  BY <1>1
<1>9. ConnectionOK(Auth, c, ui.active, issued')
  BY <1>4, <1>5, <1>6, <1>8 DEF ConnectionOK
<1>10. ConnectionsOK(Auth, connections', ui.active, issued')
  BY <1>3, <1>7, <1>9 DEF BrowserOK, ConnectionsOK
<1>11. BrowserOK(Auth, ui, refreshes, connections', issued')
  BY <1>3, <1>10 DEF BrowserOK
<1> QED
  BY <1>1, <1>2, <1>11 DEF PageInv

\* A connection that goes on stays what it is otherwise.
LEMMA StepOK ==
    ASSUME NEW c, NEW step \in ConnectionSteps, NEW fresh \in Maybe, NEW active, NEW last,
           ConnectionOK(Auth, c, active, last), c.step # "off"
    PROVE  ConnectionOK(Auth, [c EXCEPT !.step = step, !.fresh = fresh], active, last)
<1> DEFINE d == [c EXCEPT !.step = step, !.fresh = fresh]
<1>1. c # Off /\ c \in Connection
  BY OffFacts DEF ConnectionOK
<1>2. d \in Connection /\ d.session = c.session /\ d.live = c.live /\ d.token = c.token
  BY <1>1 DEF Connection
<1> HIDE DEF d
<1>3. ConnectionOK(Auth, d, active, last)
  BY <1>1, <1>2 DEF ConnectionOK
<1> QED
  BY <1>3 DEF d

LEMMA ConnectionChanges ==
    ASSUME PageInv, NEW i \in Connections, NEW c, ConnectionOK(Auth, c, ui.active, issued)
    PROVE  BrowserOK(Auth, ui, refreshes, [connections EXCEPT ![i] = c], issued)
BY DEF PageInv, BrowserOK, ConnectionsOK

LEMMA RefreshChanges ==
    ASSUME NEW page, NEW calling, NEW inits, NEW last, NEW s \in Slots, NEW r,
           BrowserOK(Auth, page, calling, inits, last), RefreshOK(Auth, r, page.active, last)
    PROVE  BrowserOK(Auth, page, [calling EXCEPT ![s] = r], inits, last)
BY DEF BrowserOK, RefreshesOK

\* Where nothing is said of the renewed token, it stays.
LEMMA StepOnlyOK ==
    ASSUME NEW c, NEW step \in ConnectionSteps, NEW active, NEW last,
           ConnectionOK(Auth, c, active, last), c.step # "off"
    PROVE  ConnectionOK(Auth, [c EXCEPT !.step = step], active, last)
<1> DEFINE d == [c EXCEPT !.step = step]
<1>1. c # Off /\ c \in Connection
  BY OffFacts DEF ConnectionOK
<1>2. d \in Connection /\ d.session = c.session /\ d.live = c.live /\ d.token = c.token
  BY <1>1 DEF Connection
<1> HIDE DEF d
<1>3. ConnectionOK(Auth, d, active, last)
  BY <1>1, <1>2 DEF ConnectionOK
<1> QED
  BY <1>3 DEF d

LEMMA InitializeArrivesOK ==
    ASSUME PageInv, CookieOK, NEW i \in Connections, InitializeArrives(i)
    PROVE  PageInv'
<1> DEFINE fresh == Fresh(connections[i].token)
<1>1. connections[i].step = "sent" /\ ConnectionOK(Auth, connections[i], ui.active, issued)
  BY DEF InitializeArrives, PageInv, BrowserOK, ConnectionsOK
<1>2. fresh \in Maybe
  BY <1>1, OffFacts, AuthenticatedOK DEF ConnectionOK, Connection
<1> HIDE DEF fresh
<1>3. setup' = setup /\ ui' = ui /\ refreshes' = refreshes
  BY DEF InitializeArrives, toolVars
<1>4. ASSUME NEW c, ConnectionOK(Auth, c, ui.active, issued),
             connections' = [connections EXCEPT ![i] = c], UNCHANGED sessionVars
      PROVE  PageInv'
  <2>1. BrowserOK(Auth, ui', refreshes', connections', issued)
    BY <1>3, <1>4, ConnectionChanges
  <2> QED
    BY <1>3, <1>4, <2>1, PageStep
<1>5. CASE /\ connections' = [connections EXCEPT ![i].step = "unauthorized"]
           /\ UNCHANGED sessionVars
  <2>1. ConnectionOK(Auth, [connections[i] EXCEPT !.step = "unauthorized"], ui.active, issued)
    BY <1>1, StepOnlyOK DEF ConnectionSteps
  <2> QED
    BY <1>4, <1>5, <2>1
<1>6. CASE /\ connections' = [connections EXCEPT ![i].step = "reviewing", ![i].fresh = fresh]
           /\ UNCHANGED sessionVars
  <2> DEFINE c == [connections[i] EXCEPT !.step = "reviewing", !.fresh = fresh]
  <2>1. ConnectionOK(Auth, c, ui.active, issued)
    BY <1>1, <1>2, StepOK DEF ConnectionSteps
  <2>2. connections' = [connections EXCEPT ![i] = c]
    BY <1>1, <1>6 DEF PageInv, BrowserOK, ConnectionsOK
  <2> HIDE DEF c
  <2> QED
    BY <1>4, <1>6, <2>1, <2>2
<1>7. ASSUME report # NoReport, Opens(report), UNCHANGED report,
             connections' = [connections EXCEPT ![i].step = "opened", ![i].session = issued',
                                                ![i].fresh = fresh]
      PROVE  PageInv'
  <2>1. report \in SUBSET Resources
    BY <1>7 DEF PageInv, SessionsTypeOK
  <2> QED
    BY <1>1, <1>2, <1>3, <1>7, <2>1, OpensOK
<1> QED
  BY <1>5, <1>6, <1>7 DEF InitializeArrives, fresh

LEMMA ReviewsEndOK ==
    ASSUME PageInv, NEW i \in Connections, ReviewsEnd(i)
    PROVE  PageInv'
<1>1. PICK r \in SUBSET Resources : Reviewed(r) /\ Opens(r)
  BY DEF ReviewsEnd
<1>2. report' \in (SUBSET Resources) \cup {NoReport}
  BY <1>1 DEF Reviewed
<1> DEFINE c == connections[i]
<1>3. c \in Connection /\ c.step # "off"
  BY OffFacts DEF ReviewsEnd, PageInv, BrowserOK, ConnectionsOK, ConnectionOK
<1>4. c.fresh \in Maybe
  BY <1>3 DEF Connection
<1>5. \A n : [c EXCEPT !.step = "opened", !.session = n]
               = [c EXCEPT !.step = "opened", !.session = n, !.fresh = c.fresh]
  BY <1>3 DEF Connection
<1>6. connections' = [connections EXCEPT ![i] = [c EXCEPT !.step = "opened", !.session = issued']]
  BY DEF ReviewsEnd
<1>7. connections' = [connections EXCEPT ![i] =
                         [c EXCEPT !.step = "opened", !.session = issued', !.fresh = c.fresh]]
  BY <1>5, <1>6
<1>8. UNCHANGED <<setup, ui, refreshes>>
  BY DEF ReviewsEnd, toolVars
<1> HIDE DEF c
<1> QED
  BY <1>1, <1>2, <1>3, <1>4, <1>7, <1>8, OpensOK DEF c

LEMMA SettledOK ==
    ASSUME PageInv, CookieOK, NEW s \in Slots, NEW status, NEW content,
           refreshes[s].step # "off",
           setup' = setup, refreshes' = [refreshes EXCEPT ![s] = Answer(@, status, content)],
           UNCHANGED <<sessionVars, ui, connections>>
    PROVE  PageInv'
<1>1. RefreshOK(Auth, Answer(refreshes[s], status, content), ui.active, issued)
  BY AnswerOK DEF PageInv, BrowserOK, RefreshesOK
<1>2. BrowserOK(Auth, ui, refreshes', connections, issued)
  BY <1>1, RefreshChanges DEF PageInv
<1> QED
  BY <1>2, PageStep

LEMMA CallArrivesOK ==
    ASSUME PageInv, CookieOK, NEW s \in Slots, CallArrives(s)
    PROVE  PageInv'
<1>1. refreshes[s].step # "off" /\ UNCHANGED <<sessionVars, ui, connections>>
  BY DEF CallArrives
<1>2. \E status, content :
         setup' = setup /\ refreshes' = [refreshes EXCEPT ![s] = Answer(@, status, content)]
  BY DEF CallArrives, Settled
<1> QED
  BY <1>1, <1>2, SettledOK

LEMMA CallFailsOnceOK ==
    ASSUME PageInv, CookieOK, NEW s \in Slots, CallFailsOnce(s)
    PROVE  PageInv'
<1>1. refreshes[s].step # "off" /\ UNCHANGED <<sessionVars, ui, connections>>
  BY DEF CallFailsOnce
<1>2. \E status, content :
         setup' = setup /\ refreshes' = [refreshes EXCEPT ![s] = Answer(@, status, content)]
  BY DEF CallFailsOnce, Settled
<1> QED
  BY <1>1, <1>2, SettledOK

LEMMA RestartsOK ==
    ASSUME PageInv, CookieOK, Restarts
    PROVE  PageInv'
<1>1. /\ setup' = setup /\ ui' = ui /\ issued' = issued
      /\ sessions' = {} /\ report' = NoReport /\ Auth' = Auth
  BY DEF Restarts, SessionsLost, Auth
<1>2. SessionsTypeOK'
  BY <1>1 DEF SessionsTypeOK
<1>3. ConnectionsOK(Auth, connections', ui.active, issued)
  <2> SUFFICES ASSUME NEW i \in Connections
               PROVE  ConnectionOK(Auth, connections'[i], ui.active, issued)
    BY DEF Restarts, ConnectionsOK
  <2>1. ConnectionOK(Auth, connections[i], ui.active, issued)
    BY DEF PageInv, BrowserOK, ConnectionsOK
  <2>2. CASE connections[i].step \in {"sent", "reviewing"}
    <3>1. ConnectionOK(Auth, [connections[i] EXCEPT !.step = "refused"], ui.active, issued)
      BY <2>1, <2>2, StepOnlyOK DEF ConnectionSteps
    <3>2. connections'[i] = [connections[i] EXCEPT !.step = "refused"]
      BY <2>2 DEF Restarts
    <3> QED
      BY <3>1, <3>2
  <2>3. CASE connections[i].step \notin {"sent", "reviewing"}
    BY <2>1, <2>3 DEF Restarts
  <2> QED
    BY <2>2, <2>3
<1>4. RefreshesOK(Auth, refreshes', ui.active, issued)
  <2> SUFFICES ASSUME NEW s \in Slots
               PROVE  RefreshOK(Auth, refreshes'[s], ui.active, issued)
    BY DEF Restarts, RefreshesOK
  <2>1. RefreshOK(Auth, refreshes[s], ui.active, issued)
    BY DEF PageInv, BrowserOK, RefreshesOK
  <2>2. CASE refreshes[s].step # "off" /\ refreshes[s].phase = "sent"
    <3>1. refreshes'[s] = Answer(refreshes[s], "lost", {})
      BY <2>2 DEF Restarts
    <3> QED
      BY <2>1, <2>2, <3>1, AnswerOK
  <2>3. CASE ~(refreshes[s].step # "off" /\ refreshes[s].phase = "sent")
    BY <2>1, <2>3 DEF Restarts
  <2> QED
    BY <2>2, <2>3
<1>5. BrowserOK(Auth, ui, refreshes', connections', issued)
  BY <1>3, <1>4 DEF PageInv, BrowserOK
<1> QED
  BY <1>1, <1>2, <1>5 DEF PageInv

LEMMA ConnectedOK ==
    ASSUME PageInv, NEW i \in Connections, Connected(i)
    PROVE  PageInv'
<1> DEFINE c == connections[i]
           saved == IF c.fresh # NoToken THEN c.fresh ELSE ui.saved
           page == [ui EXCEPT !.session = c.session, !.bound = c.token, !.live = c.live,
                              !.saved = saved]
           next == IF c.live THEN [page EXCEPT !.ready = TRUE, !.due = ui.due \/ ~ui.ready]
                   ELSE page
<1>1. /\ c.step = "opened" /\ setup' = setup /\ UNCHANGED sessionVars
      /\ ui' = next /\ refreshes' = refreshes
      /\ connections' = [connections EXCEPT ![i] = Off]
  BY DEF Connected, toolVars
<1>2. PageOK(Auth, ui, issued)
  BY DEF PageInv, BrowserOK
<1>3. ConnectionOK(Auth, c, ui.active, issued) /\ c # Off
  BY <1>1, OffFacts DEF PageInv, BrowserOK, ConnectionsOK
<1>4. /\ c.token \in Maybe /\ c.live \in BOOLEAN /\ c.session \in 0..issued
      /\ c.fresh \in Maybe
  BY <1>3 DEF ConnectionOK, Connection
<1>5. saved \in Maybe
  BY <1>2, <1>4 DEF PageOK
<1> HIDE DEF c, saved
<1>6. PageFields \subseteq DOMAIN ui
  BY <1>2 DEF PageOK
<1>7. /\ DOMAIN page = DOMAIN ui /\ page.session = c.session /\ page.bound = c.token
      /\ page.live = c.live /\ page.saved = saved /\ page.active = ui.active
  BY <1>6 DEF PageFields
<1> HIDE DEF page
<1>8. /\ DOMAIN next = DOMAIN ui /\ next.session = c.session /\ next.bound = c.token
      /\ next.live = c.live /\ next.saved = saved /\ next.active = ui.active
  BY <1>6, <1>7 DEF PageFields
<1> HIDE DEF next
<1>9. PageOK(Auth, next, issued)
  BY <1>2, <1>3, <1>4, <1>5, <1>8 DEF PageOK, ConnectionOK
<1>10. ConnectionOK(Auth, Off, ui.active, issued)
  BY DEF ConnectionOK
<1>11. BrowserOK(Auth, ui, refreshes, connections', issued)
  BY <1>1, <1>10, ConnectionChanges
<1>12. BrowserOK(Auth, next, refreshes, connections', issued)
  BY <1>8, <1>9, <1>11 DEF BrowserOK
<1>13. BrowserOK(Auth, ui', refreshes', connections', issued)
  BY <1>1, <1>12
<1> QED
  BY <1>1, <1>13, PageStep

\* A change of the page that keeps what the tokens are about.
LEMMA PageChanges ==
    ASSUME NEW page, NEW next, NEW calling, NEW inits, NEW last,
           BrowserOK(Auth, page, calling, inits, last),
           DOMAIN next = DOMAIN page, next.saved \in Maybe, next.active = page.active,
           next.bound = page.bound, next.session \in 0..last, next.live = page.live
    PROVE  BrowserOK(Auth, next, calling, inits, last)
BY DEF BrowserOK, PageOK

LEMMA Forgets ==
    ASSUME PageInv, NEW token \in Maybe, NEW page, NEW inits,
           ConnectionsOK(Auth, inits, ui.active, issued),
           DOMAIN page = DOMAIN ui, page.saved \in Maybe, page.active = ui.active,
           page.bound = ui.bound, page.session = ui.session, page.live = ui.live,
           Activates(page, refreshes, inits, token), setup' = setup, UNCHANGED sessionVars
    PROVE  PageInv'
<1>1. BrowserOK(Auth, ui, refreshes, inits, issued) /\ issued \in Nat
  BY DEF PageInv, BrowserOK
<1>2. page.session \in 0..issued
  BY <1>1 DEF BrowserOK, PageOK
<1>3. BrowserOK(Auth, page, refreshes, inits, issued)
  BY <1>1, <1>2, PageChanges
<1>4. BrowserOK(Auth, ui', refreshes', connections', issued)
  BY <1>1, <1>3, ActivatesOK
<1> QED
  BY <1>4, PageStep

LEMMA UnsavedFacts ==
    ASSUME PageInv, NEW token \in Maybe
    PROVE  LET page == [ui EXCEPT !.saved = token]
           IN  /\ DOMAIN page = DOMAIN ui /\ page.saved \in Maybe /\ page.active = ui.active
               /\ page.bound = ui.bound /\ page.session = ui.session /\ page.live = ui.live
<1>1. PageFields \subseteq DOMAIN ui
  BY DEF PageInv, BrowserOK, PageOK
<1> QED
  BY <1>1 DEF PageFields

LEMMA ConnectionRefusedOK ==
    ASSUME PageInv, NEW i \in Connections, ConnectionRefused(i)
    PROVE  PageInv'
<1> DEFINE inits == [connections EXCEPT ![i] = Off]
           token == IF connections[i].step = "unauthorized" /\ connections[i].live
                    THEN NoToken ELSE ui.active
           forgetting == [ui EXCEPT !.saved = NoToken]
           page == IF connections[i].step = "unauthorized" THEN forgetting ELSE ui
<1>1. /\ Activates(page, refreshes, inits, token)
      /\ setup' = setup /\ UNCHANGED sessionVars
  BY DEF ConnectionRefused, toolVars
<1>2. ConnectionOK(Auth, Off, ui.active, issued)
  BY DEF ConnectionOK
<1>3. ConnectionsOK(Auth, inits, ui.active, issued)
  BY <1>2, ConnectionChanges DEF BrowserOK
<1>4. token \in Maybe /\ NoToken \in Maybe /\ ui.saved \in Maybe
  BY DEF PageInv, BrowserOK, PageOK, Maybe
<1>5. /\ DOMAIN forgetting = DOMAIN ui /\ forgetting.saved \in Maybe
      /\ forgetting.active = ui.active /\ forgetting.bound = ui.bound
      /\ forgetting.session = ui.session /\ forgetting.live = ui.live
  BY <1>4, UnsavedFacts
<1> HIDE DEF forgetting, inits, token
<1>6. /\ DOMAIN page = DOMAIN ui /\ page.saved \in Maybe /\ page.active = ui.active
      /\ page.bound = ui.bound /\ page.session = ui.session /\ page.live = ui.live
  BY <1>4, <1>5
<1> HIDE DEF page
<1> QED
  BY <1>1, <1>3, <1>4, <1>6, Forgets

LEMMA BeginsOK ==
    ASSUME PageInv, NEW s \in Slots, Begins(s, ui)
    PROVE  PageInv'
<1> DEFINE page == [ui EXCEPT !.due = FALSE]
           r == Sent(ui, Closure(ui), "capabilities")
<1>1. /\ ui' = page /\ refreshes' = [refreshes EXCEPT ![s] = r]
      /\ connections' = connections /\ setup' = setup /\ UNCHANGED sessionVars
  BY DEF Begins, toolVars
<1>2. BrowserOK(Auth, ui, refreshes, connections, issued) /\ PageOK(Auth, ui, issued)
  BY DEF PageInv, BrowserOK
<1>3. Carries(Auth, Closure(ui), ui.active)
  BY <1>2, ClosureOK
<1>4. RefreshOK(Auth, r, ui.active, issued)
  BY <1>2, <1>3, SentOK DEF Steps
<1> HIDE DEF r
<1>5. BrowserOK(Auth, ui, refreshes', connections, issued)
  BY <1>1, <1>2, <1>4, RefreshChanges
<1>6. PageFields \subseteq DOMAIN ui
  BY <1>2 DEF PageOK
<1>7. /\ DOMAIN page = DOMAIN ui /\ page.saved = ui.saved /\ page.active = ui.active
      /\ page.bound = ui.bound /\ page.session = ui.session /\ page.live = ui.live
  BY <1>6 DEF PageFields
<1> HIDE DEF page
<1>8. BrowserOK(Auth, page, refreshes', connections, issued)
  BY <1>2, <1>5, <1>7, PageChanges DEF PageOK
<1>9. BrowserOK(Auth, ui', refreshes', connections', issued)
  BY <1>1, <1>8
<1> QED
  BY <1>1, <1>9, PageStep

LEMMA ClicksOK ==
    ASSUME PageInv, NEW s \in Slots, NEW tool \in Actions, Clicks(s, tool)
    PROVE  PageInv'
<1>1. BrowserOK(Auth, ui, refreshes, connections, issued) /\ PageOK(Auth, ui, issued)
  BY DEF PageInv, BrowserOK
<1>2. Carries(Auth, Closure(ui), ui.active)
  BY <1>1, ClosureOK
<1>3. RefreshOK(Auth, Sent(ui, Closure(ui), tool), ui.active, issued)
  BY <1>1, <1>2, SentOK DEF Steps
<1>4. BrowserOK(Auth, ui, [refreshes EXCEPT ![s] = Sent(ui, Closure(ui), tool)], connections, issued)
  BY <1>1, <1>3, RefreshChanges
<1>5. /\ refreshes' = [refreshes EXCEPT ![s] = Sent(ui, Closure(ui), tool)]
      /\ ui' = ui /\ connections' = connections /\ setup' = setup /\ UNCHANGED sessionVars
  BY DEF Clicks, toolVars
<1>6. BrowserOK(Auth, ui', refreshes', connections', issued)
  BY <1>4, <1>5
<1> QED
  BY <1>5, <1>6, PageStep

\* What an answer shows leaves the tokens and the session alone.
LEMMA ShowingFacts ==
    ASSUME NEW page, NEW r, PageFields \subseteq DOMAIN page
    PROVE  LET next == Showing(page, r)
           IN  /\ DOMAIN next = DOMAIN page /\ next.saved = page.saved
               /\ next.active = page.active /\ next.bound = page.bound
               /\ next.session = page.session /\ next.live = page.live
BY DEF Showing, PageFields

LEMMA ContinuedOK ==
    ASSUME NEW page, NEW r, NEW last,
           PageOK(Auth, page, last), RefreshOK(Auth, r, page.active, last), r.step # "off"
    PROVE  RefreshOK(Auth, Continued(page, r), page.active, last)
<1>1. Carries(Auth, r, page.active) /\ r.step \in Steps
  BY OffFacts DEF RefreshOK
<1>2. RefreshOK(Auth, Off, page.active, last)
  BY DEF RefreshOK
<1>3. \A step \in Steps : RefreshOK(Auth, Sent(page, r, step), page.active, last)
  BY <1>1, SentOK
<1>4. CASE r.step = "workspaces"
  <2>1. r.step \notin Actions
    BY <1>4 DEF Actions
  <2>2. Continued(page, r) = Off
    BY <1>4, <2>1 DEF Continued
  <2> QED
    BY <1>2, <2>2
<1>5. CASE r.step \in Actions
  <2>1. "capabilities" \in Steps /\ r.step # "workspaces"
    BY <1>5 DEF Steps, Actions
  <2>2. Continued(page, r) \in {Sent(page, r, "capabilities"), Off}
    BY <1>5, <2>1 DEF Continued
  <2> QED
    BY <1>2, <1>3, <2>1, <2>2
<1>6. CASE r.step \in {"capabilities", "namespace", "templates"}
  <2>1. Following[r.step] \in Steps /\ r.step # "workspaces" /\ r.step \notin Actions
    BY <1>6 DEF Following, Steps, Actions
  <2>2. Continued(page, r) = Sent(page, r, Following[r.step])
    BY <2>1 DEF Continued
  <2> QED
    BY <1>3, <2>1, <2>2
<1> QED
  BY <1>1, <1>4, <1>5, <1>6 DEF Steps

LEMMA AnswerArrivesOK ==
    ASSUME PageInv, NEW s \in Slots, AnswerArrives(s)
    PROVE  PageInv'
<1> DEFINE r == refreshes[s]
           answered == r.status \in {"ok", "error"}
           saved == IF r.fresh # NoToken THEN r.fresh ELSE ui.saved
           session == IF answered THEN r.session ELSE ui.session
           held == [ui EXCEPT !.saved = saved, !.session = session]
           page == IF r.status = "ok" THEN Showing(held, r) ELSE held
           calling == [refreshes EXCEPT ![s] = IF answered THEN Continued(page, r) ELSE Off]
           token == Replacing(r, ui.active)
<1>1. /\ r.step # "off" /\ setup' = setup /\ UNCHANGED sessionVars
      /\ Activates(page, calling, connections, token)
  BY DEF AnswerArrives, toolVars
<1>2. /\ BrowserOK(Auth, ui, refreshes, connections, issued) /\ PageOK(Auth, ui, issued)
      /\ issued \in Nat
  BY DEF PageInv, BrowserOK
<1>3. RefreshOK(Auth, r, ui.active, issued) /\ r # Off
  BY <1>1, <1>2, OffFacts DEF BrowserOK, RefreshesOK
<1>4. /\ r.fresh \in Maybe /\ r.session \in 0..issued
  BY <1>3 DEF RefreshOK
<1>5. saved \in Maybe /\ session \in 0..issued
  BY <1>2, <1>4 DEF PageOK
<1>6. token \in Maybe
  BY <1>2, <1>4 DEF Replacing, PageOK, Maybe
<1>7. PageFields \subseteq DOMAIN ui
  BY <1>2 DEF PageOK
<1> HIDE DEF saved, session
<1>8. /\ DOMAIN held = DOMAIN ui /\ held.saved = saved /\ held.session = session
      /\ held.active = ui.active /\ held.bound = ui.bound /\ held.live = ui.live
  BY <1>7 DEF PageFields
<1> HIDE DEF held, answered, token
<1>9. /\ DOMAIN page = DOMAIN ui /\ page.saved = saved /\ page.session = session
      /\ page.active = ui.active /\ page.bound = ui.bound /\ page.live = ui.live
  <2>1. /\ DOMAIN Showing(held, r) = DOMAIN held /\ Showing(held, r).saved = held.saved
        /\ Showing(held, r).active = held.active /\ Showing(held, r).bound = held.bound
        /\ Showing(held, r).session = held.session /\ Showing(held, r).live = held.live
    BY <1>7, <1>8, ShowingFacts
  <2> QED
    BY <1>8, <2>1
<1> HIDE DEF page
<1>10. BrowserOK(Auth, page, refreshes, connections, issued)
  BY <1>2, <1>5, <1>9, PageChanges
<1>11. RefreshOK(Auth, Continued(page, r), page.active, issued)
  BY <1>1, <1>3, <1>9, <1>10, ContinuedOK DEF BrowserOK
<1>12. RefreshOK(Auth, IF answered THEN Continued(page, r) ELSE Off, page.active, issued)
  BY <1>9, <1>11 DEF RefreshOK
<1>13. BrowserOK(Auth, page, calling, connections, issued)
  BY <1>10, <1>12, RefreshChanges
<1> HIDE DEF calling, r
<1>14. BrowserOK(Auth, ui', refreshes', connections', issued)
  BY <1>1, <1>2, <1>6, <1>13, ActivatesOK
<1> QED
  BY <1>1, <1>14, PageStep

LEMMA LogoutOK ==
    ASSUME PageInv, Logout
    PROVE  PageInv'
<1> DEFINE page == [ui EXCEPT !.saved = NoToken, !.auto = FALSE, !.admin = FALSE,
                              !.templates = {}, !.workspaces = {}]
<1>1. /\ Activates(page, refreshes, connections, NoToken)
      /\ setup' = setup /\ UNCHANGED sessionVars
  BY DEF Logout, toolVars
<1>2. PageFields \subseteq DOMAIN ui
  BY DEF PageInv, BrowserOK, PageOK
<1>3. /\ DOMAIN page = DOMAIN ui /\ page.saved = NoToken /\ page.active = ui.active
      /\ page.bound = ui.bound /\ page.session = ui.session /\ page.live = ui.live
  BY <1>2 DEF PageFields
<1>4. NoToken \in Maybe /\ ConnectionsOK(Auth, connections, ui.active, issued)
  BY DEF Maybe, PageInv, BrowserOK
<1> HIDE DEF page
<1> QED
  BY <1>1, <1>3, <1>4, Forgets

LEMMA ForgettingOK ==
    ASSUME PageInv, ClearToken \/ ExpiryNoticed
    PROVE  PageInv'
<1> DEFINE page == [ui EXCEPT !.saved = NoToken]
<1>1. /\ Activates(page, refreshes, connections, NoToken)
      /\ setup' = setup /\ UNCHANGED sessionVars
  BY DEF ClearToken, ExpiryNoticed, toolVars
<1>2. NoToken \in Maybe /\ ConnectionsOK(Auth, connections, ui.active, issued)
  BY DEF Maybe, PageInv, BrowserOK
<1>3. /\ DOMAIN page = DOMAIN ui /\ page.saved \in Maybe /\ page.active = ui.active
      /\ page.bound = ui.bound /\ page.session = ui.session /\ page.live = ui.live
  BY <1>2, UnsavedFacts
<1> HIDE DEF page
<1> QED
  BY <1>1, <1>2, <1>3, Forgets

LEMMA PasteTokenOK ==
    ASSUME PageInv, setup \in Setups, PasteToken
    PROVE  PageInv'
<1>1. PICK token \in setup.tokens \ expired, auto \in {TRUE, ui.auto} :
          Activates([ui EXCEPT !.saved = token, !.auto = auto], refreshes, connections, token)
  BY DEF PasteToken
<1> DEFINE page == [ui EXCEPT !.saved = token, !.auto = auto]
<1>2. token \in Maybe
  BY DashboardAssumption DEF Maybe
<1>3. PageFields \subseteq DOMAIN ui /\ ConnectionsOK(Auth, connections, ui.active, issued)
  BY DEF PageInv, BrowserOK, PageOK
<1>4. /\ DOMAIN page = DOMAIN ui /\ page.saved = token /\ page.active = ui.active
      /\ page.bound = ui.bound /\ page.session = ui.session /\ page.live = ui.live
  BY <1>3 DEF PageFields
<1>5. setup' = setup /\ UNCHANGED sessionVars /\ Activates(page, refreshes, connections, token)
  BY <1>1 DEF PasteToken, toolVars
<1> HIDE DEF page
<1> QED
  BY <1>2, <1>3, <1>4, <1>5, Forgets

LEMMA LoginOK ==
    ASSUME PageInv, setup \in Setups, Login \/ Reload
    PROVE  PageInv'
<1>1. setup' = setup /\ UNCHANGED sessionVars /\ issued \in Nat /\ ui.saved \in Maybe
  BY DEF Login, Reload, toolVars, PageInv, BrowserOK, PageOK
<1>2. setup.tokens \subseteq Maybe
  BY DashboardAssumption DEF Maybe
<1>3. \E auto : \E token \in Maybe : Opened(token, auto)
  BY <1>1, <1>2 DEF Login, Reload
<1>4. BrowserOK(Auth, ui', refreshes', connections', issued)
  BY <1>1, <1>3, OpenedOK
<1> QED
  BY <1>1, <1>4, PageStep

LEMMA PageStays ==
    ASSUME PageInv, UNCHANGED <<setup, sessionVars, ui, refreshes, connections>>
    PROVE  PageInv'
<1>1. BrowserOK(Auth, ui', refreshes', connections', issued)
  BY DEF PageInv
<1> QED
  BY <1>1, PageStep

LEMMA CookieKept ==
    ASSUME CookieOK, [Next]_vars
    PROVE  CookieOK'
<1>1. cookie' \in {cookie, NoToken}
  BY DEF Next, Server, Browser, User, vars, pageVars, InitializeArrives, ReviewsEnd, CallArrives,
         Connected, ConnectionRefused, RefreshEffect, Begins, AnswerArrives, SpawnWorkspace,
         StopWorkspace, UpgradeWorkspace, CreatesTemplate, DeletesTemplate, Clicks, Logout,
         ClearToken, PasteToken, Login, Reload, Tick, CallFailsOnce, ExpiryNoticed, TokenExpires,
         Restarts, OtherClients
<1> QED
  BY <1>1 DEF CookieOK, Maybe

LEMMA ToolStepSetup ==
    ASSUME NEW c \in Clients, ToolStep(c)
    PROVE  setup' = setup
BY DEF ToolStep, CreateTemplate, UpdateTemplate, DeleteTemplate, GetTemplate,
       CreatePodFromTemplate, CreatePod, DeletePod, PatchPod, GetPod, GetPodLogs, ListPods,
       GetWorkspaceEvents, RunAgentInWorkspace, CallFails, ChecksPod, FindsWorkspace,
       Asks, Reads, Shows, Creates, Deletes

LEMMA PageKept ==
    ASSUME PageInv, CookieOK, setup \in Setups, [Next]_vars
    PROVE  PageInv'
<1>1. CASE UNCHANGED vars
  BY <1>1, PageStays DEF vars, toolVars, pageVars
<1>2. CASE Server
  BY <1>2, InitializeArrivesOK, ReviewsEndOK, CallArrivesOK DEF Server
<1>3. CASE Browser
  BY <1>3, ConnectedOK, ConnectionRefusedOK, AnswerArrivesOK, BeginsOK DEF Browser, RefreshEffect
<1>4. CASE User
  <2>1. ASSUME NEW s \in Slots, NEW tool \in Actions, Clicks(s, tool) PROVE PageInv'
    BY <2>1, ClicksOK
  <2>2. CASE \E s \in Slots : \/ SpawnWorkspace(s) \/ StopWorkspace(s) \/ UpgradeWorkspace(s)
                              \/ CreatesTemplate(s) \/ DeletesTemplate(s)
    BY <2>1, <2>2 DEF SpawnWorkspace, StopWorkspace, UpgradeWorkspace, CreatesTemplate,
                      DeletesTemplate, Actions
  <2> QED
    BY <1>4, <2>2, LogoutOK, ForgettingOK, PasteTokenOK, LoginOK DEF User
<1>5. CASE OtherClients
  BY <1>5, ToolStepSetup, PageStays DEF OtherClients, pageVars
<1>6. CASE \E s \in Slots : Tick(s) \/ CallFailsOnce(s)
  BY <1>6, BeginsOK, CallFailsOnceOK DEF Tick
<1>7. CASE ExpiryNoticed
  BY <1>7, ForgettingOK
<1>8. CASE TokenExpires
  BY <1>8, PageStays DEF TokenExpires, pageVars, toolVars
<1>9. CASE Restarts
  BY <1>9, RestartsOK
<1> QED
  BY <1>1, <1>2, <1>3, <1>4, <1>5, <1>6, <1>7, <1>8, <1>9 DEF Next

-----------------------------------------------------------------------------
(* The objects while the page acts on them *)

LEMMA ToolsLeft ==
    ASSUME ToolsInv, ObjectsEvolve, setup' = setup,
           calls' \in {calls, [c \in Clients |-> Idle]}
    PROVE  ToolsInv'
<1>1. /\ version' \in Nat
      /\ WellFormed(objects', version')
      /\ UidsUnique' /\ AcknowledgedOld' /\ UpdatesSurvive'
  BY ObjectsKept
<1>2. calls \in [Clients -> Call] /\ setup \in Setups /\ \A c \in Clients : calls[c].who \in Callers
  BY DEF ToolsInv, ToolsTypeOK
<1>3. Idle \in Call /\ Idle.who \in Callers /\ Idle.step = "idle" /\ Idle.seen = {}
  BY IdleType DEF ToolsInv, Callers
<1>4. calls' \in [Clients -> Call] /\ \A c \in Clients : calls'[c] \in {calls[c], Idle}
  BY <1>2, <1>3
<1>5. ToolsTypeOK'
  <2>1. \A c \in Clients : calls'[c].who \in Callers
    BY <1>2, <1>3, <1>4
  <2> QED
    BY <1>1, <1>2, <1>4, <2>1, SameSetup DEF ToolsTypeOK
<1>6. CallsFilled'
  <2>1. \A c \in Clients : Filled(calls'[c])
    BY <1>3, <1>4 DEF Filled, ToolsInv, CallsFilled
  <2> QED
    BY <2>1 DEF CallsFilled, Filled, Auth
<1>7. CallsVetted'
  <2> SUFFICES ASSUME NEW c \in Clients, calls'[c].step = "act"
               PROVE  Vetted(calls[c].tool, calls[c].who, calls[c].seen)'
    BY DEF CallsVetted
  <2>1. calls'[c] = calls[c]
    BY <1>3, <1>4
  <2>2. Vetted(calls'[c].tool, calls'[c].who, calls'[c].seen)
    BY <2>1 DEF ToolsInv, CallsVetted
  <2> QED
    BY <2>2 DEF Vetted, Own, Restricted, Permitted, Sub, Auth
<1>8. SeenExact'
  <2> SUFFICES ASSUME NEW c \in Clients, NEW s \in calls'[c].seen
               PROVE  s.rv <= version' /\ \A o \in objects' : o.uid = s.uid /\ o.rv = s.rv => o = s
    BY DEF SeenExact
  <2>1. s \in calls[c].seen
    BY <1>3, <1>4
  <2> QED
    BY <2>1, SeenKept
<1> QED
  BY <1>1, <1>5, <1>6, <1>7, <1>8 DEF ToolsInv

LEMMA ToolsStay ==
    ASSUME ToolsInv, UNCHANGED <<setup, objects, version, acknowledged>>,
           calls' \in {calls, [c \in Clients |-> Idle]}
    PROVE  ToolsInv'
BY StillThere, ToolsLeft

LEMMA AfterEvolves ==
    ASSUME ToolsInv, NEW who \in Users \cup {NoClaims}, NEW tool, objects' \in After(tool, who),
           version' = version + 1, UNCHANGED acknowledged
    PROVE  ObjectsEvolve
<1> DEFINE new(kind, name) == [kind |-> kind, name |-> name, uid |-> version + 1,
                               rv |-> version + 1, owner |-> Sub(who), marked |-> TRUE,
                               notes |-> {}]
<1>1. \/ /\ Auth => who # NoClaims
         /\ \E kind \in {"configmap", "pod"}, name \in Names :
               Named(kind, name) = {} /\ objects' = objects \cup {new(kind, name)}
      \/ objects' \subseteq objects
      \/ \E o \in objects :
            objects' = (objects \ {o}) \cup {[o EXCEPT !.uid = version + 1, !.rv = version + 1]}
  BY DashboardAssumption DEF After, May
<1>2. ToolsTypeOK /\ version \in Nat /\ objects \subseteq Object
  BY DEF ToolsInv, ToolsTypeOK, WellFormed
<1>3. ASSUME Auth => who # NoClaims,
             NEW kind \in {"configmap", "pod"}, NEW name \in Names,
             Named(kind, name) = {}, objects' = objects \cup {new(kind, name)}
      PROVE  ObjectsEvolve
  <2> DEFINE o == new(kind, name)
  <2>1. Sub(who) \in Owners
    BY <1>3 DEF Sub, Owners
  <2>2. o \in Object
    BY <1>2, <2>1 DEF Object
  <2>3. o.uid = version + 1 /\ o.rv = version + 1 /\ o.kind = kind /\ o.name = name
    OBVIOUS
  <2>4. objects' = objects \cup {o}
    BY <1>3
  <2> HIDE DEF o
  <2> QED
    BY <1>2, <1>3, <2>2, <2>3, <2>4, CreationEvolves
<1>4. CASE objects' \subseteq objects
  BY <1>4, DeletionEvolves
<1>5. ASSUME NEW old \in objects,
             objects' = (objects \ {old})
                           \cup {[old EXCEPT !.uid = version + 1, !.rv = version + 1]}
      PROVE  ObjectsEvolve
  <2> DEFINE n == version + 1
             o == [old EXCEPT !.uid = n, !.rv = n]
  <2>1. n \in Nat /\ old \in Object
    BY <1>2
  <2>2. objects' = (objects \ {old}) \cup {o}
    BY <1>5
  <2> HIDE DEF n
  <2>3. o \in Object /\ o.kind = old.kind /\ o.name = old.name /\ o.rv = n /\ o.uid = n
    BY <2>1 DEF Object
  <2> HIDE DEF o
  <2>4. o.rv = version + 1 /\ o.uid = version + 1
    BY <2>3 DEF n
  <2> QED
    BY <1>2, <2>2, <2>3, <2>4, ReplacementEvolves
<1> QED
  BY <1>1, <1>3, <1>4, <1>5

LEMMA CallArrivesKept ==
    ASSUME ToolsInv, PageInv, CookieOK, NEW s \in Slots, CallArrives(s)
    PROVE  ToolsInv'
<1> DEFINE r == refreshes[s]
           who == Caller(r)
<1>1. /\ setup' = setup /\ calls' = calls /\ acknowledged' = acknowledged
      /\ \/ objects' = objects /\ version' = version
         \/ objects' \in After(r.step, who) /\ version' = version + 1
  BY DEF CallArrives, Settled
<1>2. RefreshOK(Auth, r, ui.active, issued) /\ r # Off
  BY OffFacts DEF CallArrives, PageInv, BrowserOK, RefreshesOK
<1>3. r.active \in Maybe /\ Authenticated(r.token) \in Maybe
  BY <1>2, AuthenticatedOK DEF RefreshOK, Carries
<1>4. who \in Users \cup {NoClaims}
  BY <1>3 DEF Caller, Maybe, Tokens
<1> HIDE DEF r, who
<1>5. CASE objects' = objects /\ version' = version
  BY <1>1, <1>5, ToolsStay
<1>6. CASE objects' \in After(r.step, who) /\ version' = version + 1
  BY <1>1, <1>4, <1>6, AfterEvolves, ToolsLeft
<1> QED
  BY <1>1, <1>5, <1>6

LEMMA PageKeepsTools ==
    ASSUME ToolsInv, PageInv, CookieOK, [Next]_vars
    PROVE  ToolsInv'
<1>1. CASE UNCHANGED toolVars
  BY <1>1, ToolsStay DEF toolVars
<1>2. CASE \E s \in Slots : CallArrives(s)
  BY <1>2, CallArrivesKept
<1>3. CASE \E s \in Slots : CallFailsOnce(s)
  <2>1. UNCHANGED toolVars
    BY <1>3 DEF CallFailsOnce, Settled, toolVars
  <2> QED
    BY <1>1, <2>1
<1>4. CASE Restarts
  BY <1>4, ToolsStay DEF Restarts
<1>5. CASE OtherClients
  BY <1>5, ToolStepKept DEF OtherClients
<1>6. ASSUME \/ UNCHANGED vars
             \/ \E i \in Connections : InitializeArrives(i) \/ ReviewsEnd(i)
             \/ Browser \/ User
             \/ \E s \in Slots : Tick(s)
             \/ ExpiryNoticed \/ TokenExpires
      PROVE  UNCHANGED toolVars
  <2>1. CASE UNCHANGED vars
    BY <2>1 DEF vars
  <2>2. CASE \E i \in Connections : InitializeArrives(i) \/ ReviewsEnd(i)
    BY <2>2 DEF InitializeArrives, ReviewsEnd
  <2>3. CASE Browser
    BY <2>3 DEF Browser, Connected, ConnectionRefused, RefreshEffect, Begins, AnswerArrives
  <2>4. CASE User
    BY <2>4 DEF User, SpawnWorkspace, StopWorkspace, UpgradeWorkspace, CreatesTemplate,
                DeletesTemplate, Clicks, Logout, ClearToken, PasteToken, Login, Reload
  <2>5. CASE \/ \E s \in Slots : Tick(s)
             \/ ExpiryNoticed \/ TokenExpires
    BY <2>5 DEF Tick, Begins, ExpiryNoticed, TokenExpires
  <2> QED
    BY <1>6, <2>1, <2>2, <2>3, <2>4, <2>5
<1> QED
  BY <1>1, <1>2, <1>3, <1>4, <1>5, <1>6 DEF Next, Server

-----------------------------------------------------------------------------
(* The theorems *)

Inv == ToolsInv /\ PageInv /\ CookieOK

LEMMA InitInv == Init => Inv
<1> SUFFICES ASSUME Init PROVE Inv
  OBVIOUS
<1>1. /\ setup \in Setups /\ objects = setup.objects /\ version = Cardinality(setup.objects)
      /\ calls = [c \in Clients |-> Idle] /\ acknowledged = {}
  BY DEF Init, ToolsInit
<1>2. /\ IsFiniteSet(setup.objects) /\ WellFormed(setup.objects, Cardinality(setup.objects))
      /\ \A o, p \in setup.objects : o.uid = p.uid => o = p
  BY <1>1, ToolsAssumption
<1>3. version \in Nat
  BY <1>1, <1>2, FS_CardinalityType
<1>4. Idle \in Call /\ Idle.who \in Callers /\ Idle.step = "idle" /\ Idle.seen = {}
  BY DEF Idle, Call, Callers
<1>5. \A c \in Clients : calls[c] = Idle
  BY <1>1
<1>6. ToolsTypeOK
  BY <1>1, <1>2, <1>3, <1>4, <1>5 DEF ToolsTypeOK
<1>7. ToolsInv
  BY <1>1, <1>2, <1>4, <1>5, <1>6
  DEF ToolsInv, UidsUnique, CallsFilled, Filled, SeenExact, CallsVetted, AcknowledgedOld,
      UpdatesSurvive
<1>8. issued = 0 /\ sessions = {} /\ report = NoReport
  BY DEF Init, SessionsInit, NoSession
<1>9. SessionsTypeOK
  BY <1>8 DEF SessionsTypeOK
<1>10. setup.token \in Maybe /\ CookieOK
  BY <1>1, DashboardAssumption DEF Maybe, Init, CookieOK
<1>11. BrowserOK(Auth, ui, refreshes, connections, issued)
  BY <1>8, <1>10, NewPageOK DEF Init
<1> QED
  BY <1>7, <1>8, <1>9, <1>10, <1>11 DEF Inv, PageInv

LEMMA NextInv == Inv /\ [Next]_vars => Inv'
BY PageKeepsTools, PageKept, CookieKept DEF Inv, ToolsInv, ToolsTypeOK

\* The two parts together: calls of the tools act on what they have checked, and what is live
\* on the page belongs to the token that is active.
THEOREM Invariant == Spec => []Inv
<1>1. Init => Inv
  BY InitInv
<1>2. Inv /\ [Next]_vars => Inv'
  BY NextInv
<1> QED
  BY <1>1, <1>2, PTL DEF Spec

\* TypeOK: the calls and objects of the tools, and for the page that callServerTool and a
\* connection, while live, have the active token, that a call sent by a live callServerTool was
\* made with the active token, and one where it is required, and that a session was issued.
THEOREM TypeCorrect == Spec => []TypeOK
<1>1. Inv => TypeOK
  <2> SUFFICES ASSUME Inv PROVE TypeOK
    OBVIOUS
  <2>1. ToolsTypeOK /\ SessionsTypeOK /\ PageOK(Auth, ui, issued)
    BY DEF Inv, ToolsInv, PageInv, BrowserOK
  <2>2. ASSUME NEW i \in Connections
        PROVE  /\ connections[i].step \in {"off", "sent", "reviewing", "opened", "refused",
                                            "unauthorized"}
               /\ connections[i].step # "off" /\ connections[i].live =>
                     connections[i].token = ui.active
    <3>1. ConnectionOK(Auth, connections[i], ui.active, issued)
      BY DEF Inv, PageInv, BrowserOK, ConnectionsOK
    <3> QED
      BY <3>1, OffFacts DEF ConnectionOK, Connection, ConnectionSteps
  <2>3. ASSUME NEW s \in Slots, refreshes[s].step # "off"
        PROVE  /\ refreshes[s].phase \in {"sent", "answered"}
               /\ refreshes[s].session \in 0..issued
               /\ refreshes[s].live => /\ refreshes[s].bound = ui.active
                                       /\ Required => ui.active # NoToken
    <3>1. RefreshOK(Auth, refreshes[s], ui.active, issued)
      BY DEF Inv, PageInv, BrowserOK, RefreshesOK
    <3> QED
      BY <2>3, <3>1, OffFacts DEF RefreshOK, Carries, Required
  <2> QED
    BY <2>1, <2>2, <2>3 DEF TypeOK, Inv, CookieOK, PageOK, Maybe
<1> QED
  BY <1>1, Invariant, PTL

\* UpdatesSurvive: update_template writes back the whole template that it has read, with its
\* resource version; an object that still has this version is the one that was read, so no
\* note of an earlier update is lost, with any number of clients and whatever the dashboard
\* does meanwhile.
THEOREM UpdatesSurviveHolds == Spec => []UpdatesSurvive
<1>1. Inv => UpdatesSurvive
  BY DEF Inv, ToolsInv
<1> QED
  BY <1>1, Invariant, PTL

\* LateAnswersIgnored: whatever steps an old refresh still takes, a call that is live was made
\* by the function of the active token (PageInv: each change of the token ends what is live,
\* calls and connections alike), so the answer to a call or an initialize made with another
\* token changes the active token no more.
THEOREM LateAnswersIgnoredHolds == Spec => LateAnswersIgnored
<1> DEFINE LateAnswer(s) ==
               AnswerArrives(s) /\ refreshes[s].bound # ui.active => ui'.active = ui.active
           LateRefusal(i) ==
               ConnectionRefused(i) /\ connections[i].token # ui.active => ui'.active = ui.active
<1>1. ASSUME Inv, NEW s \in Slots PROVE LateAnswer(s)
  <2> SUFFICES ASSUME AnswerArrives(s), refreshes[s].bound # ui.active
               PROVE  ui'.active = ui.active
    OBVIOUS
  <2> DEFINE r == refreshes[s]
             answered == r.status \in {"ok", "error"}
             saved == IF r.fresh # NoToken THEN r.fresh ELSE ui.saved
             session == IF answered THEN r.session ELSE ui.session
             held == [ui EXCEPT !.saved = saved, !.session = session]
             page == IF r.status = "ok" THEN Showing(held, r) ELSE held
             calling == [refreshes EXCEPT ![s] = IF answered THEN Continued(page, r) ELSE Off]
  <2>1. r.step # "off" /\ Activates(page, calling, connections, Replacing(r, ui.active))
    BY DEF AnswerArrives
  <2>2. PageFields \subseteq DOMAIN ui
    BY <1>1 DEF Inv, PageInv, BrowserOK, PageOK
  <2>3. r.live = FALSE
    BY <1>1, <2>1, OffFacts DEF Inv, PageInv, BrowserOK, RefreshesOK, RefreshOK, Carries
  <2> HIDE DEF saved, session
  <2>4. DOMAIN held = DOMAIN ui /\ held.active = ui.active
    BY <2>2 DEF PageFields
  <2> HIDE DEF held
  <2>5. page.active = ui.active
    BY <2>2, <2>4, ShowingFacts
  <2>6. Replacing(r, ui.active) = ui.active
    BY <2>3 DEF Replacing
  <2> HIDE DEF page, calling, r
  <2>7. ui' = page
    BY <2>1, <2>5, <2>6 DEF Activates
  <2> QED
    BY <2>5, <2>7
<1>2. ASSUME Inv, NEW i \in Connections PROVE LateRefusal(i)
  <2> SUFFICES ASSUME ConnectionRefused(i), connections[i].token # ui.active
               PROVE  ui'.active = ui.active
    OBVIOUS
  <2> DEFINE c == connections[i]
             forgetting == [ui EXCEPT !.saved = NoToken]
             page == IF c.step = "unauthorized" THEN forgetting ELSE ui
             inits == [connections EXCEPT ![i] = Off]
  <2>1. Activates(page, refreshes, inits,
                  IF c.step = "unauthorized" /\ c.live THEN NoToken ELSE ui.active)
    BY DEF ConnectionRefused
  <2>2. c.step # "off"
    BY DEF ConnectionRefused
  <2>3. c.live = FALSE
    BY <1>2, <2>2, OffFacts
    DEF Inv, PageInv, BrowserOK, ConnectionsOK, ConnectionOK, Connection
  <2>4. forgetting.active = ui.active
    BY <1>2, UnsavedFacts DEF Inv, Maybe
  <2> HIDE DEF forgetting, c, inits
  <2>5. page.active = ui.active
    BY <2>4
  <2> HIDE DEF page
  <2>6. ui' = page
    BY <2>1, <2>3, <2>5 DEF Activates
  <2> QED
    BY <2>5, <2>6
<1>3. Inv => [/\ \A s \in Slots : LateAnswer(s)
             /\ \A i \in Connections : LateRefusal(i)]_vars
  BY <1>1, <1>2
<1> QED
  BY <1>3, Invariant, PTL DEF LateAnswersIgnored

-----------------------------------------------------------------------------
(* What the tools act on *)

ShowingTools == {"get_pod", "get_pod_logs", "list_pods"} \cup WorkspaceTools

ActsAsChecked(c) ==
    /\ \A o \in objects \ objects' : Entitled(calls[c], o)
    /\ calls[c].tool \in ShowingTools => \A o \in calls'[c].seen : Entitled(calls[c], o)

LEMMA VettedEntitled ==
    ASSUME ToolsInv, NEW c \in Clients, calls[c].step = "act", NEW o,
           calls[c].tool \notin Creating \cup {"list_pods"},
           calls[c].tool = "delete_template" => o.kind = "configmap"
    PROVE  Entitled(calls[c], o)
<1>1. Vetted(calls[c].tool, calls[c].who, calls[c].seen)
  BY DEF ToolsInv, CallsVetted
<1>2. CASE calls[c].seen # {}
  BY <1>1, <1>2 DEF Vetted, Own, Entitled
<1>3. CASE calls[c].seen = {}
  <2>1. /\ ~Restricted(calls[c].who)
        /\ calls[c].tool # "delete_template" => ~setup.managedOnly
    BY <1>1, <1>3 DEF Vetted
  <2> QED
    BY <2>1 DEF Entitled, Permitted
<1> QED
  BY <1>2, <1>3

LEMMA EndsAsChecked ==
    ASSUME ToolsInv, NEW c \in Clients, Ends(c), \A o \in objects \ objects' : Entitled(calls[c], o)
    PROVE  ActsAsChecked(c)
<1>1. calls'[c] = Idle /\ Idle.seen = {}
  BY IdleType DEF Ends, ToolsInv, ToolsTypeOK
<1> QED
  BY <1>1 DEF ActsAsChecked

LEMMA ReadsAsChecked ==
    ASSUME ToolsInv, NEW c \in Clients, NEW found, NEW permitted, Reads(c, found, permitted),
           calls'[c].step = "idle"
    PROVE  ActsAsChecked(c)
<1>1. calls \in [Clients -> Call] /\ calls[c] \in Call
  BY DEF ToolsInv, ToolsTypeOK
<1>2. CASE permitted
  <2>1. calls'[c] = [calls[c] EXCEPT !.step = "act", !.seen = found]
    BY <1>1, <1>2 DEF Reads
  <2>2. calls'[c].step = "act"
    BY <1>1, <2>1 DEF Call
  <2> QED
    BY <2>2
<1>3. CASE ~permitted
  <2>1. Ends(c) /\ objects' = objects
    BY <1>3 DEF Reads, Ends
  <2> QED
    BY <2>1, EndsAsChecked
<1> QED
  BY <1>2, <1>3

LEMMA ShowsAsChecked ==
    ASSUME ToolsInv, NEW c \in Clients, NEW found, Shows(c, found),
           calls[c].tool \in ShowingTools => \A o \in found : Entitled(calls[c], o)
    PROVE  ActsAsChecked(c)
<1>1. calls \in [Clients -> Call] /\ objects' = objects
  BY DEF ToolsInv, ToolsTypeOK, Shows
<1>2. calls'[c] = [Idle EXCEPT !.who = calls[c].who, !.seen = found]
  BY <1>1 DEF Shows
<1>3. calls'[c].seen = found
  BY <1>2 DEF Idle
<1> QED
  BY <1>1, <1>3 DEF ActsAsChecked

LEMMA DeletesAsChecked ==
    ASSUME ToolsInv, NEW c \in Clients, NEW kind, Deletes(c, kind), calls[c].step = "act",
           calls[c].tool \notin Creating \cup {"list_pods"},
           calls[c].tool = "delete_template" => kind = "configmap"
    PROVE  ActsAsChecked(c)
<1>1. \A o \in objects \ objects' : o.kind = kind
  BY DEF Deletes, Named
<1>2. \A o \in objects \ objects' : Entitled(calls[c], o)
  BY <1>1, VettedEntitled
<1> QED
  BY <1>2, EndsAsChecked DEF Deletes

LEMMA CreatesAsChecked ==
    ASSUME ToolsInv, NEW c \in Clients, NEW kind, NEW owner, NEW marked,
           Creates(c, kind, owner, marked)
    PROVE  ActsAsChecked(c)
<1>1. objects \subseteq objects'
  BY DEF Creates
<1> QED
  BY <1>1, EndsAsChecked DEF Creates

\* The template tools.
LEMMA TemplatesAsChecked ==
    ASSUME ToolsInv, NEW c \in Clients, calls[c].step # "idle", calls'[c].step = "idle",
           \/ CreateTemplate(c) \/ UpdateTemplate(c) \/ DeleteTemplate(c) \/ GetTemplate(c)
           \/ CreatePodFromTemplate(c)
    PROVE  ActsAsChecked(c)
<1>1. \A tool, action, readers, refused : ~Asks(c, tool, action, readers, refused)
  BY DEF Asks
<1>2. CASE CreateTemplate(c) \/ CreatePodFromTemplate(c)
  BY <1>1, <1>2, CreatesAsChecked, ReadsAsChecked DEF CreateTemplate, CreatePodFromTemplate
<1>3. CASE UpdateTemplate(c)
  <2>1. CASE \E found, permitted : Reads(c, found, permitted)
    BY <2>1, ReadsAsChecked
  <2>2. ASSUME At(c, "update_template", "act"), NEW old, objects \ objects' \subseteq {old}, Ends(c)
        PROVE  ActsAsChecked(c)
    <3>1. Entitled(calls[c], old)
      BY <2>2, VettedEntitled DEF At, Creating
    <3> QED
      BY <2>2, <3>1, EndsAsChecked
  <2>3. \/ \E found, permitted : Reads(c, found, permitted)
        \/ /\ At(c, "update_template", "act") /\ Ends(c)
           /\ \E old : objects \ objects' \subseteq {old}
    BY <1>1, <1>3 DEF UpdateTemplate
  <2> QED
    BY <2>1, <2>2, <2>3
<1>4. CASE DeleteTemplate(c)
  <2>1. CASE At(c, "delete_template", "act") /\ Deletes(c, "configmap")
    BY <2>1, DeletesAsChecked DEF At, Creating
  <2> QED
    BY <1>1, <1>4, <2>1, ReadsAsChecked DEF DeleteTemplate
<1>5. CASE GetTemplate(c)
  <2>1. \E found : At(c, "get_template", "read") /\ Shows(c, found)
    BY <1>1, <1>5 DEF GetTemplate
  <2>2. calls[c].tool \notin ShowingTools
    BY <2>1 DEF At, ShowingTools, WorkspaceTools
  <2> QED
    BY <2>1, <2>2, ShowsAsChecked
<1> QED
  BY <1>2, <1>3, <1>4, <1>5

LEMMA PodsAsChecked ==
    ASSUME ToolsInv, NEW c \in Clients, calls[c].step # "idle", calls'[c].step = "idle",
           \/ CreatePod(c) \/ DeletePod(c) \/ PatchPod(c)
           \/ GetPod(c) \/ GetPodLogs(c) \/ ListPods(c)
           \/ GetWorkspaceEvents(c) \/ RunAgentInWorkspace(c)
           \/ CallFails(c)
    PROVE  ActsAsChecked(c)
<1>1. \A tool, action, readers, refused : ~Asks(c, tool, action, readers, refused)
  BY DEF Asks
<1>2. \A found, permitted : Reads(c, found, permitted) => ActsAsChecked(c)
  BY ReadsAsChecked
<1>3. \A tool : ChecksPod(c, tool) \/ FindsWorkspace(c, tool) => ActsAsChecked(c)
  BY <1>2 DEF ChecksPod, FindsWorkspace
<1>4. CASE CreatePod(c)
  BY <1>1, <1>4, CreatesAsChecked DEF CreatePod
<1>5. CASE DeletePod(c)
  <2>1. CASE At(c, "delete_pod", "act") /\ Deletes(c, "pod")
    BY <2>1, DeletesAsChecked DEF At, Creating
  <2> QED
    BY <1>1, <1>3, <1>5, <2>1 DEF DeletePod
<1>6. CASE PatchPod(c)
  <2>1. ASSUME At(c, "patch_pod", "act"), NEW old, objects \ objects' \subseteq {old}, Ends(c)
        PROVE  ActsAsChecked(c)
    <3>1. Entitled(calls[c], old)
      BY <2>1, VettedEntitled DEF At, Creating
    <3> QED
      BY <2>1, <3>1, EndsAsChecked
  <2>2. \/ ChecksPod(c, "patch_pod")
        \/ /\ At(c, "patch_pod", "act") /\ Ends(c)
           /\ \E old : objects \ objects' \subseteq {old}
    BY <1>1, <1>6 DEF PatchPod
  <2> QED
    BY <1>3, <2>1, <2>2
<1>7. CASE GetPod(c)
  <2>1. ASSUME NEW o, Permitted(calls[c].who, o), Shows(c, {o}) PROVE ActsAsChecked(c)
    <3>1. Entitled(calls[c], o)
      BY <2>1 DEF Entitled, Permitted
    <3> QED
      BY <2>1, <3>1, ShowsAsChecked
  <2>2. \/ \E o : Permitted(calls[c].who, o) /\ Shows(c, {o})
        \/ Reads(c, {}, FALSE)
    BY <1>1, <1>7 DEF GetPod
  <2> QED
    BY <1>2, <2>1, <2>2
<1>8. ASSUME calls[c].step = "act",
             calls[c].tool \in {"get_pod_logs", "get_workspace_events", "run_agent_in_workspace"},
             Shows(c, Named("pod", calls[c].name))
      PROVE  ActsAsChecked(c)
  <2>1. \A o : Entitled(calls[c], o)
    BY <1>8, VettedEntitled DEF Creating
  <2> QED
    BY <1>8, <2>1, ShowsAsChecked
<1>9. CASE GetPodLogs(c) \/ GetWorkspaceEvents(c) \/ RunAgentInWorkspace(c)
  BY <1>1, <1>3, <1>8, <1>9 DEF GetPodLogs, GetWorkspaceEvents, RunAgentInWorkspace, At
<1>10. CASE ListPods(c)
  <2> DEFINE listed == {o \in objects : o.kind = "pod" /\ Permitted(calls[c].who, o)}
  <2>1. CASE Shows(c, listed)
    <3>1. \A o \in listed : Entitled(calls[c], o)
      BY DEF Entitled, Permitted
    <3> QED
      BY <2>1, <3>1, ShowsAsChecked
  <2>2. CASE At(c, "list_pods", "act") /\ Shows(c, calls[c].seen)
    <3>1. Vetted("list_pods", calls[c].who, calls[c].seen) /\ calls[c].tool = "list_pods"
      BY <2>2 DEF At, ToolsInv, CallsVetted
    <3>2. \A o \in calls[c].seen : Entitled(calls[c], o)
      BY <3>1 DEF Vetted, Creating, Own, Entitled
    <3> QED
      BY <2>2, <3>2, ShowsAsChecked
  <2> QED
    BY <1>1, <1>2, <1>10, <2>1, <2>2 DEF ListPods
<1>11. CASE CallFails(c)
  BY <1>11, EndsAsChecked DEF CallFails
<1> QED
  BY <1>4, <1>5, <1>6, <1>7, <1>9, <1>10, <1>11

LEMMA OthersKept ==
    ASSUME NEW c \in Clients, NEW d \in Clients, c # d, ToolStep(d),
           calls \in [Clients -> Call]
    PROVE  calls'[c] = calls[c]
<1>1. \E call : calls' = [calls EXCEPT ![d] = call]
  BY DEF ToolStep, CreateTemplate, UpdateTemplate, DeleteTemplate, GetTemplate,
         CreatePodFromTemplate, CreatePod, DeletePod, PatchPod, GetPod, GetPodLogs, ListPods,
         GetWorkspaceEvents, RunAgentInWorkspace, CallFails, ChecksPod, FindsWorkspace,
         Asks, Reads, Shows, Creates, Deletes, Ends
<1> QED
  BY <1>1

\* ActsOnChecked: whatever a call deletes, changes or shows is its caller's to act on, or has
\* changed since the call checked it.  The invariant is CallsVetted: a call on its way to its
\* second request has either seen objects, all of them permitted, or its caller needs no check.
THEOREM ActsOnCheckedHolds == Spec => ActsOnChecked
<1> DEFINE Claim == \A c \in Clients :
               calls[c].step # "idle" /\ calls'[c].step = "idle" => ActsAsChecked(c)
<1>1. ASSUME Inv, [Next]_vars PROVE Claim \/ UNCHANGED toolVars
  <2> SUFFICES ASSUME NEW c \in Clients, calls[c].step # "idle", calls'[c].step = "idle"
               PROVE  ActsAsChecked(c) \/ UNCHANGED toolVars
    OBVIOUS
  <2>1. ToolsInv /\ calls \in [Clients -> Call]
    BY <1>1 DEF Inv, ToolsInv, ToolsTypeOK
  <2>2. CASE Restarts
    <3>1. calls'[c] = Idle /\ Idle.seen = {} /\ objects' = objects
      BY <2>1, <2>2, IdleType DEF Restarts, ToolsInv
    <3> QED
      BY <3>1 DEF ActsAsChecked
  <2>3. CASE OtherClients
    <3>1. PICK d \in Clients : ToolStep(d)
      BY <2>3 DEF OtherClients
    <3>2. d = c
      BY <2>1, <3>1, OthersKept
    <3> QED
      BY <2>1, <3>1, <3>2, TemplatesAsChecked, PodsAsChecked DEF ToolStep
  <2>4. CASE calls' = calls
    BY <2>4
  <2>5. Restarts \/ OtherClients \/ calls' = calls
    BY <1>1
    DEF Next, Server, Browser, User, vars, toolVars, InitializeArrives, ReviewsEnd, CallArrives,
        Settled, Connected, ConnectionRefused, RefreshEffect, Begins, AnswerArrives,
        SpawnWorkspace, StopWorkspace, UpgradeWorkspace, CreatesTemplate, DeletesTemplate,
        Clicks, Logout, ClearToken, PasteToken, Login, Reload, Tick, CallFailsOnce,
        ExpiryNoticed, TokenExpires
  <2> QED
    BY <2>2, <2>3, <2>4, <2>5
<1>2. Inv /\ [Next]_vars => [Claim]_toolVars
  BY <1>1
<1> QED
  BY <1>2, Invariant, PTL DEF Spec, ActsOnChecked, ActsAsChecked, ShowingTools

=============================================================================
