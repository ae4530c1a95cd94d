------------------------------ MODULE Contents ------------------------------
(***************************************************************************)
(* What the pod of a workspace is made of: the template, what the caller   *)
(* of spawn_workspace adds, and, in an upgrade, the pod before.  The       *)
(* module has no state: the pods are functions of their inputs.            *)
(*                                                                         *)
(* A spec is a record [containers, inits, volumes, account, labels,        *)
(* annotations].  Containers are records [name, image, env, mounts], the   *)
(* first one being the main one; env and volumes are sequences of records  *)
(* with a name, mounts of records [name, path], the name being that of a   *)
(* volume.  Labels and annotations are functions.  A pod is a spec.  The   *)
(* other fields of a spec are copied from the template.  An annotation     *)
(* init-image or sidecar-image stands for the image with its command.      *)
(*                                                                         *)
(* ContentsProofs proves about these definitions: the folds are functions  *)
(* on prefixes, and the spreads of JavaScript are written out, since the   *)
(* provers cannot expand @@ and :>.                                        *)
(***************************************************************************)
EXTENDS Naturals, Sequences
Seqs == INSTANCE SequencesExt

CONSTANTS
    NotSet,         \* an optional part that is missing, also: no template, no pod
    UserVar,        \* the placeholder for the user in a template
    Sources,        \* states of one template: [map, local], a ConfigMap and a built-in one,
                    \* each a record [version, annotations, labels, spec]
    SpawnCalls      \* what is passed to spawn_workspace: [context, annotations, labels,
                    \* containers, top]

Or(a, b) == IF a = NotSet THEN b ELSE a

\* { ...f, ...g }
Overlaid(f, g) == [k \in DOMAIN f \cup DOMAIN g |-> IF k \in DOMAIN g THEN g[k] ELSE f[k]]

\* { [key]: value }
Single(key, value) == [k \in {key} |-> value]

\* The element of that name is replaced, or else appended.
Put(seq, e) ==
    LET i == Seqs!SelectInSeq(seq, LAMBDA x : x.name = e.name)
    IN  IF i = 0 THEN Append(seq, e) ELSE Seqs!ReplaceAt(seq, i, e)

\* The overrides at the indices in taken are put, one after the other.
PutSome(base, overrides, taken) ==
    LET done[i \in 0..Len(overrides)] ==
            IF i = 0 THEN base
            ELSE IF i \in taken THEN Put(done[i - 1], overrides[i]) ELSE done[i - 1]
    IN  done[Len(overrides)]

PutAll(base, overrides) == PutSome(base, overrides, DOMAIN overrides)

-----------------------------------------------------------------------------
(* Templates *)

Filled(f, user) == [k \in DOMAIN f |-> IF f[k] = UserVar THEN user ELSE f[k]]

FilledSpec(spec, user) ==
    [spec EXCEPT !.annotations = Filled(@, user), !.labels = Filled(@, user),
        !.containers = [i \in DOMAIN @ |->
            [@[i] EXCEPT !.env = [j \in DOMAIN @ |-> Filled(@[j], user)]]]]

\* resolveTemplateSpec: the ConfigMap if it has a spec, or else the built-in template.
Resolved(source, user) ==
    LET usable == source.map # NotSet /\ source.map.spec # NotSet
        t == IF usable THEN source.map ELSE source.local
    IN  IF t = NotSet THEN NotSet
        ELSE [version |-> Or(t.version, "1.0.0"), annotations |-> Filled(t.annotations, user),
              labels |-> Filled(t.labels, user), spec |-> FilledSpec(t.spec, user)]

\* getTemplateLatestVersion looks for a version, with or without a spec.
LatestVersion(source) ==
    LET mapped == IF source.map = NotSet THEN NotSet ELSE source.map.version
        local == IF source.local = NotSet THEN NotSet ELSE source.local.version
    IN  Or(mapped, Or(local, "1.0.0"))

\* buildWorkspaceDetails (isOutdated)
Outdated(pod, source) ==
    /\ "template-ref" \in DOMAIN pod.annotations
    /\ LatestVersion(source) #
          IF "template-version" \in DOMAIN pod.annotations
          THEN pod.annotations["template-version"] ELSE "1.0.0"

-----------------------------------------------------------------------------
(* Merging *)

\* mergeContainersByName: an override without a container of its name is dropped.
Overridden(c, o) == [c EXCEPT !.image = Or(o.image, @),
                              !.env = IF o.env = NotSet THEN @ ELSE PutAll(PutAll(<<>>, @), o.env)]

MergedContainers(base, overrides) ==
    [i \in DOMAIN base |->
        LET j == Seqs!SelectInSeq(overrides, LAMBDA o : o.name = base[i].name)
        IN  IF j = 0 THEN base[i] ELSE Overridden(base[i], overrides[j])]

\* validateRequiredContext
ContextComplete(annotations, context) ==
    "required-context" \in DOMAIN annotations =>
        \E i \in DOMAIN context : context[i].name = annotations["required-context"]

\* applySpawnerAnnotations; the context becomes environment of the main container.
Decorated(spec, annotations, context) ==
    LET main == spec.containers[1]
        sidecar == [name |-> "spawner-sidecar", image |-> annotations["sidecar-image"],
                    env |-> context, mounts |-> main.mounts]
        init == IF "init-image" \in DOMAIN annotations THEN <<"spawner-init">> ELSE <<>>
        hooked == IF "sidecar-image" \in DOMAIN annotations
                  THEN Append(spec.containers, sidecar) ELSE spec.containers
    IN  [spec EXCEPT !.inits = @ \o init,
                     !.containers = [hooked EXCEPT ![1].env = @ \o context]]

-----------------------------------------------------------------------------
\* The pod remembers the template and its version.
Stamped(t) ==
    Overlaid(Overlaid(t.annotations, Single("template-ref", "template")),
             Single("template-version", t.version))

\* spawnWorkspaceHandler: the annotations of the caller come before those of the template,
\* and those inside its spec before all.
SpawnedPod(source, call, user) ==
    LET t == Resolved(source, user)
        spec == [t.spec EXCEPT !.labels = Or(call.top.labels, @),
                     !.annotations = Or(call.top.annotations, @),
                     !.account = Or(Or(call.top.account, @), "provisioned"),
                     !.containers = MergedContainers(@, call.containers)]
        annotations == Overlaid(Stamped(t), call.annotations)
        pod == Decorated(spec, annotations, call.context)
    IN  IF t = NotSet \/ ~ContextComplete(annotations, call.context) THEN NotSet
        ELSE [pod EXCEPT
                !.labels = Overlaid(@, Overlaid(Overlaid(t.labels, call.labels),
                                                Single("owner", user))),
                !.annotations = Overlaid(Overlaid(annotations, @), Single("owner", user))]

\* The values in the environment of the old main container: { [name]: value }, later ones
\* over earlier ones.
OldContext(old) ==
    LET env == old.containers[1].env
    IN  PutSome(<<>>, env, {i \in DOMAIN env : env[i].value # NotSet})

\* Bug: the annotations of the template come first.
TemplateFirst(t, old) == Overlaid(old.annotations, t.annotations)

\* The annotations of the old pod come before those of the template.
OldFirst(t, old) == Overlaid(t.annotations, old.annotations)

\* Bug: the volumes of the old pod are added to those of the template.
VolumesAdded(new, old) == new \o old

\* The volumes of the old pod replace those of the template.
VolumesKept(new, old) == PutAll(new, old)

\* A mount of the old pod is added when its volume is not mounted so far: not by the new
\* pod and not by an earlier mount of the old one.
MountsKept(new, old) ==
    PutSome(new, old, {i \in DOMAIN old :
                           /\ \A j \in DOMAIN new : new[j].name # old[i].name
                           /\ \A j \in 1..(i - 1) : old[j].name # old[i].name})

\* upgradeWorkspaceInner: a new pod from the template as it is now and the old pod.
UpgradedPod(source, old) ==
    LET owner == old.labels["owner"]
        t == Resolved(source, owner)
        annotations == Overlaid(OldFirst(t, old), Single("template-version", t.version))
        oldMain == old.containers[1]
        pod == Decorated(t.spec, annotations, OldContext(old))
    IN  IF t = NotSet \/ ~ContextComplete(annotations, OldContext(old)) THEN NotSet
        ELSE [pod EXCEPT
                !.volumes = VolumesKept(@, old.volumes),
                !.containers[1].mounts = MountsKept(@, oldMain.mounts),
                !.containers[1].env = PutAll(@, oldMain.env),
                !.account = Or(old.account, @),
                !.labels = Overlaid(Overlaid(Overlaid(t.labels, old.labels), @),
                                    Single("owner", owner)),
                !.annotations = Overlaid(Overlaid(annotations, @), Single("owner", owner))]

-----------------------------------------------------------------------------
(* What may be relied on *)

\* What a process sees of its environment: the last of several entries of one name.
Environment(pod) ==
    {pod.containers[1].env[i] : i \in
        {j \in DOMAIN pod.containers[1].env :
            \A k \in DOMAIN pod.containers[1].env :
                pod.containers[1].env[k].name = pod.containers[1].env[j].name => k <= j}}

Mounted(pod) == {m.name : m \in Seqs!ToSet(pod.containers[1].mounts)}

\* The new pod has what belongs to the workspace rather than to the template.  Only the
\* annotations inside the spec of the template can change where the workspace is found.
Keeps(new, old, source) ==
    LET inSpec == DOMAIN Resolved(source, old.labels["owner"]).spec.annotations
    IN  /\ new.labels["owner"] = old.labels["owner"]
        /\ \A k \in DOMAIN old.annotations \ (inSpec \cup {"template-version"}) :
              new.annotations[k] = old.annotations[k]
        /\ Environment(old) \subseteq Environment(new)
        /\ Seqs!ToSet(old.volumes) \subseteq Seqs!ToSet(new.volumes)
        /\ Mounted(old) \subseteq Mounted(new)
        /\ new.account = old.account

\* Environment entries that are there twice do not count, nor does the environment of the
\* sidecar, which gets that of the main container.
Alike(p, q) ==
    /\ Environment(p) = Environment(q)
    /\ [i \in DOMAIN p.containers |-> <<p.containers[i].name, p.containers[i].image>>]
         = [i \in DOMAIN q.containers |-> <<q.containers[i].name, q.containers[i].image>>]
    /\ p.containers[1].mounts = q.containers[1].mounts
    /\ <<p.inits, p.volumes, p.account, p.labels, p.annotations>>
         = <<q.inits, q.volumes, q.account, q.labels, q.annotations>>

\* Where the two readings of the version of a template cannot differ: it is annotated where
\* the spec is, and the spec does not carry one itself.
Versioned(source, user) ==
    /\ source.map = NotSet \/ (source.map.spec # NotSet /\ source.map.version # NotSet)
    /\ "template-version" \notin DOMAIN Resolved(source, user).spec.annotations
=============================================================================
