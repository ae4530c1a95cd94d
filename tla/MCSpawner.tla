----------------------------- MODULE MCSpawner ------------------------------
EXTENDS Spawner, TLC

CONSTANTS alice, bob, w1, w2

OwnerIsAlice == [w \in Ids |-> alice]

UserAndId == [u \in Users, w \in Ids |-> <<u, w>>]

\* Owner plays no part in SpawnerSpec, so the users and ids are symmetric too.
SpawnerSymmetry ==
    UNION {Permutations(S) : S \in {Requests, Suffixes, Users, Ids}}

\* The ids that pods and requests are about.
UsedIds == {pods[n].ws : n \in DOMAIN pods} \cup {requests[r].ws : r \in DOMAIN requests}

\* A bound: two ids as long as there are only spawns and stops, one together with the rest.
TwoIdsAtRest ==
    Cardinality(UsedIds) > 1 => used = {} /\ sweeps = {} /\ bulk = {} /\ crashes = 0

-----------------------------------------------------------------------------
\* The templates and the calls that Contents is looked at with.

Env(name, value) == [name |-> name, value |-> value]

Box(name, image, env, mounts) ==
    [name |-> name, image |-> image, env |-> env, mounts |-> mounts]

Home == [name |-> "home", source |-> "scratch"]

Mount(name, path) == [name |-> name, path |-> path]

Spec1(env, inSpec) ==
    [containers |-> <<Box("main", "v1", env, <<Mount("home", "a"), Mount("home", "b")>>)>>, inits |-> <<>>, volumes |-> <<Home>>,
     account |-> NotSet, labels |-> [tier |-> "one"], annotations |-> inSpec]

Spec2 ==
    [containers |-> <<Box("main", "v2", <<Env("A", "2"), Env("C", NotSet)>>, <<Mount("cache", "b")>>),
                      Box("helper", "v2", <<>>, <<>>)>>,
     inits |-> <<"fetch">>, volumes |-> <<[Home EXCEPT !.source = "claim"],
                                         [name |-> "cache", source |-> "scratch"]>>,
     account |-> "own", labels |-> << >>, annotations |-> [mode |-> "spec"]]

Template(version, annotations, spec) ==
    [version |-> version, annotations |-> annotations, labels |-> [by |-> UserVar], spec |-> spec]

Hooks == ("init-image" :> "tools") @@ ("sidecar-image" :> "tools")

SomeTemplates ==
    {Template("1", "port" :> "80", Spec1(<<Env("A", "1"), Env("U", UserVar)>>, << >>)),
     Template("2", ("port" :> "81") @@ ("path" :> UserVar) @@ Hooks, Spec2),
     Template("3", "required-context" :> "B", Spec1(<<Env("B", NotSet)>>, "port" :> "82")),
     Template(NotSet, << >>, Spec1(<<>>, << >>)),
     Template("4", << >>, NotSet)}

SomeSources ==
    {[map |-> m, local |-> l] :
        m \in SomeTemplates \cup {NotSet},
        l \in {NotSet, Template("1", Hooks, Spec1(<<Env("A", "0")>>, << >>))}}

Call(context, annotations, containers, top) ==
    [context |-> context, annotations |-> annotations, labels |-> << >>,
     containers |-> containers, top |-> top]

NoTop == [labels |-> NotSet, annotations |-> NotSet, account |-> NotSet]

SomeCalls ==
    {Call(<<>>, << >>, <<>>, NoTop),
     Call(<<Env("A", "9"), Env("B", "9")>>, ("port" :> "99") @@ ("name" :> "mine"), <<>>, NoTop),
     Call(<<Env("B", "8")>>, << >>,
          <<[name |-> "main", image |-> "mine", env |-> <<Env("A", "7"), Env("D", NotSet)>>],
            [name |-> "other", image |-> "mine", env |-> NotSet]>>,
          [NoTop EXCEPT !.account = "mine", !.annotations = "mode" :> "call"])}
=============================================================================
