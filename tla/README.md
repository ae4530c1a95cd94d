# A TLA+ model of the workspace spawner

This directory holds a formal model of the MCP server in `src/`: a Node server that gives
each user of a Kubernetes cluster *workspaces* (pods with a development environment),
lets MCP clients spawn, stop, list and upgrade them, and proxies HTTP and WebSocket traffic
to them behind OIDC. There is no custom resource and no database: the pods, their labels
and their annotations are the only lasting state (ADR-024 and `DESIGN.md`), and everything
else lives in the memory of one server process or in the cookies of a browser. What makes
such a system hard is that nothing serialises the actors that change the pods.

`PROJECT.json` lists the components, runs, mutants, findings, hazards and theorems, and the
lines of code each definition stands for.

## 1. Inventory

| Component | Code | State | Operations | What makes it correct |
|---|---|---|---|---|
| Workspace pods | `src/src/k8s/pods.ts`, `spawner/helpers.ts` | pods in the API server | create, delete, annotate; kubelet: start, complete, remove | owner and id labels never change |
| Upgrades | `spawner/upgrade.ts`, `handlers/index.ts` 606-732 | background promises | `upgrade_workspace`, `upgrade_all_workspaces`, the background task | no downtime, owner kept, volume released |
| Clean-up of duplicates | `spawner/helpers.ts` 107-233, called by `list_workspaces` and `get_workspace` | decisions in flight | list, decide, delete or annotate | comes down to one pod, never to none |
| Start-up scan | `spawner/upgrade-reconciler.ts` | none | once at start | as above |
| Spawn and stop | `handlers/index.ts` 111-437 | requests in flight | quota check, create; list, delete one by one | quota, id free, own pods only |
| Contents of workspace pods | `handlers/index.ts` 197-325, `upgrade.ts` 43-242, `helpers.ts` 19-48 and 306-402, `k8s/merge.ts`, `k8s/annotations.ts` | none | template, placeholders, overrides, hooks, merge with the old pod | an upgrade keeps what is the user's and settles |
| Routing | `server/auth.ts` 507-825, `server/ws-proxy.ts` 98-463, `routes/proxy.ts` 30-67 | none | choose pod, endpoint, decide, inject headers; once for HTTP, once for WebSocket | never a pod that is going away; both ways agree |
| Session key | `k8s/session.ts`, `server/index.ts` | key in memory, Secret, peers | environment, Secret with 404/409/403, leader election, fallback | replicas agree on the key, nobody waits for ever |
| Token refresh | `server/auth.ts`, `auth-singleflight.ts`, `routes/proxy-auth.ts` | cookies, refreshes in flight | sign in, transparent refresh, set refresh token, logout, `_auth/refresh` | no session is lost or handed over |
| WebSocket proxy | `server/ws-proxy.ts` | sockets, buffer | list, verify, connect, hand over, close | early bytes arrive, nothing left open |
| Token verification | `k8s/auth.ts` 50-355 | cached key set | fetch, verify, introspect | no retired key is trusted beyond the cache's time |
| Roles and scopes | `k8s/auth.ts` 357-729 | none | scopes, roles, white list, admin | decisions agree across entry points |
| MCP sessions | `server/sse.ts`, `routes/mcp.ts`, `k8s/permissions.ts` | session table, permissions report | initialise, look up | a session has the tools of its beginning |
| Template and pod tools | `mcp/templates`, `mcp/pods`, `mcp/namespace.ts` | ConfigMaps, pods | create, update, delete, list, read, create from a template | no lost update; what is acted on was checked |
| Dashboard | `ui/app.tsx`, `ui/fallback.ts` | React state, `localStorage`, session id | connect, refresh, actions, sign in and out | shows what there is, for who is signed in |

Not core logic: configuration and CLI, static files and themes, deployment files, scripts.
`PROJECT.json` "components" says for each component what is left out and why.

Interactions. Upgrade tasks, clean-ups, spawns and stops never call each other: they meet
only in the pods. The proxies read the pods with listings of their own. The UI lists the
workspaces on a timer, which is what drives the clean-up. A restart drops all tasks and
starts with the scan, forgets MCP sessions, refreshes in flight and caches, and may end with
another session key. Replicas meet in the Secret, in each other's `/internal/session-key` and
in the cookies of the browsers. The template tools and the upgrades meet in the ConfigMaps.

Hard behaviours. Every handler lists pods, awaits, and later deletes by *name*; several
upgrades, clean-ups and stops of one workspace overlap; two time-outs (120 polls of 5 s in
the task, 600 s in the clean-up) run against each other and against the pod becoming ready;
the API server can refuse any call; the process can be restarted between any two awaits;
creation times, the only order the code has, have a resolution of a second. Responses reach a
browser in any order, and each one overwrites cookies; a provider that rotates refresh tokens
makes every repeated exchange fatal. React closures act with the token of an earlier render.

## 2. Modules

| Module | Models |
|---|---|
| `PodStore` | the pods of the namespace, the effect of each API call, the kubelet, the clock |
| `Upgrading` | upgrades, bulk upgrade, background tasks, clean-ups, restart; extends `PodStore` |
| `Cutover` | abstract: what users rely on during an upgrade; `Upgrading` implements it |
| `Spawning` | spawn and stop requests; extends `PodStore` |
| `Contents` | what a workspace pod consists of, after a spawn and after an upgrade; pure functions |
| `Spawner` | `Upgrading` and `Spawning` together, from an empty namespace, with `Contents` |
| `SessionKey` | how each replica comes by the session key |
| `TokenRefresh` | a browser's cookie jar, requests in flight, coalesced exchanges, the provider |
| `Access` | decisions on scopes, roles and routes; pure functions |
| `Verification` | verification of tokens with the cached key set; several verifiers |
| `WsProxy` | one WebSocket upgrade, from request to the end of the tunnel; extends `Access`, `Verification` |
| `Tools` | template tools, pod tools, events and agent of a workspace, as steps; extends `Access` |
| `Sessions` | the table of MCP sessions and the permissions report |
| `Dashboard` | the page and the server's answers to it; extends `Tools`, `Sessions` |
| `UpgradingInvariant` | the inductive invariant of `Upgrading` and its timing assumption |
| `UpgradingProofs` | proofs of type correctness and of ownership |
| `UpgradingSafety` | proof that the invariant is inductive, zero downtime, routing, and that `Upgrading` implements `Cutover` |
| `ContentsProofs` | proofs about `Contents`: merging by name, what an upgrade keeps, that upgrades settle |
| `SpawnerProofs` | proofs about `Spawner`: whose pods are deleted, the limit on workspaces, contents |
| `SessionKeyProofs` | proofs of agreement on the session key and of the bound on disagreement |
| `TokenRefreshProofs` | proofs that cookies stay with their user and that coalescing keeps a session |
| `WsProxyProofs` | proofs about the key cache, the bytes of a tunnel, and HTTP against WebSocket |
| `DashboardProofs` | proofs about the tools and the page |
| `MCUpgrading`, `MCSpawner`, `MCSessionKey`, `MCTokenRefresh`, `MCWsProxy`, `MCDashboard` | instances for TLC |

**Correspondence with the code.** Everything between two awaits is one action.

* A pod is a record of owner and id (labels), creation time, phase, deletion mark and
  whether it carries `nogoo9/last-upgrade-error`. `Ready` is the code's own test, phase
  `Running` and a pod IP; it stays true while the pod terminates. `Serving` adds what the
  code never reads, the absence of `deletionTimestamp`.
* `tasks` holds the promise that `upgradeWorkspaceInner` leaves behind, keyed by the random
  suffix of its new pod. `Launch` is the handler up to its return, then `TaskCreate`,
  `TaskPoll` (one round of the loop), `TaskGivesUp` (the annotation), `TaskDropNew` and
  `TaskDropOld` (the deletions). The recreate path of a workspace with a volume goes from
  creation to `TaskDropOld` at once. `TaskCallFails` gives each call its error path: a
  failed poll is a poll, a failed annotation is logged, others end the task.
* `sweeps` holds what `reconcileUpgradeTransition` has read or decided. Deletions are
  promises nobody awaits, so they take effect at any later time. `SweepWaits`,
  `SweepTimesOut`, `SweepDropNew`, `SweepDropOld`, `SweepCallFails` are its branches. The
  order of pods of equal creation time is left open (`Newest`).
* `bulk` holds the loop of `upgradeAllWorkspacesHandler` over an earlier listing.
* `Restart` empties tasks, clean-ups and bulk upgrades and begins with the scan. The code
  scans one workspace after another; the model reads all at once and lets each decision
  take effect in any order, which allows every order the code can have.
* `requests` of `Spawning` holds spawns (check id, count, create) and stops (list, delete one
  by one).
* `Contents`: a template is a pair of a ConfigMap and a built-in template, either of which may
  be missing or lack a version or a spec. `Resolved`, `SpawnedPod` and `UpgradedPod` follow
  the order in which the code spreads one record over another: annotations and labels are
  functions, environment, volumes and mounts sequences, since the code replaces by name and
  appends. `Put` is that step and `PutSome` a loop over it, for the entries the code does not
  skip; it is written as a function on prefixes, as the proofs need it. `Decorated` is
  `applySpawnerAnnotations`.
* `SessionKey`: `procs` is what `resolveSessionSecret` waits for in each replica; `ReadSecret`,
  `CreateSecret`, `RereadSecret`, `ListPeers` and `AskPeer` are the stretches between its
  awaits, each with its failure. `Active`, `Before` and `OlderRunning` are the filters and the
  order of the election. `asking` is the set of peers a round still has to ask; the code's list
  is in the order of creation, and `AskPeer` takes the oldest, since creation times do not
  change. `Serve` is `listen`, after the key; `Crash` restarts the process in its pod,
  `PodDeleted` and `PodCreated` are the controller. `setup.statuses` says whether the errors of
  the client library carry `response.statusCode`, where the code looks for 404 and 409; if not,
  both are like any other failure (section 4).
* `TokenRefresh`: a request carries a copy of the cookies; `Hook` is the global preHandler up to
  the exchange, `flights` the map `inflightRefreshes`, `IdpAnswers` and `IdpFails` the
  provider, `HookEnds` and `RefreshEnds` what a resumed request sets or clears, `Receive` the
  browser. `disturbed` is history: what may legitimately cost a session has happened.
* `Verification`: `Lookup`, `ProviderReads` and `AnswerArrives` are `fetchJwks` up to the
  request, the provider's answer and its arrival; the cache is dated by the request.
* `WsProxy`: `stage` follows `handleUpgradeRequest` through its awaits; `client` and `upstream`
  are the two sockets, half-open states included; `clientBuffer`, `written` and `head` are
  where bytes can be. `setup.talks` says whether the pod ever writes to its client. Stage
  `crashed` is an error event without handler, or an exception outside of any try.
* `Tools`: each call of a client has a step; the check (`ChecksPod`, the read of a ConfigMap)
  and the act are separate, objects carry `uid` and `rv`, and a replace is conditional on `rv`
  as in the API server.
* `Dashboard`: `refreshes` keep the token and namespace of the render they were started in
  (`active`, `ns`), `connections` the `isMounted` of their effect. Each step of a refresh calls
  the `app.callServerTool` that is installed at that moment (`Sent`): `bound` is the token of
  the effect that installed it, `live` its `isMounted`, `token` the one sent, which is that of
  `localStorage` if there is one. So a refresh begun for an earlier user goes on with live calls
  once the page has connected again. `AnswerArrives` is the rest of `callServerTool` and of the
  promise that waits for it, `Tick` the interval. `CallArrives` and `InitializeArrives` are the
  server: authentication, session look-up, tool. `cookie` is the token the provider gives for
  the refresh cookie, whose user need not be that of the token sent; `Fresh` is
  `x-refreshed-token`. `current_namespace` passes no `jwtPayload`, so its caller is the
  token's user (`Caller`).

**Abstractions.** Names are values: `PodName` maps user and id to the pod name the code
computes, and need not be injective (`ws-a-b-c` is user `a-b` with id `c` or user `a` with
`b-c`); a random suffix stands for the whole name of an upgraded pod. In `PodStore` a pod has
owner, id and the copied error annotation, and whether the workspace has a volume is
`PvcIds`; everything else of its content is in `Contents`, which needs no state because a pod
is a function of the template, the call and the pod before. Which pods a bulk upgrade finds
outdated is arbitrary in `Upgrading`; `Outdated` says it in `Contents`. Resolving a template is
part of `RequestFails` and, for an upgrade, of the choice not to launch. Keys, tokens and
signatures are values: only the key that seals a cookie opens it. A path is a sequence of
segments. One clock unit is the poll interval of 5 s.

## 3. Runs

| Run | Question | Result |
|---|---|---|
| `upgrade_safety` | two overlapping upgrades (owner, admin, bulk), one clean-up in progress, one failing call, one restart; pods ready in time | `ZeroDowntime`, `RoutesToServingPod`, `OwnerPreserved`, `Inv`, `ImplementsCutover` hold |
| `upgrade_convergence` | under fairness, pods that may never become ready, equal creation times, a fault and a restart | `Converges` holds |
| `spawner` | overlapping spawns and stops of two users with two ids and limit 1, or with one id together with upgrades, clean-ups and a restart; contents of pods over pairs of template states | `QuotaOvershootBounded`, `DeletesOwnPodsOnly`, `UpgradesKeepContents`, `UpgradesSettle` hold |
| `session_key` | three replicas, every kind of deployment, one failed call, restart or deletion | `KeyAgreement`, `DisagreementBounded`, `EveryReplicaServes` hold |
| `token_refresh` | two users at one browser, two replicas with equal or different keys, overlapping requests | `NoCrossTalk`, `CoalescingKeepsSession` hold |
| `routing` | one upgrade with rotating keys and clients that leave; HTTP against WebSocket | `KeysFresh`, `RoutesAgree`, `BytesDelivered`, `NoOrphan` hold |
| `dashboard` | tools called by two clients; the page with sign-in, expiry, losses, restart | `UpdatesSurvive`, `ActsOnChecked`, `LateAnswersIgnored`, `EventuallyShown` hold |
| `late_readiness` | a pod that becomes ready at about 600 s | `ZeroDowntime` violated |
| `volume_order` | recreate path | `OneVolumeHolder` violated |
| `quota` | two overlapping spawns | `QuotaHolds` violated |
| `refresh_endpoint` | a page calls `_auth/refresh` with an expired access token | `RefreshKeepsSession` violated |
| `frames` | a client that does not wait for the answer 101 | `FrameIntegrity` violated |

**Properties.**

* `ZeroDowntime`: a workspace without a volume always has a ready pod that nobody deletes.
* `RoutesToServingPod`: the pod the proxies choose is never one that is terminating.
* `ImplementsCutover`: the creation time of the pod that answers only ever grows.
* `OwnerPreserved`: upgrades by an admin or in bulk leave the owner alone.
* `Inv`: the inductive invariant of section 5.
* `Converges`: every workspace ends with at most one pod, whatever overlapped.
* `QuotaOvershootBounded`: pods spawned plus spawns past the check stay below the limit plus
  the requests in progress. It speaks of configurations without admins, since an admin
  spawns for others without a check.
* `DeletesOwnPodsOnly`: what a task, a stop or a clean-up is going to delete by name belongs
  to the same user and workspace by then, although names are used again. Clean-ups are
  included only until the first restart: the start-up scan lists the pods of all users and
  takes two users' pods of one id for an upgrade pair.

* `UpgradesKeepContents`: for every state of the template before and after, and every call of
  `spawn_workspace` at hand, the upgraded pod has the old owner, environment, volumes, service
  account and annotations, and every volume that was mounted is. Left out are annotations
  inside the *spec* of the new template, which do win. No template at hand lists a variable
  twice: then the old value replaces the first entry (`upgrade.ts:215`), and the process sees
  the second. Of a volume mounted twice the second
  mount is lost if the template does not mount it (`upgrade.ts:204` compares names).
* `UpgradesSettle`: another upgrade with the same template changes nothing (as when one upgrade
  copies the pod of another), and no listing calls the new pod outdated. The second half is
  for templates whose version is annotated where the spec is (`Versioned`): for a ConfigMap
  without spec or without version over a built-in one of that name, `getTemplateLatestVersion`
  and the upgrade read different versions, and bulk upgrades repeat for ever.
* `KeyAgreement`: where a key is in the environment, or a Secret can be written, the statuses of
  errors are seen and no call fails, every replica that serves has the one key.
* `DisagreementBounded`: elsewhere, each key in use beyond the first goes back to an incident,
  a follower that gave up, or pods of one creation time.
* `EveryReplicaServes` (liveness): no replicas wait for each other's key for ever.
* `NoCrossTalk`: what a response sets belongs to a user whose credentials the request carried.
* `CoalescingKeepsSession`: when no exchange failed, no response was overtaken, no token was
  presented after its exchange or to two replicas at once, the keys agree and nobody signed
  out, the browser holds the token that is valid at the provider.
* `KeysFresh`: a token is never accepted with keys that were retired longer ago than the
  cache's time, as seen from the start of its verification. Verifications whose own fetch
  failed are left out: the code then uses the expired set, however old.
* `RoutesAgree`: HTTP and WebSocket decide alike and tell the workspace the same. Left out, as
  the two do differ there: endpoints limited to methods, a port of its own together with
  SUBFOLDER, and, for what is told, `noAuth` and an identity that is not the claim `sub`.
* `BytesDelivered`: what the client sent is written to the pod, in order and once if the client
  waits for the answer. For others the first bytes may be written twice (`ws-proxy.ts:484`).
* `NoOrphan` (liveness): a tunnel is closed at both ends when the client is gone or the pod has
  ended its side, and, if the pod talks, when the client has only ended its side. With a silent
  pod that last connection stays half open: `ws-proxy.ts:529-553` has neither an `end` handler
  nor a time limit, so nothing is claimed of it.
* `UpdatesSurvive`: an update of a template that was answered with success is undone by no
  other update that overlaps with it.
* `ActsOnChecked`: a pod or ConfigMap that is changed, deleted or read is one the check of the
  same call has seen and permitted, or one that replaced it under its name in between.
* `LateAnswersIgnored`: the answer to a call, or to an initialize, made with another token than
  the one the page has now never changes the token, be it a 401 or one that brings a renewal.
  It does not say that an earlier user's refresh is without effect: what such a refresh calls
  after the page has connected again are calls of the present function, and their answers count.
* `EventuallyShown` (liveness): a page that keeps working (`Working`: connected, token accepted,
  session known, interval on) comes to show the templates and workspaces there are.

Every property of a passing run has a mutant in the modules (operators marked `Bug:`): the
change a plausible mistake would make, with which TLC finds the property violated.

**Bounds and why they are enough.** Two suffixes allow two upgrades in progress, so a task
can copy and delete the pod another one has just made; three pods of a workspace are enough
for a clean-up to look at the wrong two. The time-outs keep the relations of the code and
shrink its numbers: `ReadyWithin` 1, three polls, `UpgradeTimeout` 2, clock to 4, so that
each time-out can pass. `MaxLag` 0 lets no clock unit pass between a listing and the
decision made on it, though any other action can. `MaxSweeps` bounds the start of a listing,
not the number it finds. `MaxFaults` and `MaxCrashes` are 1: any single call can fail and the
server can restart at any point. `LastCreate` stops upgrades in the liveness run, since
`Converges` says what happens once they stop. In `spawner` the ids are shared by two users,
whose pods have different names; the constraint `TwoIdsAtRest` follows two ids as long as there
are only spawns and stops, which is what the quota is about, and one id with everything else.

The contents of pods are looked at with 12 states of a template, before and after (plain, with
other containers, hooks and volumes, with required context, without a version, without a
spec; with and without a built-in one), and three calls (nothing, context and annotations,
overrides of containers and top level).

`session_key`: with three replicas a follower has two older peers, so that the order of asking
and a peer that disappears matter; two attempts have a first and a last; `MaxBorn` 1 gives
equal and different creation times; one incident, since each further one only adds to what
`DisagreementBounded` allows. All five kinds of deployment.

`token_refresh`: two slots overlap, four requests let two more follow an exchange, three tokens
let a token be rotated twice; one fault, one logout; equal and different keys.

`routing`: two verifiers, so that fetches overlap; `Ttl` 2 and a clock to 4 let a cached set
expire once; one rotation and one failed fetch; up to three chunks, one with the request, one
buffered and one after the connection. The decision is compared over all claims, listings and
paths of `MCWsProxy`.

`dashboard`: eleven setups, four of the tools alone (two clients, two or three calls, with and
without authentication and `managedOnly`) and seven of the page, each with the chances that go
together, since all at once is too much: a pasted token, an expiry with and without renewal, a pasted token
together with an expiry, with a renewal (which then arrives after the other user's sign-in) and
without (these two without the interval, so `EventuallyShown` is not looked at in them), an
action with a lost answer, a restart with a failed review. Two refreshes and three
connections overlap.

`CHECK_DEADLOCK FALSE` everywhere: with suffixes, clock, requests or chances used up the
system stops.

**Fairness.** `FairSpec` of `Upgrading` (in `upgrade_convergence`). Weak: each task's step and the
clean-ups' steps (the event loop runs every promise on, the API server answers), the
removal of a deleted pod (kubelet), and a listing by each user (the UI lists on a timer).
Strong: the passage of time, because with `MaxLag` 0 a listing that has just been made holds
time up until it is decided on, so time is not continuously enabled. Nothing is assumed about
pods becoming ready, users upgrading, or calls failing.

`SessionKey`: weak fairness of each process's steps, since every call has a time limit.
`WsProxy`: weak fairness of the handler, of the fetch of its keys and of the socket's events
(the event loop and the time limits of `fetch`). `UpstreamTalks` is fair only in setups whose
pod talks: pods are programs of third parties, so the setups have both kinds, and nothing is
assumed of a silent one. `Dashboard`: requests are
answered or fail, and the interval fires while it is installed. The safety properties need none of
it.

## 4. Findings

* *A pod that becomes ready at the time-out loses the workspace* (`late_readiness`).
  `docs/deploy/workspace-upgrades.md:106`: "The old pod remains running and active,
  preventing user outage." Trace: the listing reads the new pod as not ready at about 600 s
  and gives it up; the pod becomes ready; the task's last poll sees that and deletes the old
  pod; the clean-up deletes the new one. Task and clean-up decide on their own.
* *The recreate path creates first* (`volume_order`). ADR-024 line 49 and
  `docs/deploy/workspace-upgrades.md:77` say the old pod is deleted first to release the
  volume; `upgrade.ts` creates at line 269 and deletes at 277.
* *The workspace limit can be exceeded* (`quota`). `README.md:169` calls it the maximum
  number of active workspaces; counting and creating are separated by awaits.
* *`_auth/refresh` costs the session it is to renew* (`refresh_endpoint`).
  `docs/deploy/sso-identity.md:280`: it "Silently refreshes an expired access token"; line 307:
  "It updates all three cookies". Trace: the page calls with an expired access token; the
  preHandler exchanges the refresh token and puts the new cookies on the reply; the handler
  takes the old token from the request (`proxy-auth.ts:226`) and exchanges it again; a provider
  that rotates refuses, and the handler clears the cookie (`proxy-auth.ts:284`).
* *First bytes of a tunnel are doubled or displaced* (`frames`). ADR-028 line 39: "operate with
  100% data frame integrity", line 40: "preserved with zero frame loss". Trace: the client sends
  data with its upgrade request; it is put into `clientBuffer` (`ws-proxy.ts:57`), written from
  `head` (489) and written again from the buffer (497). Data between the creation of the
  socket and its connection goes out before the request line (60-65). A client that waits for the
  answer, as browsers do, is not affected: `BytesDelivered`.

Seen and not stated as properties, because no document promises otherwise, or because a
difference between text and code shows without a run:

* an upgrade that was launched before a stop recreates the stopped workspace; a stop that meets
  a 404 leaves the rest of its listing; the error annotation of an earlier upgrade is copied;
* an upgrade does not carry over the image of `containerOverrides`; the display name is lost
  when a template is given (`handlers/index.ts:203` and `214`); a service account
  `ws-sa-<id>` is shared by users with the same id;
* `docs/deploy/sso-identity.md:320` says of `no-auth` workspaces "No `x-user-sub` or
  `authorization` headers are injected"; with authentication enabled `proxy.ts:38-63` injects
  them for whoever has a token, while the WebSocket proxy does not (`HttpTold`, `WsTold`);
* ADR-002 line 32 says of the Secret "attempts read, then create with 409-conflict retry for race
  safety", and ADR-003 line 10 that all replicas are to share one key. The code looks for 404 and
  409 in `err.response.statusCode` (`session.ts:75`, `100`); the locked client library (1.4.0,
  `bun.lock:211`) throws an `ApiException` with `code` and without `response`, the form that
  `k8s/errors.ts:81-84` reads. With it an absent Secret is never created, and the replicas go on
  to the election although they might write. The library is not part of the repository, so
  `session_key` has both kinds of errors (`setup.statuses`), `KeyAgreement` is stated for
  statuses that are seen, and `DisagreementBounded` for both;
* `isNotFound` and the 409 of `pods.ts:86` read `response.statusCode` too; they are modelled as
  the code means them;
* ADR-022 speaks of a port that is bound while the key is resolved, but `startHttpServer`
  resolves it (`index.ts:231`) before it listens (`463`); `sso-identity.md:306` lists a check
  of the pod's owner after `_auth/refresh` that the handler does not make; ADR-002 line 63 says
  a WebSocket is authenticated by `nocr_sess`, the code reads `nocr_token`;
* a late renewed token overwrites `localStorage` (`fallback.ts:143`): later calls of the new
  user's page send it, and a 401 or a further renewal in answer to those does change the token
  of the new user; a page goes on with the
  session id of a process that has restarted; the session table only grows; a permissions
  report made during a passing failure stays for the life of the process.

## 5. Proofs

The proof modules are checked by TLAPS, for every value of the constants that meets the
named assumptions of the modules. These say that bounds are numbers, that sets which are
counted (replicas, requests, the objects of a setup) are finite, that a marker for "nobody"
is no user, and that what a setup starts with is well-formed. What goes beyond that is a
hypothesis of the theorem: `SafeTiming` of upgrades, `NamesDistinct` of the spawner, and
`SoundContents` and `HooksOutsideSpecs` of templates and calls.

Each safety theorem goes the same way: an invariant that is inductive, checked by TLC on the
instance of section 3 before it was proved, one lemma per action or per kind of action, and
the property as a consequence. Type correctness is a theorem for every component.

**Upgrades** (`UpgradingProofs`, `UpgradingSafety`).

* `OwnerPreservedHolds`: `Spec => []OwnerPreserved`, from `PodStoreAssumption` and
  `UpgradingAssumption` only. The strengthening adds that a task carries its workspace's
  owner until it creates the pod.
* `InvHolds`, `ZeroDowntimeHolds`, `RoutesToServingPodHolds` under `SafeTiming`: creation
  times of a workspace are distinct (`DistinctStamps`), `ReadyWithin + MaxFaults < MaxPolls`
  (a task still polls when the last moment for its pod to become ready has passed, also if
  polls failed) and `ReadyWithin + MaxLag <= UpgradeTimeout` (the same for the clean-up,
  with the delay between its listing and its decision). Finding 1 is what happens without
  the last two; equal creation times let two clean-ups delete each other's choice.
* `ImplementsCutoverHolds` under `SafeTiming`: `Spec => ImplementsCutover`. From `Inv` the newest
  ready pod of a workspace is one that nobody deletes and the only one the proxies can choose
  (`InvAnswered`), so the refinement mapping is its creation time. `TakesOverOne` says that a
  step changes the ready pods of one workspace at most, and `CutoverStep` that such a step is
  a step or a stutter of `Cutover`.

*Why `Inv` is needed.* That a workspace has a serving pod says nothing about deletions
already decided. `Inv` adds: a pod somebody is going to delete as the old one has a newer
serving pod of its workspace (`CondemnedSuperseded`), one to be deleted as a failed one can
never become ready (`FailedNeverReady`), and one that is terminating while ready has a newer
serving pod too (`TerminatingSuperseded`). "Newer" makes this stable: deleting a pod never
removes the last one, as a condemned pod's successor is newer and the newest is not
condemned. To establish the first when a task sees its pod ready, `TasksReplace` keeps the
task's new pod newer than the old one; for the second, `PollsCount` ties the number of polls
to the clock and to the faults, and `ChecksAreRecent` ties a clean-up's reading to the present.
`StampsOrder` and `FreshNames` say that stamps order the pods and that a name not yet created
is mentioned by nobody.

**Spawn, stop and upgrade together** (`SpawnerProofs`).

* `DeletesOwnPodsOnlyHolds` under `NamesDistinct`: two pairs of user and id have two pod names.
  The code joins user and id by a dash (`handlers/index.ts:291`), so `ws-a-b-c` is a name of
  two workspaces, and with such names TLC refutes the property: somebody keeps the name of a
  pod of one user that goes, and the other user spawns a pod of this name. The invariant `OwnInv` gives every name somebody has kept a meaning, a user and an id,
  whether or not a pod of the name exists at the moment (`Means`), and says that a suffix in
  hand is mentioned by nobody before its pod exists (`FreshSuffixes`).
* `QuotaOvershootBoundedHolds`: a spawn past its check was counted with the pods there were, and
  since then only the requests under way can have added one. `QuotaInv` adds that the sets
  counted are finite; `PodsFade` is what every other step does to them.

**Contents of pods** (`ContentsProofs`, and the last two theorems of `SpawnerProofs`).

* `UpgradesKeepContentsHolds` under `SoundContents`: for every pair of template states, every call
  of `spawn_workspace` and every user. `SoundContents` says that specs and calls are well-formed
  and that, with the placeholders filled in, no template lists a variable of the main container
  or a volume twice. The second half is needed: with a template that lists a variable twice,
  where the old pod had it from a secret, TLC refutes the property, since the old entry replaces
  the first of the two (`upgrade.ts:215`) and the process sees the second.
* `UpgradesSettleHolds` under `SoundContents` and `HooksOutsideSpecs`: the annotations *inside* the
  spec of a template are not those that ask for context, an init container or a sidecar. They
  come last on the new pod (`upgrade.ts:240`) and so take effect in the next upgrade only, which
  then does change the pod; TLC refutes the property with such a template. `NotSetIsNoSpec`
  says that the marker for "no pod" is no pod.
* `ManyUpgradesKeepContents`: the same along any number of upgrades with any templates, each of
  the pod the one before has made. No run checks it: a run has two upgrades.

The lemmas are about `Put` and the loops. `PutResult` says what is in a sequence after a loop
over it: the elements of the base keep their places and names, nothing is put behind another
element of its name, elements nobody overrides are those of the base, and the last override of
a name is the first element of that name. `PutBack` says that putting the outcome once more
gives the outcome. Both are inductions over the loop. The library's induction theorems have an
operator as parameter, which the provers here cannot instantiate; `UpTo` is their place taken by
the least counterexample, from the well-foundedness of the numbers, and `PutSteps` shows in the
same way that the recursive function of `PutSome` exists.

What has to hold of the old pod is `Regular`. Its part about the environment, `RegularEnv`, is the
strengthening: where the last entry of a variable has no value (it refers to a secret), no entry
has one. The values of the old pod come back twice, as context behind the template's
variables and as the old entries put over all of them, and a value in the context would hide an
old entry without one. Spawned pods are regular (`SpawnedPodRegular`), since their context comes
last and the rest names a variable once, and upgrades keep it (`RenewedRegular`): all entries of
a variable of the old pod are the one a process saw (`RenewedFacts`).

**Session key** (`SessionKeyProofs`).

* `KeyAgreementHolds`. The invariant `OnlyKey` says where a process can be while the
  deployment can be relied on (`Dependable`, which includes that statuses are seen): with the variable set it only reads, otherwise it never reaches
  the election, and who serves has the Secret's key, which nobody writes twice.
* `DisagreementBoundedHolds`. `DisagreementInv` follows every key in use to where it comes from
  (`Origins`: the variable, the Secret, an earlier life of a replica, or its present one) and
  every replica that made a key for itself to the reason (`Charged`: one of the replicas that
  a failed call had an effect on, of which there are no more than failed calls; deleted; gave
  up; created in the same second as another; or the leader, who is before everybody active).
  Two leaders would be before each other, so one key remains that nothing is charged for.

**Tokens and cookies** (`TokenRefreshProofs`).

* `NoCrossTalkHolds`. `Inv` says that a request waits only for an exchange of a token of a user
  whose credentials it carried, and that a token in a cookie, answer or exchange was issued.
* `CoalescingKeepsSessionHolds`. Until a disturbance, `Living`: the newest refresh token is in
  the jar, in an answer or result on its way, or in an exchange that succeeded; there is one
  exchange at a time, of the newest token, and one that succeeded is the only place with a
  token as new as its result (`NewestFlights`); no request clears the cookie.

**WebSocket proxy and verification** (`WsProxyProofs`).

* `KeysFreshHolds`. A key set that comes from the cache or in an answer has every change the
  provider made before the *request* for it began (`NewerThan`). It is the dating of the cache
  by the request that makes this inductive when fetches overlap.
* `BytesDeliveredHolds`. `Delivery` says where the chunks are until the pod is connected: in the
  buffer or written already; a client that waits for the answer has sent none by then.
* `RoutesAgreeHolds`. The decisions of the two proxies are compared for all claims, listings
  and paths, with a lemma for each part: the pod, the longest endpoint, visibility, access,
  port and path, and what the workspace is told.

**Tools and page** (`DashboardProofs`).

* `UpdatesSurviveHolds`. `SeenExact`: an object that still has the resource version a call has
  read is the object it has read, so a conditional replace loses no note of another update.
* `ActsOnCheckedHolds`, an action property. `CallsVetted`: a call about to act has seen objects,
  all of which its caller may act on, or is of a caller who need not be checked.
* `LateAnswersIgnoredHolds`, an action property. `PageInv`: a live call was made by the function
  of the token that is active now, a live connection is for it, and the function the page would
  call next, while live, is that token's too. A change of the token ends everything that is live
  (`Activates`), and only a connection that is still live installs a live function. So the answer
  to a call with another token comes back to a function that does nothing with it.
* Type correctness of the page is the same invariant: it is `live` that ties what is under
  way to the effect it belongs to. `CookieOK` says that the token of the cookie is a token or
  none, and stays so (`CookieKept`).

*Layout.* Lemmas on what each API call does to the pods (`DeletedPods`, `CreatedPods`, ...),
one lemma per conjunct on what preserves it (`CondemnedKept`, `MeaningKept`, `OnlyKeyKept`,
...), one per kind of step (`TaskCreateStep`, `ListingStep`, `ResolutionStep`, ...), then a
lemma over the disjuncts of `Next`, then the theorem.

*Only model-checked.* Liveness under fairness is out of this prover's reach: `Converges`,
`EveryReplicaServes`, `NoOrphan`, `EventuallyShown`. None of the modules declares a RECURSIVE
operator.
The five runs that end in a violation state what the code does not do.

## 6. Plan

Done: all components of section 1 as far as `PROJECT.json` says, their composition (`Spawner`,
`WsProxy`, `Dashboard`), and a proof of every safety invariant and action property that a
passing run checks. What is left:

1. `NamesDistinct` from what the code allows in user names and ids, or a finding about names
   that do share a dash: whether a cluster can have both depends on the identity provider.
2. A bound like `QuotaOvershootBounded` with admins, who spawn for others without a check.

**Not modelled.** Static files, themes, configuration and CLI parsing, rendering of the page
and its dialogs (input and output without state that another component reads); deployment
files, scripts, examples. Cryptography, the JSONPath of claims and the discovery of the token
endpoint (values and constants here). `_auth/token` and `_auth/authorize`, which keep nothing.
`list_namespaces`, `list_registry_images` and `check_permissions`, single reads nobody depends
on. The manifest of `provisionServiceAccount` and the inline `spec` of `spawn_workspace`, which
goes the way of a template that has no reference and so is never upgraded.
