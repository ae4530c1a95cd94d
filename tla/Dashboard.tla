----------------------------- MODULE Dashboard -----------------------------
(***************************************************************************)
(* The dashboard in a browser (src/ui/app.tsx, src/ui/fallback.ts) on an   *)
(* MCP server (Sessions), while other clients use the tools (Tools).       *)
(*                                                                         *)
(* React closures are explicit: a refresh keeps the token and the          *)
(* namespace of the render it was started in, but each of its steps calls  *)
(* the callServerTool that is installed at that moment.  That function     *)
(* keeps the token it was installed with and is live until the connection  *)
(* effect runs again.  An answer is applied when it arrives, whatever      *)
(* happened since the request.                                             *)
(***************************************************************************)
EXTENDS Tools, Sessions

CONSTANTS
    Workspaces,     \* names of the pods that are workspaces
    NoToken,
    Slots,          \* refreshes that overlap: 1..n
    Connections     \* initializations that overlap: 1..n

Tokens == [who : Users, n : 0..1]

ASSUME DashboardAssumption ==
    /\ Workspaces \subseteq Names
    /\ \A s \in Setups : /\ {s.token, s.cookie} \subseteq Tokens \cup {NoToken}
                         /\ s.tokens \subseteq Tokens

VARIABLES
    ui,             \* the page
    refreshes,      \* what each refresh, or action and refresh after it, waits for
    connections,    \* the initialize requests
    expired,        \* tokens the server does not accept any more
    cookie,         \* the token that the browser's refresh cookie is exchanged for, if any
    chances         \* bounds: what still happens [clicks, tokens, expiries,
                    \* restarts, losses, reviews]

pageVars == <<ui, refreshes, connections, cookie>>
vars == <<toolVars, sessionVars, pageVars, expired, chances>>

\* isAuthRequired, canConnect
Required == Auth
CanConnect(token) == setup.open /\ (~Required \/ token # NoToken)

Off == [step |-> "off"]

Page(token, auto) ==
    [saved |-> token,           \* localStorage nocr_token
     active |-> token,          \* activeToken
     bound |-> NoToken,         \* the token callServerTool was installed with
     live |-> FALSE,            \* isMounted of the effect that installed it
     ready |-> FALSE,           \* isInitialized
     due |-> FALSE,             \* the refresh effect is to run
     session |-> NoSession,     \* httpSessionId
     ns |-> "initial",          \* namespace
     auto |-> auto,             \* isAutoRefresh, kept in localStorage too
     admin |-> FALSE,           \* capabilities.isAdmin
     templates |-> {}, workspaces |-> {}]

NoRefreshes == [s \in Slots |-> Off]

\* The connection effect of a token has sent initialize.
Initializing(token) ==
    [step |-> "sent", token |-> token, live |-> TRUE, session |-> NoSession, fresh |-> NoToken]

\* Bug: the effect before is not cleaned up.
ConnectingUncleaned(inits, token) ==
    LET free == {i \in Connections : inits[i].step = "off"}
    IN  IF ~CanConnect(token) THEN inits
        ELSE [inits EXCEPT ![CHOOSE i \in free : \A j \in free : i <= j] =
                 Initializing(token)]

\* The connection effect for a token: the one before is cleaned up.
Connecting(inits, token) ==
    LET free == {i \in Connections : inits[i].step = "off"}
        cleaned == [i \in Connections |->
                       IF inits[i].step = "off" THEN Off ELSE [inits[i] EXCEPT !.live = FALSE]]
    IN  IF ~CanConnect(token) THEN cleaned
        ELSE [cleaned EXCEPT ![CHOOSE i \in free : \A j \in free : i <= j] =
                 Initializing(token)]

Cleaned(calling) ==
    [s \in Slots |-> IF calling[s].step = "off" THEN Off ELSE [calling[s] EXCEPT !.live = FALSE]]

\* A new page: everything under way on the old one is dropped.
Opened(token, auto) ==
    /\ ui' = Page(token, auto)
    /\ refreshes' = NoRefreshes
    /\ connections' = Connecting([i \in Connections |-> Off], token)

\* setActiveToken, after page and calling have changed otherwise: the connection
\* effect runs again.
Activates(page, calling, inits, token) ==
    IF token = page.active
    THEN ui' = page /\ refreshes' = calling /\ connections' = inits
    ELSE /\ CanConnect(token) => \E i \in Connections : inits[i].step = "off"
         /\ ui' = [page EXCEPT !.active = token, !.live = FALSE]
         /\ refreshes' = Cleaned(calling)
         /\ connections' = Connecting(inits, token)

Spends(kind) == chances[kind] > 0 /\ chances' = [chances EXCEPT ![kind] = @ - 1]

Init ==
    /\ ToolsInit
    /\ SessionsInit
    /\ LET token == setup.token
       IN  /\ ui = Page(token, setup.auto)
           /\ connections = Connecting([i \in Connections |-> Off], token)
           /\ refreshes = NoRefreshes
    /\ expired = {}
    /\ cookie = setup.cookie
    /\ chances = setup.chances

-----------------------------------------------------------------------------
(* The server *)

\* The access token of a request after the global preHandler: the one it carries, its
\* one that the refresh cookie, whoever's it is, is exchanged for, or none (401).
Authenticated(token) ==
    IF ~Auth \/ (token # NoToken /\ token \notin expired) THEN token ELSE cookie

Refused401(token) == Auth /\ Authenticated(token) = NoToken

\* x-refreshed-token.
Fresh(token) == IF Authenticated(token) = token THEN NoToken ELSE Authenticated(token)

\* initialize: a session is opened at once where the report is known.
InitializeArrives(i) ==
    /\ connections[i].step = "sent"
    /\ LET token == connections[i].token
       IN  IF Refused401(token)
           THEN /\ connections' = [connections EXCEPT ![i].step = "unauthorized"]
                /\ UNCHANGED sessionVars
           ELSE IF report = NoReport
           THEN /\ connections' = [connections EXCEPT ![i].step = "reviewing",
                                                     ![i].fresh = Fresh(token)]
                /\ UNCHANGED sessionVars
           ELSE /\ Opens(report)
                /\ connections' = [connections EXCEPT ![i].step = "opened", ![i].session = issued',
                                                     ![i].fresh = Fresh(token)]
                /\ UNCHANGED report
    /\ UNCHANGED <<toolVars, ui, refreshes, expired, cookie, chances>>

ReviewsEnd(i) ==
    /\ connections[i].step = "reviewing"
    /\ \E r \in SUBSET Resources :
          /\ Reviewed(r) /\ Opens(r)
          /\ IF r = Resources THEN UNCHANGED chances ELSE Spends("reviews")
    /\ connections' = [connections EXCEPT ![i].step = "opened", ![i].session = issued']
    /\ UNCHANGED <<toolVars, ui, refreshes, expired, cookie>>

\* Only the default namespace has anything in it.
Resolved(ns) == IF setup.mode = "namespaced" THEN "default" ELSE ns

ListedWorkspaces(who, ns) ==
    {[name |-> o.name, rv |-> o.rv] :
        o \in {p \in objects : /\ p.kind = "pod" /\ p.name \in Workspaces
                               /\ Resolved(ns) = "default"
                               /\ Restricted(who) => p.owner = Sub(who)}}

Templates(ns, listable) ==
    ListedTemplates(IF listable /\ Resolved(ns) = "default" THEN objects ELSE {})

\* The objects after an action of the dashboard: nothing changes where the tool refuses.
\* (The handlers of workspaces and their steps are modelled by Spawning and Upgrading.)
After(tool, who) ==
    LET own == {o \in objects : /\ o.kind = "pod" /\ o.name \in Workspaces
                                /\ Restricted(who) => o.owner = Sub(who)}
        new(kind, name) == [kind |-> kind, name |-> name, uid |-> version + 1,
                            rv |-> version + 1, owner |-> Sub(who), marked |-> TRUE,
                            notes |-> {}]
    IN  CASE tool = "spawn_workspace" /\ May(who, "write") ->
                 {objects \cup {new("pod", n)} : n \in {m \in Workspaces : Named("pod", m) = {}}}
          [] tool = "stop_workspace" /\ May(who, "write") -> {objects \ {o} : o \in own}
          [] tool = "upgrade_workspace" /\ May(who, "write") ->
                 {(objects \ {o}) \cup {[o EXCEPT !.uid = version + 1, !.rv = version + 1]} : o \in own}
          [] tool = "create_template" /\ May(who, "template:create") ->
                 {objects \cup {new("configmap", n)} :
                     n \in {m \in Names \ Workspaces : Named("configmap", m) = {}}}
          [] tool = "delete_template" /\ May(who, "template:write") ->
                 {objects \ {o} : o \in {p \in objects :
                     /\ p.kind = "configmap" /\ p.name \notin LocalNames
                     /\ Restricted(who) => p.owner = Sub(who)}}
          [] OTHER -> {}

Actions == {"spawn_workspace", "stop_workspace", "upgrade_workspace", "create_template",
            "delete_template"}

\* The renewed token is read from an answer with success only.
Answer(r, status, content) ==
    [r EXCEPT !.phase = "answered", !.status = status, !.content = content,
              !.fresh = IF status \in {"ok", "error"} THEN Fresh(r.token) ELSE NoToken]

Settled(s, status, content) ==
    /\ refreshes' = [refreshes EXCEPT ![s] = Answer(@, status, content)]
    /\ UNCHANGED <<setup, objects, version, calls, left, acknowledged>>

Needs(tool) ==
    CASE tool \in {"create_template", "delete_template"} -> {"configmaps"}
      [] tool \in {"capabilities", "namespace", "templates"} -> {}
      [] OTHER -> {"pods"}

\* get_capabilities asks nothing of the caller; current_namespace the right to read.
Capabilities(who) == {Auth /\ who # NoClaims /\ IsAdminUser(setup.conf, who)}
Reading(who) == IF May(who, "read") THEN "ok" ELSE "error"

\* Who calls is what the call says, or else what the token says; current_namespace is
\* called without saying it.
Caller(r) ==
    LET token == Authenticated(r.token)
    IN  IF r.active # NoToken /\ r.step # "namespace" THEN r.active.who
        ELSE IF token # NoToken THEN token.who ELSE NoClaims

\* tools/call.  A session
\* the process does not know is not initialized (400), a tool the session does not have
\* and a refused call are errors of the tool.
CallArrives(s) ==
    /\ refreshes[s].step # "off" /\ refreshes[s].phase = "sent"
    /\ LET r == refreshes[s]
           who == Caller(r)
       IN  CASE Refused401(r.token) -> Settled(s, "401", {})
             [] ~Refused401(r.token) /\ ~Known(r.session) -> Settled(s, "400", {})
             [] ~Refused401(r.token) /\ Known(r.session)
                /\ ~(Needs(r.step) \subseteq ToolsOf(r.session)) -> Settled(s, "error", {})
             [] OTHER ->
                \/ r.step = "capabilities" /\ Settled(s, "ok", Capabilities(who))
                \/ r.step = "namespace" /\ Settled(s, Reading(who), {})
                \/ r.step = "templates" /\ Settled(s, Reading(who), Templates(r.ns, TRUE))
                \/ r.step = "workspaces" /\ Settled(s, Reading(who), ListedWorkspaces(who, r.ns))
                \/ r.step \in Actions /\ After(r.step, who) = {} /\ Settled(s, "error", {})
                \/ /\ r.step \in Actions
                   /\ objects' \in After(r.step, who)
                   /\ version' = version + 1
                   /\ refreshes' = [refreshes EXCEPT ![s] = Answer(@, "ok", {})]
                   /\ UNCHANGED <<setup, calls, left, acknowledged>>
    /\ UNCHANGED <<sessionVars, ui, connections, expired, cookie, chances>>

\* The request is lost, or the ConfigMaps cannot be listed.
CallFailsOnce(s) ==
    /\ refreshes[s].step # "off" /\ refreshes[s].phase = "sent"
    /\ Spends("losses")
    /\ LET r == refreshes[s]
       IN  \/ Settled(s, "lost", {})
          \/ /\ r.step = "templates" /\ ~Refused401(r.token) /\ Known(r.session)
             /\ Settled(s, "ok", Templates(r.ns, FALSE))
    /\ UNCHANGED <<sessionVars, ui, connections, expired, cookie>>

\* The process is replaced: what it was doing for its clients ends too.
Restarts ==
    /\ Spends("restarts")
    /\ SessionsLost
    /\ calls' = [c \in Clients |-> Idle]
    /\ connections' = [i \in Connections |->
           IF connections[i].step \in {"sent", "reviewing"}
           THEN [connections[i] EXCEPT !.step = "refused"] ELSE connections[i]]
    /\ refreshes' = [s \in Slots |->
           IF refreshes[s].step # "off" /\ refreshes[s].phase = "sent"
           THEN Answer(refreshes[s], "lost", {}) ELSE refreshes[s]]
    /\ UNCHANGED <<setup, objects, version, left, acknowledged, ui, expired, cookie>>

-----------------------------------------------------------------------------
(* The page *)

\* callServerTool of the fallback: without a token it answers itself, and every further
\* step of a refresh too.
Token(page) == IF page.saved # NoToken THEN page.saved ELSE page.bound

\* A call is that of the function installed now, however long ago the refresh began.
Sent(page, r, step) ==
    IF Required /\ Token(page) = NoToken THEN Off
    ELSE [r EXCEPT !.step = step, !.phase = "sent", !.bound = page.bound, !.live = page.live,
                   !.token = Token(page), !.session = page.session, !.status = "none",
                   !.content = {}, !.fresh = NoToken]

\* What a render hands to the functions made in it: the token and the namespace.
Closure(page) ==
    [step |-> "off", phase |-> "sent", active |-> page.active, ns |-> page.ns,
     bound |-> NoToken, live |-> FALSE, token |-> NoToken, session |-> NoSession,
     status |-> "none", content |-> {}, fresh |-> NoToken]

\* initHttpFallback gets its answer: the session, and callServerTool with the token of
\* this effect.  An answer 401 forgets the token.
Connected(i) ==
    /\ connections[i].step = "opened"
    /\ LET c == connections[i]
           page == [ui EXCEPT !.session = c.session, !.bound = c.token, !.live = c.live,
                              !.saved = IF c.fresh # NoToken THEN c.fresh ELSE @]
       IN ui' = IF c.live THEN [page EXCEPT !.ready = TRUE, !.due = ui.due \/ ~ui.ready] ELSE page
    /\ connections' = [connections EXCEPT ![i] = Off]
    /\ UNCHANGED <<toolVars, sessionVars, refreshes, expired, cookie, chances>>

ConnectionRefused(i) ==
    /\ connections[i].step \in {"refused", "unauthorized"}
    /\ LET c == connections[i]
           inits == [connections EXCEPT ![i] = Off]
           page == IF c.step = "unauthorized" THEN [ui EXCEPT !.saved = NoToken] ELSE ui
       IN Activates(page, refreshes, inits,
                    IF c.step = "unauthorized" /\ c.live THEN NoToken ELSE ui.active)
    /\ UNCHANGED <<toolVars, sessionVars, expired, cookie, chances>>

FreeSlot(s) == refreshes[s].step = "off" /\ \A t \in Slots : t < s => refreshes[t].step # "off"

Begins(s, page) ==
    /\ ui' = [page EXCEPT !.due = FALSE]
    /\ refreshes' = [refreshes EXCEPT ![s] = Sent(page, Closure(page), "capabilities")]
    /\ UNCHANGED <<toolVars, sessionVars, connections, expired, cookie, chances>>

\* The refresh after the page is connected or the namespace has changed.
RefreshEffect(s) == ui.due /\ FreeSlot(s) /\ Begins(s, ui)

\* Bug: the interval keeps the function of the render it was set up in.
TickOfFirstRender(s) ==
    /\ ui.ready /\ setup.polls
    /\ FreeSlot(s)
    /\ Sent(ui, Closure(ui), "capabilities") # Off
    /\ Begins(s, [ui EXCEPT !.ns = "initial"])

\* The interval calls the function of the last render.
Tick(s) ==
    /\ ui.ready /\ setup.polls
    /\ FreeSlot(s)
    /\ Sent(ui, Closure(ui), "capabilities") # Off
    /\ Begins(s, ui)

\* An action of the user; the refresh after it has the closure of the action.
Clicks(s, tool) ==
    /\ ui.ready
    /\ tool \in setup.actions
    /\ FreeSlot(s)
    /\ Spends("clicks")
    /\ refreshes' = [refreshes EXCEPT ![s] = Sent(ui, Closure(ui), tool)]
    /\ UNCHANGED <<toolVars, sessionVars, ui, connections, expired, cookie>>

SpawnWorkspace(s)   == Clicks(s, "spawn_workspace")
StopWorkspace(s)    == Clicks(s, "stop_workspace")
UpgradeWorkspace(s) == Clicks(s, "upgrade_workspace")
CreatesTemplate(s)  == Clicks(s, "create_template")
DeletesTemplate(s)  == Clicks(s, "delete_template")

\* What an answer with success changes on the page.
Showing(page, r) ==
    CASE r.step = "capabilities" -> [page EXCEPT !.admin = TRUE \in r.content]
      [] r.step = "namespace"    -> [page EXCEPT !.ns = "default", !.due = @ \/ page.ns # "default"]
      [] r.step = "templates"    -> [page EXCEPT !.templates = r.content]
      [] r.step = "workspaces"   -> [page EXCEPT !.workspaces = r.content]
      [] OTHER -> page

Following == [capabilities |-> "namespace", namespace |-> "templates", templates |-> "workspaces"]

Continued(page, r) ==
    CASE r.step = "workspaces" -> Off
      [] r.step \in Actions -> IF r.status = "ok" THEN Sent(page, r, "capabilities") ELSE Off
      [] OTHER -> Sent(page, r, Following[r.step])

\* Bug: an answer to a call made for an earlier token sets the token as well.
ReplacingAnyway(r, otherwise) ==
    IF r.status = "401" THEN NoToken ELSE IF r.fresh # NoToken THEN r.fresh ELSE otherwise

\* The token after an answer: only the calls of the present effect change it.
Replacing(r, otherwise) ==
    IF ~r.live THEN otherwise
    ELSE IF r.status = "401" THEN NoToken
    ELSE IF r.fresh # NoToken THEN r.fresh ELSE otherwise

\* callServerToolFallback and what refreshData does with its result: an HTTP error ends
\* the refresh, an error of the tool skips its part.
AnswerArrives(s) ==
    /\ refreshes[s].step # "off" /\ refreshes[s].phase = "answered"
    /\ LET r == refreshes[s]
           answered == r.status \in {"ok", "error"}
           held == [ui EXCEPT !.saved = IF r.fresh # NoToken THEN r.fresh ELSE @,
                              !.session = IF answered THEN r.session ELSE @]
           page == IF r.status = "ok" THEN Showing(held, r) ELSE held
       IN Activates(page,
                    [refreshes EXCEPT ![s] = IF answered THEN Continued(page, r) ELSE Off],
                    connections, Replacing(r, ui.active))
    /\ UNCHANGED <<toolVars, sessionVars, expired, cookie, chances>>

-----------------------------------------------------------------------------
(* The user, and the tokens *)

\* handleLogout; the interval goes on.
Logout ==
    /\ ui.active # NoToken
    /\ Spends("tokens")
    /\ Activates([ui EXCEPT !.saved = NoToken, !.auto = FALSE, !.admin = FALSE,
                            !.templates = {}, !.workspaces = {}],
                 refreshes, connections, NoToken)
    /\ cookie' = NoToken
    /\ UNCHANGED <<toolVars, sessionVars, expired>>

\* A token is pasted; one way of doing so turns auto-refresh on.
PasteToken ==
    /\ Required
    /\ Spends("tokens")
    /\ \E token \in setup.tokens \ expired, auto \in {TRUE, ui.auto} :
          Activates([ui EXCEPT !.saved = token, !.auto = auto], refreshes, connections, token)
    /\ UNCHANGED <<toolVars, sessionVars, expired, cookie>>

\* The dialog can also forget the token.
ClearToken ==
    /\ ui.active # NoToken
    /\ Spends("tokens")
    /\ Activates([ui EXCEPT !.saved = NoToken], refreshes, connections, NoToken)
    /\ UNCHANGED <<toolVars, sessionVars, expired, cookie>>

\* handleLogin leaves the page and comes back with a code, which is exchanged.
Login ==
    /\ Required
    /\ Spends("tokens")
    /\ \E token \in setup.tokens \ expired : Opened(token, TRUE)
    /\ UNCHANGED <<toolVars, sessionVars, expired, cookie>>

Reload ==
    /\ Spends("tokens")
    /\ Opened(ui.saved, ui.auto)
    /\ UNCHANGED <<toolVars, sessionVars, expired, cookie>>

\* The watcher sees that the token has expired; with auto-refresh it calls handleLogin
\* instead.
ExpiryNoticed ==
    /\ ui.active \in expired /\ ~ui.auto
    /\ Activates([ui EXCEPT !.saved = NoToken], refreshes, connections, NoToken)
    /\ UNCHANGED <<toolVars, sessionVars, expired, cookie, chances>>

TokenExpires ==
    /\ Spends("expiries")
    /\ expired' = expired \cup {setup.token}
    /\ UNCHANGED <<toolVars, sessionVars, pageVars>>

OtherClients ==
    /\ \E c \in Clients : ToolStep(c)
    /\ UNCHANGED <<sessionVars, pageVars, expired, chances>>

-----------------------------------------------------------------------------
Server ==
    \/ \E i \in Connections : InitializeArrives(i) \/ ReviewsEnd(i)
    \/ \E s \in Slots : CallArrives(s)

Browser ==
    \/ \E i \in Connections : Connected(i) \/ ConnectionRefused(i)
    \/ \E s \in Slots : RefreshEffect(s) \/ AnswerArrives(s)

User ==
    \/ \E s \in Slots : \/ SpawnWorkspace(s) \/ StopWorkspace(s) \/ UpgradeWorkspace(s)
                       \/ CreatesTemplate(s) \/ DeletesTemplate(s)
    \/ Logout \/ ClearToken \/ PasteToken \/ Login \/ Reload

Next ==
    \/ Server \/ Browser \/ User \/ OtherClients
    \/ \E s \in Slots : Tick(s) \/ CallFailsOnce(s)
    \/ ExpiryNoticed \/ TokenExpires \/ Restarts

\* Requests are answered, answers are taken, and the timer fires; nothing else has to
\* happen.
Fairness ==
    /\ \A i \in Connections : WF_vars(InitializeArrives(i) \/ ReviewsEnd(i)
                                       \/ Connected(i) \/ ConnectionRefused(i))
    /\ \A s \in Slots : WF_vars(CallArrives(s) \/ AnswerArrives(s))
    /\ WF_vars(\E s \in Slots : Tick(s))

Spec == Init /\ [][Next]_vars

FairSpec == Spec /\ Fairness

-----------------------------------------------------------------------------
TypeOK ==
    /\ ToolsTypeOK /\ SessionsTypeOK
    /\ {ui.saved, ui.active, ui.bound, cookie} \subseteq Tokens \cup {NoToken}
    /\ ui.session \in 0..issued
    /\ ui.live => ui.bound = ui.active
    /\ \A i \in Connections :
          /\ connections[i].step \in {"off", "sent", "reviewing", "opened", "refused",
                                     "unauthorized"}
          /\ connections[i].step # "off" /\ connections[i].live => connections[i].token = ui.active
    /\ \A s \in Slots : refreshes[s].step # "off" =>
          /\ refreshes[s].phase \in {"sent", "answered"}
          /\ refreshes[s].session \in 0..issued
          /\ refreshes[s].live => /\ refreshes[s].bound = ui.active
                                  /\ Required => ui.active # NoToken

\* An answer that arrives late, to a call or an initialize that the page made with another
\* token than it has now, neither signs the present user out (401) nor brings the earlier
\* token or a renewal of it back, and nobody who has signed out is signed in again: the
\* answer is for the function of an effect that has ended since (isMounted, app.tsx:102-137).
\* What an old refresh calls after the page is connected again are calls of the new function,
\* with the token then in localStorage; their answers count.
LateAnswersIgnored ==
    [][/\ \A s \in Slots :
             AnswerArrives(s) /\ refreshes[s].bound # ui.active => ui'.active = ui.active
       /\ \A i \in Connections :
             ConnectionRefused(i) /\ connections[i].token # ui.active =>
                ui'.active = ui.active]_vars

\* What the page needs to work: it is connected to a session that the process knows and
\* that has the tools, with a token that is accepted.
Working ==
    /\ ui.ready /\ setup.polls
    /\ Known(ui.session) /\ "pods" \in ToolsOf(ui.session)
    /\ Required => ui.active # NoToken /\ ~Refused401(Token(ui))

\* The lists are those of the user in the server's namespace.
Current ==
    LET who == IF ui.active # NoToken THEN ui.active.who ELSE NoClaims
    IN  /\ Required => who # NoClaims
        /\ ui.templates = Templates("default", TRUE)
        /\ ui.workspaces = ListedWorkspaces(who, "default")

\* A page that keeps working comes to show what there is, for the user who is signed in, and
\* stays so when nothing changes any more: overlapping refreshes, lost requests, a namespace
\* learned late and lists of an earlier user are all repaired by the interval.
EventuallyShown == <>[]Working => <>[]Current
=============================================================================
