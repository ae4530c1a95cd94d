----------------------------- MODULE MCDashboard -----------------------------
EXTENDS Dashboard

Conf(enabled) ==
    [enabled |-> enabled,
     readScope |-> "nogoo9:read", writeScope |-> "nogoo9:write", adminScope |-> "nogoo9:admin",
     readRole |-> Unset, writeRole |-> "dev", adminRole |-> "admin", defaultRole |-> "viewer",
     adminUsers |-> {}]

Alice == [sub |-> "alice", scopes |-> {"nogoo9:write"}, roles |-> {"dev"}]
Bob   == [sub |-> "bob", scopes |-> {"nogoo9:write"}, roles |-> {"dev"}]
Root  == [sub |-> "root", scopes |-> {"nogoo9:admin"}, roles |-> {"admin"}]

SomeUsers == {Alice, Bob, Root}
SomeNames == {"t", "w", "builtin"}
SomeWorkspaces == {"w"}
SomeLocalNames == {"builtin"}
SomeLabels == {[owner |-> Unset, mark |-> "none"], [owner |-> "bob", mark |-> "no"]}

NewObject(kind, name, uid, owner, marked) ==
    [kind |-> kind, name |-> name, uid |-> uid, rv |-> uid, owner |-> owner,
     marked |-> marked, notes |-> {}]

SomeObjects ==
    {NewObject("configmap", "t", 1, "alice", TRUE), NewObject("pod", "w", 2, "alice", TRUE)}

None == [clicks |-> 0, tokens |-> 0, expiries |-> 0, restarts |-> 0, losses |-> 0,
         reviews |-> 0]

\* The tools, two calls of any of them, or three about templates; no page.
ToolSetup(conf, managedOnly, tools, n) ==
    [conf |-> conf, managedOnly |-> managedOnly, objects |-> SomeObjects, tools |-> tools,
     calls |-> n, mode |-> "cluster", token |-> NoToken, cookie |-> NoToken, polls |-> FALSE,
     actions |-> {}, chances |-> None, open |-> FALSE, tokens |-> {},
     auto |-> TRUE]

TemplateTools == {"create_template", "update_template", "delete_template"}
PodTools == {"create_pod", "create_pod_from_template", "delete_pod", "patch_pod", "get_pod",
             "get_pod_logs", "list_pods"}

Token0(who) == [who |-> who, n |-> 0]

Renewed(who) == [who |-> who, n |-> 1]

PageSetup(enabled, mode, token, refreshed, actions, bounds) ==
    [ToolSetup(Conf(enabled), TRUE, {}, 0) EXCEPT !.mode = mode, !.token = token,
        !.cookie = refreshed, !.polls = TRUE, !.actions = actions, !.chances = bounds, !.open = TRUE,
        !.tokens = {Token0(Bob)}]

SomeSetups ==
    {ToolSetup(Conf(TRUE), TRUE, TemplateTools, 3),
     ToolSetup(Conf(TRUE), TRUE, PodTools \cup WorkspaceTools \cup {"get_template"}, 2),
     ToolSetup(Conf(TRUE), FALSE, PodTools, 2),
     ToolSetup(Conf(FALSE), FALSE, PodTools \cup TemplateTools, 2),
     PageSetup(TRUE, "cluster", Token0(Alice), NoToken, {}, [None EXCEPT !.tokens = 1]),
     PageSetup(TRUE, "namespaced", Token0(Alice), Renewed(Alice), {}, [None EXCEPT !.expiries = 1]),
     [PageSetup(TRUE, "namespaced", Token0(Alice), NoToken, {},
                [None EXCEPT !.tokens = 1, !.expiries = 1]) EXCEPT !.auto = FALSE, !.polls = FALSE],
     [PageSetup(TRUE, "namespaced", Token0(Alice), NoToken, {}, [None EXCEPT !.expiries = 1])
         EXCEPT !.auto = FALSE],
     [PageSetup(TRUE, "cluster", Token0(Alice), Renewed(Alice), {},
                [None EXCEPT !.tokens = 1, !.expiries = 1]) EXCEPT !.polls = FALSE],
     PageSetup(TRUE, "cluster", Token0(Root), NoToken, Actions, [None EXCEPT !.clicks = 1, !.losses = 1]),
     PageSetup(FALSE, "cluster", NoToken, NoToken, {"spawn_workspace", "stop_workspace"},
               [None EXCEPT !.clicks = 1, !.restarts = 1, !.reviews = 1])}
=============================================================================
