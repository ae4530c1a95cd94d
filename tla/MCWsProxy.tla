------------------------------ MODULE MCWsProxy ------------------------------
EXTENDS WsProxy

Conf(enabled, verify) ==
    [enabled |-> enabled, verify |-> verify,
     readScope |-> "nogoo9:read", writeScope |-> "nogoo9:write", adminScope |-> "nogoo9:admin",
     readRole |-> "viewer", writeRole |-> Unset, adminRole |-> "admin",
     defaultRole |-> "viewer", adminUsers |-> {}]

Setup(conf, r, c, talks) == [conf |-> conf, rotations |-> r, chunks |-> c, talks |-> talks]

SomeSetups ==
    {Setup(Conf(TRUE, "jwks"), 1, 0, TRUE), Setup(Conf(TRUE, "introspection"), 0, 0, TRUE),
     Setup(Conf(TRUE, "key"), 0, 3, TRUE)}
        \cup {Setup(Conf(FALSE, "key"), 0, 2, talks) : talks \in BOOLEAN}

Token(kid, exp, audience, active) ==
    [kid |-> kid, exp |-> exp, audience |-> audience, active |-> active]

SomeCallers == {Token(1, 9, TRUE, TRUE), Token(2, 9, TRUE, FALSE), Token(1, 9, FALSE, TRUE),
                Token(1, 1, TRUE, TRUE)}

Bearer(sub, claim, scopes, roles) ==
    [sub |-> sub, claim |-> claim, scopes |-> scopes, roles |-> roles]

SomeClaims ==
    {Bearer("alice", "alice", {}, {}),
     Bearer("bob", "bob", {"nogoo9:read"}, {"viewer"}),
     Bearer("bob", "b0b", {"nogoo9:write"}, {"viewer", "dev"}),
     Bearer("carol", "carol", {"nogoo9:read", "metrics"}, {}),
     Bearer("root", "root", {"nogoo9:admin"}, {"admin"}),
     Bearer("dave", "dave", {"other"}, {"viewer"})}

Api(path, port, kind, name, names) ==
    [path |-> path, port |-> port, methods |-> {},
     visibility |-> [kind |-> kind, name |-> name, names |-> names]]

Apis == {Api(<<"a">>, 80, "internal", Unset, {}), Api(<<"a", "b">>, 81, "list", Unset, {"bob"}),
         Api(<<"c">>, 80, "scope", "metrics", {}), Api(<<"c", "b">>, 82, "role", "dev", {}),
         Api(<<"d">>, 83, "admin", Unset, {}), Api(<<>>, 84, "internal", Unset, {})}

Pod(phase, ip, noAuth, port, subfolder) ==
    [owner |-> "alice", phase |-> phase, ip |-> ip, noAuth |-> noAuth, requireToken |-> TRUE,
     port |-> port, apis |-> Apis, subfolder |-> subfolder]

SomeListings ==
    {<<>>, <<Pod("Running", TRUE, FALSE, 80, FALSE)>>,
     <<Pod("Pending", FALSE, TRUE, 80, FALSE), Pod("Running", TRUE, FALSE, 80, TRUE)>>,
     <<Pod("Running", FALSE, TRUE, 80, FALSE)>>, <<Pod("Running", TRUE, TRUE, 70000, FALSE)>>}

SomePaths == {<<>>, <<"a">>, <<"a", "b">>, <<"c", "x">>, <<"c", "b">>, <<"d">>}
=============================================================================
