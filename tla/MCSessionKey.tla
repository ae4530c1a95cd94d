---------------------------- MODULE MCSessionKey ----------------------------
EXTENDS SessionKey

Cluster(secrets) == [env |-> FALSE, secrets |-> secrets, direct |-> TRUE, statuses |-> TRUE]
Env == [Cluster("none") EXCEPT !.env = TRUE]
OtherPort == [Cluster("none") EXCEPT !.direct = FALSE]
Unseen == [Cluster("write") EXCEPT !.statuses = FALSE]

AllSetups == {Env, OtherPort, Unseen, Cluster("write"), Cluster("read"), Cluster("none")}
=============================================================================
