------------------------------ MODULE Sessions ------------------------------
(***************************************************************************)
(* The MCP sessions of a server process (src/server/sse.ts, the factory in *)
(* src/server/index.ts) and the report of what the process may do in the   *)
(* cluster (src/k8s/permissions.ts), which decides which tools a session   *)
(* has.                                                                    *)
(*                                                                         *)
(* The report is made once: the first sessions that find none make their   *)
(* own, and the last one made stays for the life of the process.  A        *)
(* session keeps the tools of its beginning.  Sessions end with the        *)
(* process: the route takes no DELETE, so the SDK never reports one        *)
(* closed.  What is granted is abstracted to the resources of the cluster; *)
(* the process is granted all of them, but asking can fail.                *)
(***************************************************************************)
EXTENDS Naturals

CONSTANT Resources      \* "pods" and "configmaps"

NoReport == {"none"}
NoSession == 0

VARIABLES
    sessions,       \* the sessions of the process: [id, tools]
    issued,         \* the last session id
    report          \* cachedReport

sessionVars == <<sessions, issued, report>>

SessionsInit ==
    /\ sessions = {}
    /\ issued = NoSession
    /\ report = NoReport

Known(id) == \E s \in sessions : s.id = id
ToolsOf(id) == UNION {s.tools : s \in {t \in sessions : t.id = id}}

\* evaluatePermissions without a cached report: a review that fails counts as a refusal
\* and is cached like one.
Reviewed(r) ==
    /\ r \subseteq Resources
    /\ report' = r

\* createMcpServer and the transport, on initialize.
Opens(tools) ==
    /\ issued' = issued + 1
    /\ sessions' = sessions \cup {[id |-> issued', tools |-> tools]}

\* The process ends, and a new one starts.
SessionsLost ==
    /\ sessions' = {}
    /\ report' = NoReport
    /\ UNCHANGED issued

SessionsTypeOK ==
    /\ \A s \in sessions : s.id \in 1..issued /\ s.tools \subseteq Resources
    /\ \A s, t \in sessions : s.id = t.id => s = t
    /\ report \in (SUBSET Resources) \cup {NoReport}
=============================================================================
