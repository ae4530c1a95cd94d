------------------------------- MODULE Tools -------------------------------
(***************************************************************************)
(* The template and pod tools of the MCP server (src/mcp/templates,        *)
(* src/mcp/pods) on the ConfigMaps and pods of a namespace, and the tools  *)
(* for a workspace that look at its pods or run a command in one.          *)
(*                                                                         *)
(* A handler looks at the caller, then reads the object it is about where  *)
(* the caller's rights depend on it, then acts on it in a second call of   *)
(* the Kubernetes API.  Between the two calls other clients act.           *)
(*                                                                         *)
(* An object is a record [kind, name, uid, rv, owner, marked, notes]: its  *)
(* owner is the user-sub label, or Unset; marked is the pod-template label *)
(* of a ConfigMap and the managed-by label of a pod; notes stand for the   *)
(* annotations and the spec.  The grace period of a deleted pod is left    *)
(* out here (PodStore has it).                                             *)
(***************************************************************************)
EXTENDS Access

CONSTANTS
    Clients,        \* MCP clients, each with one call at a time
    Users,          \* the claims of the callers
    Names,          \* names of ConfigMaps and pods
    LocalNames,     \* the templates that are files (findLocalTemplate)
    Labels,         \* the labels a call passes: [owner, mark], mark in {"none", "yes", "no"}
    Setups          \* what is looked at: [conf, managedOnly, objects, tools, calls, ...]

Owners == {Unset} \cup {who.sub : who \in Users} \cup {labels.owner : labels \in Labels}

Object == [kind : {"configmap", "pod"}, name : Names, uid : Nat, rv : Nat,
           owner : Owners, marked : BOOLEAN, notes : SUBSET Clients]

WellFormed(objs, last) ==
    /\ objs \subseteq Object
    /\ \A o \in objs : o.uid <= o.rv /\ o.rv <= last
    /\ \A o, p \in objs : o.kind = p.kind /\ o.name = p.name => o = p

ASSUME ToolsAssumption ==
    /\ NoClaims \notin Users
    /\ \A s \in Setups :
          /\ IsFiniteSet(s.objects)
          /\ WellFormed(s.objects, Cardinality(s.objects))
          /\ \A o, p \in s.objects : o.uid = p.uid => o = p

VARIABLES
    setup,          \* never changes
    objects,        \* the ConfigMaps and pods
    version,        \* the last resource version
    calls,          \* what each client waits for
    left,           \* how many calls the clients still make
    acknowledged    \* the updates that were answered with success

toolVars == <<setup, objects, version, calls, left, acknowledged>>

Auth == setup.conf.enabled
\* Without authentication nobody looks at the claims.
Callers == {NoClaims} \cup (IF Auth THEN Users ELSE {})
May(who, action) == ~Auth \/ (who # NoClaims /\ VerifyAccess(setup.conf, who, action))

\* A caller who is not an admin is held to their own objects.
Restricted(who) == Auth /\ ~IsAdminUser(setup.conf, who)

Sub(who) == IF Auth THEN who.sub ELSE Unset

Idle == [tool |-> Unset, who |-> NoClaims, name |-> Unset, labels |-> Unset,
         step |-> "idle", seen |-> {}]

Call == [tool : setup.tools \cup {Unset}, who : Users \cup {NoClaims},
         name : Names \cup {Unset}, labels : Labels \cup {Unset},
         step : {"idle", "read", "act"}, seen : SUBSET Object]

Named(kind, name) == {o \in objects : o.kind = kind /\ o.name = name}

ToolsInit ==
    /\ setup \in Setups
    /\ objects = setup.objects
    /\ version = Cardinality(objects)
    /\ calls = [c \in Clients |-> Idle]
    /\ left = setup.calls
    /\ acknowledged = {}

-----------------------------------------------------------------------------
(* The steps of a handler *)

\* A call arrives: a caller without the right is answered at once.  The handler reads the
\* object first for some callers, and acts at once for the others.
Asks(c, tool, action, readers, refused) ==
    /\ calls[c].step = "idle"
    /\ left > 0
    /\ tool \in setup.tools
    /\ left' = left - 1
    /\ \E who \in Callers, name \in Names, labels \in Labels :
          calls' = [calls EXCEPT ![c] =
              IF name \in refused \/ ~May(who, action) THEN Idle
              ELSE [tool |-> tool, who |-> who, name |-> name, labels |-> labels,
                    step |-> IF who \in readers THEN "read" ELSE "act", seen |-> {}]]
    /\ UNCHANGED <<setup, objects, version, acknowledged>>

At(c, tool, step) == calls[c].tool = tool /\ calls[c].step = step

\* The object is read and the handler goes on with it, or refuses.
Reads(c, found, permitted) ==
    /\ calls' = [calls EXCEPT ![c] =
          IF permitted THEN [@ EXCEPT !.step = "act", !.seen = found] ELSE Idle]
    /\ UNCHANGED <<setup, objects, version, left, acknowledged>>

\* A call that only shows something ends; it keeps what it showed.
Shows(c, found) ==
    /\ calls' = [calls EXCEPT ![c] = [Idle EXCEPT !.who = calls[c].who, !.seen = found]]
    /\ UNCHANGED <<setup, objects, version, left, acknowledged>>

Ends(c) == calls' = [calls EXCEPT ![c] = Idle]

\* Any call of the API can fail: the object is gone, exists already or has changed,
\* the server may not do it, or cannot be reached.  create_pod_from_template goes on
\* without the ConfigMap, and list_pods without the count.
CallFails(c) ==
    /\ calls[c].step \in {"read", "act"}
    /\ ~At(c, "create_pod_from_template", "read") /\ ~At(c, "list_pods", "act")
    /\ Ends(c)
    /\ UNCHANGED <<setup, objects, version, left, acknowledged>>

Owner(labels, otherwise) == IF labels.owner = Unset THEN otherwise ELSE labels.owner
Mark(labels, otherwise) == IF labels.mark = "none" THEN otherwise ELSE labels.mark = "yes"

Creates(c, kind, owner, marked) ==
    /\ Named(kind, calls[c].name) = {}
    /\ version' = version + 1
    /\ objects' = objects \cup {[kind |-> kind, name |-> calls[c].name, uid |-> version',
                                 rv |-> version', owner |-> owner, marked |-> marked,
                                 notes |-> {}]}
    /\ Ends(c)
    /\ UNCHANGED <<setup, left, acknowledged>>

\* A deletion names the object and nothing else.
Deletes(c, kind) ==
    /\ Named(kind, calls[c].name) # {}
    /\ objects' = objects \ Named(kind, calls[c].name)
    /\ Ends(c)
    /\ UNCHANGED <<setup, version, left, acknowledged>>

-----------------------------------------------------------------------------
(* Templates *)

\* Only the creator of a template and admins change it; one without a creator is for
\* admins.
Creator(c, found) ==
    ~Restricted(calls[c].who)
        \/ \A o \in found : o.owner # Unset /\ o.owner = Sub(calls[c].who)

\* The labels that are passed can take the template label away, but not the creator.
CreateTemplate(c) ==
    \/ Asks(c, "create_template", "template:create", {}, {})
    \/ /\ At(c, "create_template", "act")
       /\ LET call == calls[c]
          IN Creates(c, "configmap",
                     IF Auth THEN Sub(call.who) ELSE Owner(call.labels, Unset),
                     Mark(call.labels, TRUE))

\* Bug: what is written has lost its resource version.
Overwritten(seen) == Named("configmap", seen.name)

\* replaceNamespacedConfigMap with the metadata that was read, its resource version
\* among them.
Replaced(seen) == {o \in Named("configmap", seen.name) : o.uid = seen.uid /\ o.rv = seen.rv}

\* A name that is also a file cannot be updated.
UpdateTemplate(c) ==
    \/ Asks(c, "update_template", "template:write", Callers, LocalNames)
    \/ /\ At(c, "update_template", "read")
       /\ LET found == Named("configmap", calls[c].name)
          IN found # {} /\ Reads(c, found, Creator(c, found))
    \/ /\ At(c, "update_template", "act")
       /\ \E seen \in calls[c].seen : \E old \in Replaced(seen) :
             /\ version' = version + 1
             /\ objects' = (objects \ {old}) \cup
                   {[seen EXCEPT !.uid = old.uid, !.rv = version', !.notes = @ \cup {c},
                                 !.owner = Owner(calls[c].labels, @),
                                 !.marked = Mark(calls[c].labels, @)]}
             /\ acknowledged' = acknowledged \cup {[uid |-> old.uid, note |-> c]}
       /\ Ends(c)
       /\ UNCHANGED <<setup, left>>

\* Bug: the creator is not looked at.
DeleteTemplateUnread(c) ==
    \/ Asks(c, "delete_template", "template:write", {}, LocalNames)
    \/ At(c, "delete_template", "act") /\ Deletes(c, "configmap")

\* The template is read for callers who are not admins only.
DeleteTemplate(c) ==
    \/ Asks(c, "delete_template", "template:write",
            {who \in Users : Restricted(who)}, LocalNames)
    \/ /\ At(c, "delete_template", "read")
       /\ LET found == Named("configmap", calls[c].name)
          IN found # {} /\ Reads(c, found, Creator(c, found))
    \/ At(c, "delete_template", "act") /\ Deletes(c, "configmap")

\* The files; they are the same for everybody and do not change.
LocalTemplate(name) == name \in LocalNames
LocalTemplates == {[name |-> n, rv |-> 0] : n \in LocalNames}

\* list_templates: the ConfigMaps, or none of them when they cannot be listed, and the
\* files whose names are not taken.
ListedTemplates(maps) ==
    LET listed == {o \in maps : o.kind = "configmap" /\ o.marked}
    IN {[name |-> o.name, rv |-> o.rv] : o \in listed}
          \cup {t \in LocalTemplates : \A o \in listed : o.name # t.name}

\* get_template: the ConfigMap, or the file when there is none or it cannot be read.
GetTemplate(c) ==
    \/ Asks(c, "get_template", "read", Callers, {})
    \/ At(c, "get_template", "read") /\ Shows(c, Named("configmap", calls[c].name))
    \/ /\ At(c, "get_template", "read")
       /\ LocalTemplate(calls[c].name)
       /\ Shows(c, {})

\* Whether or not the ConfigMap can be read, the file stands in for it.  The pod gets
\* the labels of the template and of the caller, and no others.
CreatePodFromTemplate(c) ==
    \/ Asks(c, "create_pod_from_template", "write", Callers, {})
    \/ /\ At(c, "create_pod_from_template", "read")
       /\ \E found \in {Named("configmap", calls[c].name), {}} :
             Reads(c, found, found # {} \/ LocalTemplate(calls[c].name))
    \/ /\ At(c, "create_pod_from_template", "act")
       /\ Creates(c, "pod", Owner(calls[c].labels, Unset), Mark(calls[c].labels, FALSE))

-----------------------------------------------------------------------------
(* Pods *)

\* isManagedPod, and the caller's own unless an admin.
Permitted(who, o) ==
    /\ setup.managedOnly => o.marked
    /\ Restricted(who) => o.owner = Sub(who)

\* The pod is read before it is acted on only when there is something to check.
Checked == IF setup.managedOnly THEN Callers ELSE {who \in Users : Restricted(who)}

\* Both labels are forced on the pod.
CreatePod(c) ==
    \/ Asks(c, "create_pod", "write", {}, {})
    \/ /\ At(c, "create_pod", "act")
       /\ LET call == calls[c]
          IN Creates(c, "pod", IF Auth THEN Sub(call.who) ELSE Owner(call.labels, Unset), TRUE)

ChecksPod(c, tool) ==
    /\ At(c, tool, "read")
    /\ \E o \in Named("pod", calls[c].name) : Reads(c, {o}, Permitted(calls[c].who, o))

DeletePod(c) ==
    \/ Asks(c, "delete_pod", "write", Checked, {})
    \/ ChecksPod(c, "delete_pod")
    \/ At(c, "delete_pod", "act") /\ Deletes(c, "pod")

\* A patch merges into the pod as it is then; it can change both labels.
PatchPod(c) ==
    \/ Asks(c, "patch_pod", "write", Checked, {})
    \/ ChecksPod(c, "patch_pod")
    \/ /\ At(c, "patch_pod", "act")
       /\ \E old \in Named("pod", calls[c].name) :
             /\ version' = version + 1
             /\ objects' = (objects \ {old}) \cup
                   {[old EXCEPT !.rv = version', !.notes = @ \cup {c},
                                !.owner = Owner(calls[c].labels, @),
                                !.marked = Mark(calls[c].labels, @)]}
       /\ Ends(c)
       /\ UNCHANGED <<setup, left, acknowledged>>

GetPod(c) ==
    \/ Asks(c, "get_pod", "read", Callers, {})
    \/ /\ At(c, "get_pod", "read")
       /\ \E o \in Named("pod", calls[c].name) :
             IF Permitted(calls[c].who, o) THEN Shows(c, {o})
             ELSE Reads(c, {}, FALSE)

\* The pod is read for the check, or for its containers when none is named; the log is
\* fetched by the name of the pod.
GetPodLogs(c) ==
    \/ \E container \in BOOLEAN :
          Asks(c, "get_pod_logs", "read",
               IF container THEN Checked ELSE Callers, {})
    \/ ChecksPod(c, "get_pod_logs")
    \/ At(c, "get_pod_logs", "act") /\ Shows(c, Named("pod", calls[c].name))

\* list_pods: the pods the caller may see, and then in managed-only mode all of them, to
\* count what was not shown.
ListPods(c) ==
    \/ Asks(c, "list_pods", "read", Callers, {})
    \/ /\ At(c, "list_pods", "read")
       /\ LET listed == {o \in objects : o.kind = "pod" /\ Permitted(calls[c].who, o)}
          IN IF setup.managedOnly THEN Reads(c, listed, TRUE) ELSE Shows(c, listed)
    \/ At(c, "list_pods", "act") /\ Shows(c, calls[c].seen)

-----------------------------------------------------------------------------
(* Workspaces.  A workspace has the name of its pod here; the other tools for
   workspaces are modelled by Spawning and Upgrading. *)

\* verifyAuthAndGetContext (subFilter): what the server manages is not asked for.
WorkspacePods(who, id) == {o \in Named("pod", id) : Restricted(who) => o.owner = Sub(who)}

FindsWorkspace(c, tool) ==
    /\ At(c, tool, "read")
    /\ LET found == WorkspacePods(calls[c].who, calls[c].name)
       IN found # {} /\ Reads(c, found, TRUE)

\* Events carry the name of their pod.
GetWorkspaceEvents(c) ==
    \/ Asks(c, "get_workspace_events", "read", Callers, {})
    \/ FindsWorkspace(c, "get_workspace_events")
    \/ At(c, "get_workspace_events", "act") /\ Shows(c, Named("pod", calls[c].name))

\* The command is run in the pod of that name, and its output is shown.
RunAgentInWorkspace(c) ==
    \/ Asks(c, "run_agent_in_workspace", "workspace:write", Callers, {})
    \/ FindsWorkspace(c, "run_agent_in_workspace")
    \/ /\ At(c, "run_agent_in_workspace", "act")
       /\ Named("pod", calls[c].name) # {}
       /\ Shows(c, Named("pod", calls[c].name))

-----------------------------------------------------------------------------
ToolStep(c) ==
    \/ CreateTemplate(c) \/ UpdateTemplate(c) \/ DeleteTemplate(c) \/ GetTemplate(c)
    \/ CreatePodFromTemplate(c)
    \/ CreatePod(c) \/ DeletePod(c) \/ PatchPod(c)
    \/ GetPod(c) \/ GetPodLogs(c) \/ ListPods(c)
    \/ GetWorkspaceEvents(c) \/ RunAgentInWorkspace(c)
    \/ CallFails(c)

ToolsTypeOK ==
    /\ setup \in Setups
    /\ version \in Nat
    /\ WellFormed(objects, version)
    /\ calls \in [Clients -> Call]
    /\ \A c \in Clients : calls[c].who \in Callers

\* An update that was answered with success is not undone by a later one, however the
\* reads and writes of two updates of a template are interleaved (update_template writes
\* back what it has read).
UpdatesSurvive ==
    \A a \in acknowledged, o \in objects :
       o.kind = "configmap" /\ o.uid = a.uid => a.note \in o.notes

WorkspaceTools == {"get_workspace_events", "run_agent_in_workspace"}

\* What a call may act on: what the caller may see, or an object that is not what it was
\* when the call looked at it.
Entitled(call, o) ==
    \/ o \notin call.seen /\ call.seen # {}
    \/ /\ Restricted(call.who) => o.owner = Sub(call.who)
       /\ o.kind = "pod" /\ call.tool \notin WorkspaceTools => Permitted(call.who, o)

\* A call deletes, changes or shows the objects of somebody else, or in managed-only mode
\* a pod the server does not manage, only when the object has changed since the call checked
\* it: the checks of the tools and their calls of the API are separate, and which caller is
\* checked at all differs from tool to tool.
ActsOnChecked ==
    [][\A c \in Clients :
          calls[c].step # "idle" /\ calls'[c].step = "idle" =>
             /\ \A o \in objects \ objects' : Entitled(calls[c], o)
             /\ calls[c].tool \in {"get_pod", "get_pod_logs", "list_pods"} \cup WorkspaceTools =>
                   \A o \in calls'[c].seen : Entitled(calls[c], o)]_toolVars
=============================================================================
