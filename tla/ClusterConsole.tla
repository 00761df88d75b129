--------------------------- MODULE ClusterConsole ---------------------------
(***************************************************************************)
(* The cluster half of the console: App.tsx with the views that act on its *)
(* state (TopologyView, Playground, ServiceDesigner, MetricsDashboard,     *)
(* LogsAndTraces) and the two handlers of server.ts they call.             *)
(*                                                                         *)
(* App mounts one view at a time; leaving a view drops its state, but its  *)
(* timers and calls go on and still reach App through the callbacks they   *)
(* captured.  A callback works on the nodes and the workload of the click  *)
(* that captured it, not on those of the moment it runs.  The log lines    *)
(* and the CPU and memory readouts are left out.                           *)
(***************************************************************************)
EXTENDS Integers, Sequences, SequencesExt, FiniteSets

CONSTANTS
    Core,           \* the nodes at the start: a sequence of [id, port, total]
    BasePort,       \* 8080
    Pods,           \* the replicas of a deployed service (3)
    Names,          \* what the designer is asked to build
    Slug,           \* the node identifier made of each name
    WorkloadLevels,
    Offered,        \* the endpoints of the playground
    Disk,           \* entries of the workspace: [path, skipped, large]
    Keyed,          \* GEMINI_API_KEY is set
    HistoryCap,     \* telemetry points kept (40)
    TraceCap,       \* traces kept (20)
    Builds,         \* bounds the generations of a behaviour
    MaxRestarts, MaxSends, MaxScans  \* bound what is pending at once

Endpoints == {"POST /transactions", "GET /transactions/:id",
              "POST /auth/token", "GET /metrics"}

\* What a module that instantiates this one assumes.
ClusterAssumption ==
    /\ Core \in Seq([id : STRING, port : Nat, total : Nat \ {0}])
    /\ Core # <<>>
    /\ \A i, j \in DOMAIN Core :
         i # j => Core[i].port # Core[j].port /\ Core[i].id # Core[j].id
    /\ \A i \in DOMAIN Core : Core[i].port < BasePort + Len(Core)
    /\ BasePort \in Nat /\ Pods \in Nat \ {0}
    /\ Slug \in [Names -> STRING] /\ Names # {}
    /\ IsFiniteSet(Builds) /\ Builds \subseteq Nat
    /\ "normal" \in WorkloadLevels /\ Offered \subseteq Endpoints
    /\ \E e \in Disk : e.path = "README.md" /\ ~e.skipped /\ ~e.large
    /\ Keyed \in BOOLEAN
    /\ {HistoryCap, TraceCap} \subseteq Nat \ {0}
    /\ {MaxRestarts, MaxSends, MaxScans} \subseteq Nat

-----------------------------------------------------------------------------
(* Records *)

Ids == {Core[i].id : i \in DOMAIN Core} \cup {Slug[n] : n \in Names}
Sizes == 0..(Len(Core) + Cardinality(Builds))
Totals == {Core[i].total : i \in DOMAIN Core} \cup {Pods}

NodeStatuses == {"HEALTHY", "DEGRADED", "CRITICAL", "OFFLINE"}

ServiceNode == [id : Ids, port : Nat, status : NodeStatuses, active : Nat,
                total : Nat]
CoreNode(c) == [id |-> c.id, port |-> c.port, status |-> "HEALTHY",
                active |-> c.total, total |-> c.total]

\* A telemetry point is known by its error rate; 85 stands for 85 to 94.
TelemetryPoint == {85, 100} \cup {25 * k : k \in 0..3}

Services == {"api-gateway", "auth-service", "compute-engine", "postgres-db"}
Codes == {200, 201, 401, 422, 503}
NoAnswer == 0

\* A trace is known by its status and the services of its spans; answer is
\* what the playground showed for the request.
Trace == [status : Codes, spans : SUBSET Services, answer : Codes \cup {NoAnswer}]
SeedTrace == [status |-> 201, spans |-> Services, answer |-> NoAnswer]

GeneratedFiles == {"cmd/server/main.go", "internal/domain/entity.go",
    "internal/repository/postgres.go", "internal/usecase/service.go",
    "internal/delivery/http/handler.go", "Dockerfile", "k8s/deployment.yaml",
    "charts/helm/values.yaml", "telemetry/prometheus.yml",
    ".github/workflows/ci-cd.yaml", "api/openapi.yaml",
    "internal/usecase/service_test.go"}
ServiceCode == [serviceName : Names, files : {GeneratedFiles}]

Tabs == {"topology", "metrics", "tracing", "designer", "playground", "elsewhere"}

VARIABLES
    activeTab,
    currentWorkload,
    nodes,          \* the replica sets of the cluster
    deployed,       \* deployedServices
    telemetry,      \* telemetryHistory
    traces,         \* newest first
    selected,       \* TopologyView: the node selected
    restarts,       \* its timers, oldest first
    play,           \* Playground: [loading, status]
    sends,          \* its timers, oldest first
    designer,       \* ServiceDesigner
    builds,         \* generations under way
    opened          \* LogsAndTraces: place of the selected trace, 0 if none

app == <<currentWorkload, nodes, deployed, telemetry, traces>>
views == <<selected, play, designer, opened>>
vars == <<activeTab, app, views, restarts, sends, builds>>

Build == [stage : {"unused", "called", "answered", "ended"}, own : BOOLEAN,
          name : Names, size : Sizes, overlapped : BOOLEAN]
Send == [own : BOOLEAN, answer : Codes, trace : Trace]

NewPlay == [loading |-> FALSE, status |-> NoAnswer]
\* crossed: an answer for the mode that is not on view picked the file.
NewDesigner(scans) ==
    [mode |-> "workspace", loading |-> FALSE, generated |-> FALSE,
     disk |-> FALSE, file |-> "README.md", scans |-> scans, crossed |-> FALSE]

Init ==
    /\ activeTab = "topology" /\ currentWorkload = "normal"
    /\ nodes = [i \in DOMAIN Core |-> CoreNode(Core[i])]
    /\ deployed = <<>>
    /\ telemetry = [i \in 1..HistoryCap |-> 0]
    /\ traces = <<SeedTrace>>
    /\ selected = "api-gateway" /\ restarts = <<>>
    /\ play = NewPlay /\ sends = <<>>
    /\ designer = NewDesigner(0)
    /\ builds = [b \in Builds |->
         [stage |-> "unused", own |-> FALSE, name |-> CHOOSE n \in Names : TRUE,
          size |-> 0, overlapped |-> FALSE]]
    /\ opened = 0

-----------------------------------------------------------------------------
(* What App does for its views *)

AtMost(a, b) == IF a < b THEN a ELSE b

HandleUpdateNode(id, status, active, total) ==
    nodes' = [i \in DOMAIN nodes |->
        IF nodes[i].id = id
        THEN [nodes[i] EXCEPT !.status = status, !.active = active, !.total = total]
        ELSE nodes[i]]

NewNode(name, size) ==
    [id |-> Slug[name], port |-> BasePort + size, status |-> "HEALTHY",
     active |-> Pods, total |-> Pods]
HandleDeployService(name, size) ==
    /\ deployed' = Append(deployed, name)
    /\ nodes' = Append(nodes, NewNode(name, size))

\* nodes.find(...)?.status: the first node of that name, if there is one.
Online(id) ==
    \A i \in DOMAIN nodes :
       (nodes[i].id = id /\ \A j \in 1..(i - 1) : nodes[j].id # id)
          => nodes[i].status # "OFFLINE"

NewTrace(trace) ==
    /\ traces' = <<trace>> \o SubSeq(traces, 1, AtMost(Len(traces), TraceCap - 1))
    /\ opened' = IF opened \in 1..TraceCap THEN opened + 1 ELSE opened

Outage == currentWorkload = "outage" \/ ~Online("postgres-db")
TraceStatus(isGet, positive) ==
    CASE Outage -> 503
      [] ~Outage /\ ~isGet /\ ~positive -> 422
      [] OTHER -> IF isGet THEN 200 ELSE 201
TraceSpans(isGet, status) ==
    {"api-gateway"}
    \cup (IF Online("auth-service") THEN {"auth-service"} ELSE {})
    \cup (IF Online("compute-engine") THEN {"compute-engine"} ELSE {})
    \cup (IF Online("compute-engine") /\ ~isGet /\ ~Outage /\ status # 422
          THEN {"postgres-db"} ELSE {})

-----------------------------------------------------------------------------
(* App itself *)

Mount(tab) ==
    /\ selected' = "api-gateway"
    /\ play' = NewPlay
    /\ designer' = NewDesigner(IF tab = "designer" THEN AtMost(1, MaxScans) ELSE 0)
    /\ opened' = IF tab = "tracing" THEN 1 ELSE 0

SetActiveTab(tab) ==
    /\ tab # activeTab
    /\ activeTab' = tab
    /\ Mount(tab)
    /\ sends' = [i \in DOMAIN sends |-> [sends[i] EXCEPT !.own = FALSE]]
    /\ builds' = [b \in Builds |-> [builds[b] EXCEPT !.own = FALSE]]
    /\ UNCHANGED <<app, restarts>>

Offline == Cardinality({i \in DOMAIN nodes : nodes[i].status = "OFFLINE"})
ErrorRate ==
    IF currentWorkload = "outage" THEN 85 ELSE AtMost(25 * Offline, 100)
ClusterStatus == IF Offline > 0 THEN "Degraded" ELSE "Healthy"

BackgroundStatuses ==
    {200, 201} \cup (IF ErrorRate > 30 THEN {503} ELSE {})
BackgroundTrace(status) ==
    [status |-> status, spans |-> {"api-gateway", "auth-service"},
     answer |-> NoAnswer]

TelemetryTick ==
    /\ telemetry' = Append(SubSeq(telemetry,
                        Len(telemetry) - AtMost(Len(telemetry), HistoryCap - 1) + 1,
                        Len(telemetry)), ErrorRate)
    /\ \/ \E s \in BackgroundStatuses : NewTrace(BackgroundTrace(s))
       \/ UNCHANGED <<traces, opened>>
    /\ UNCHANGED <<activeTab, currentWorkload, nodes, deployed, selected, play,
                   designer, restarts, sends, builds>>

-----------------------------------------------------------------------------
(* MetricsDashboard and LogsAndTraces *)

Latest == IF telemetry = <<>> THEN 0 ELSE Last(telemetry)

SetWorkload(w) ==
    /\ activeTab = "metrics"
    /\ currentWorkload' = w
    /\ UNCHANGED <<activeTab, nodes, deployed, telemetry, traces, views,
                   restarts, sends, builds>>

SelectTrace(i) ==
    /\ activeTab = "tracing"
    /\ opened' = i
    /\ UNCHANGED <<activeTab, app, selected, play, designer, restarts, sends, builds>>

\* The trace on view; none once the selected one has been pushed out.
SelectedTrace == IF opened \in DOMAIN traces THEN <<traces[opened]>> ELSE <<>>

-----------------------------------------------------------------------------
(* TopologyView *)

SelectedNode ==
    LET found == {i \in DOMAIN nodes : nodes[i].id = selected}
    IN  IF found = {} THEN nodes[1]
        ELSE nodes[CHOOSE i \in found : \A j \in found : i <= j]

\* Only nodes with coordinates are drawn.
SelectNode(id) ==
    /\ activeTab = "topology"
    /\ \E i \in DOMAIN Core : Core[i].id = id
    /\ selected' = id
    /\ UNCHANGED <<activeTab, app, play, designer, opened, restarts, sends, builds>>

Topology ==
    /\ activeTab = "topology"
    /\ UNCHANGED <<activeTab, currentWorkload, deployed, telemetry, traces, views,
                   sends, builds>>

ScaleEnabled(next) ==
    /\ SelectedNode.status # "OFFLINE"
    /\ next \in 1..SelectedNode.total
ScaledStatus(next, max) ==
    CASE next = 0 -> "OFFLINE"
      [] next \in 1..(max - 1) -> "DEGRADED"
      [] next = max -> "HEALTHY"
HandleScale(step) ==
    LET next == SelectedNode.active + step
    IN  /\ ScaleEnabled(next)
        /\ HandleUpdateNode(SelectedNode.id,
             ScaledStatus(next, SelectedNode.total), next, SelectedNode.total)
        /\ Topology
        /\ UNCHANGED restarts

HandleTogglePower ==
    /\ IF SelectedNode.status = "OFFLINE"
       THEN HandleUpdateNode(SelectedNode.id, "HEALTHY", SelectedNode.total,
                             SelectedNode.total)
       ELSE HandleUpdateNode(SelectedNode.id, "OFFLINE", 0, SelectedNode.total)
    /\ Topology
    /\ UNCHANGED restarts

HandleRestart ==
    /\ SelectedNode.status # "OFFLINE"
    /\ Len(restarts) < MaxRestarts
    /\ HandleUpdateNode(SelectedNode.id, "DEGRADED", 1, SelectedNode.total)
    /\ restarts' = Append(restarts,
                          [id |-> SelectedNode.id, total |-> SelectedNode.total])
    /\ Topology

\* Fault: the restart ends with the one pod it began with.
RestartEndsAlone ==
    /\ restarts # <<>>
    /\ HandleUpdateNode(Head(restarts).id, "HEALTHY", 1, Head(restarts).total)
    /\ restarts' = Tail(restarts)
    /\ UNCHANGED <<activeTab, currentWorkload, deployed, telemetry, traces, views,
                   sends, builds>>

\* Four seconds later, whatever has become of the node or of the view.
RestartEnds ==
    /\ restarts # <<>>
    /\ LET r == Head(restarts)
       IN  HandleUpdateNode(r.id, "HEALTHY", r.total, r.total)
    /\ restarts' = Tail(restarts)
    /\ UNCHANGED <<activeTab, currentWorkload, deployed, telemetry, traces, views,
                   sends, builds>>

-----------------------------------------------------------------------------
(* Playground *)

Answer(endpoint, authorized, positive) ==
    CASE endpoint # "POST /transactions" -> 200
      [] endpoint = "POST /transactions" /\ ~authorized -> 401
      [] endpoint = "POST /transactions" /\ authorized ->
           IF positive THEN 201 ELSE 422
IsGet(endpoint) == endpoint \in {"GET /transactions/:id", "GET /metrics"}

\* The trace and the lines are those of the nodes and the workload now: the
\* callback was captured by this render.
HandleSendRequest(endpoint, authorized, positive) ==
    LET isGet == IsGet(endpoint)
        answer == Answer(endpoint, authorized, positive)
        status == TraceStatus(isGet, positive)
    IN  /\ activeTab = "playground" /\ ~play.loading
        /\ Len(sends) < MaxSends
        /\ play' = [loading |-> TRUE, status |-> NoAnswer]
        /\ sends' = Append(sends,
             [own |-> TRUE, answer |-> answer,
              trace |-> [status |-> status, spans |-> TraceSpans(isGet, status),
                         answer |-> answer]])
        /\ UNCHANGED <<activeTab, currentWorkload, nodes, deployed, telemetry,
                       traces, selected, designer, opened, restarts, builds>>

RequestAnswered ==
    /\ sends # <<>>
    /\ LET s == Head(sends)
       IN  /\ play' = IF s.own THEN [loading |-> FALSE, status |-> s.answer] ELSE play
           /\ NewTrace(s.trace)
    /\ sends' = Tail(sends)
    /\ UNCHANGED <<activeTab, currentWorkload, nodes, deployed, telemetry, selected,
                   designer, restarts, builds>>

-----------------------------------------------------------------------------
(* ServiceDesigner, with its two handlers of server.ts *)

WorkspaceFiles == {e.path : e \in {d \in Disk : ~d.skipped /\ ~d.large}}
FallbackService(name) == [serviceName |-> name, files |-> GeneratedFiles]

\* Without a key the server answers the template; with one, what the model
\* made, whose name need not be the one asked for.
GenerateService(name) == IF Keyed THEN ServiceCode ELSE {FallbackService(name)}

FilesOf(mode) ==
    CASE mode = "workspace" /\ designer.disk -> WorkspaceFiles
      [] mode = "generator" /\ designer.generated -> GeneratedFiles
      [] OTHER -> {}

Designer ==
    /\ activeTab = "designer"
    /\ UNCHANGED <<activeTab, app, selected, play, opened, restarts, sends, builds>>

Rescan ==
    /\ designer.mode = "workspace" /\ designer.scans < MaxScans
    /\ designer' = [designer EXCEPT !.scans = @ + 1]
    /\ Designer

ScanAnswers ==
    /\ designer.scans > 0
    /\ designer' = [designer EXCEPT !.scans = @ - 1, !.disk = TRUE,
                       !.file = "README.md", !.crossed = designer.mode = "generator"]
    /\ Designer

ScanFails ==
    /\ designer.scans > 0
    /\ designer' = [designer EXCEPT !.scans = @ - 1]
    /\ Designer

ShowWorkspace ==
    /\ designer' = IF designer.disk
                   THEN [designer EXCEPT !.mode = "workspace", !.file = "README.md",
                                         !.crossed = FALSE]
                   ELSE [designer EXCEPT !.mode = "workspace"]
    /\ Designer

FirstFile == "cmd/server/main.go"
ShowGenerator ==
    /\ designer' = [designer EXCEPT !.mode = "generator", !.crossed = FALSE,
                       !.file = IF designer.generated THEN FirstFile ELSE ""]
    /\ Designer

SelectFile(f) ==
    /\ ~designer.loading /\ f \in FilesOf(designer.mode)
    /\ designer' = [designer EXCEPT !.file = f, !.crossed = FALSE]
    /\ Designer

\* A generation under way; a deployment of one is still to come.
UnderWay(b) == builds[b].stage \in {"called", "answered"}

HandleGenerateService(b, name) ==
    /\ activeTab = "designer" /\ designer.mode = "generator" /\ ~designer.loading
    /\ builds[b].stage = "unused"
    /\ \A c \in Builds : c < b => builds[c].stage # "unused"
    /\ designer' = [designer EXCEPT !.loading = TRUE, !.generated = FALSE]
    /\ builds' = [c \in Builds |->
         IF c = b
         THEN [stage |-> "called", own |-> TRUE, name |-> name,
               size |-> Len(nodes), overlapped |-> \E d \in Builds : UnderWay(d)]
         ELSE builds[c]]
    /\ UNCHANGED <<activeTab, currentWorkload, nodes, deployed, telemetry, traces,
                   selected, play, opened, restarts, sends>>

BuildAnswered(b) ==
    /\ builds[b].stage = "called"
    /\ \E s \in GenerateService(builds[b].name) :
         builds' = [builds EXCEPT ![b].stage = "answered", ![b].name = s.serviceName]
    /\ UNCHANGED <<activeTab, app, views, restarts, sends>>

BuildFails(b) ==
    /\ builds[b].stage = "called"
    /\ builds' = [builds EXCEPT ![b].stage = "ended"]
    /\ designer' = IF builds[b].own THEN [designer EXCEPT !.loading = FALSE] ELSE designer
    /\ UNCHANGED <<activeTab, currentWorkload, nodes, deployed, telemetry, traces,
                   selected, play, opened, restarts, sends>>

\* The timer of the compile log ran out.
BuildDeploys(b) ==
    /\ builds[b].stage = "answered"
    /\ builds' = [builds EXCEPT ![b].stage = "ended"]
    /\ designer' = IF builds[b].own
                   THEN [designer EXCEPT !.loading = FALSE, !.generated = TRUE,
                            !.file = FirstFile,
                            !.crossed = designer.mode = "workspace"]
                   ELSE designer
    /\ HandleDeployService(builds[b].name, builds[b].size)
    /\ UNCHANGED <<activeTab, currentWorkload, telemetry, traces, selected, play,
                   opened, restarts, sends>>

-----------------------------------------------------------------------------

Next ==
    \/ \E t \in Tabs : SetActiveTab(t)
    \/ TelemetryTick
    \/ \E w \in WorkloadLevels : SetWorkload(w)
    \/ \E i \in DOMAIN traces : SelectTrace(i)
    \/ \E id \in Ids : SelectNode(id)
    \/ \E step \in {-1, 1} : HandleScale(step)
    \/ HandleTogglePower
    \/ HandleRestart
    \/ RestartEnds
    \/ \E e \in Offered, a, p \in BOOLEAN : HandleSendRequest(e, a, p)
    \/ RequestAnswered
    \/ Rescan \/ ScanAnswers \/ ScanFails \/ ShowWorkspace \/ ShowGenerator
    \/ \E f \in WorkspaceFiles \cup GeneratedFiles : SelectFile(f)
    \/ \E b \in Builds :
         \/ \E n \in Names : HandleGenerateService(b, n)
         \/ BuildAnswered(b)
         \/ BuildFails(b)
         \/ BuildDeploys(b)

Spec == Init /\ [][Next]_vars

-----------------------------------------------------------------------------
(* Properties *)

\* Types of the variables, and the caps of the lists App keeps: 40 points, 20
\* traces.
TypeOK ==
    /\ activeTab \in Tabs /\ currentWorkload \in WorkloadLevels
    /\ nodes \in Seq(ServiceNode) /\ deployed \in Seq(Names)
    /\ telemetry \in Seq(TelemetryPoint) /\ Len(telemetry) <= HistoryCap
    /\ traces \in Seq(Trace) /\ Len(traces) <= TraceCap
    /\ selected \in Ids \cup {"api-gateway"}
    /\ restarts \in Seq([id : Ids, total : Totals])
    /\ play \in [loading : BOOLEAN, status : Codes \cup {NoAnswer}]
    /\ sends \in Seq(Send)
    /\ designer \in [mode : {"workspace", "generator"}, loading : BOOLEAN,
                     generated : BOOLEAN, disk : BOOLEAN, scans : Nat,
                     file : WorkspaceFiles \cup GeneratedFiles \cup {""},
                     crossed : BOOLEAN]
    /\ builds \in [Builds -> Build]
    /\ opened \in 0..(TraceCap + 1)

\* What a node says of itself agrees with its pods, whatever scaling, power
\* and restart timers did in between: OFFLINE means none, HEALTHY means all,
\* and all of them are DEGRADED only while a restart is still to end.
StatusTellsReplicas ==
    \A i \in DOMAIN nodes :
       LET n == nodes[i]
       IN  /\ n.active \in 0..n.total
           /\ n.status = "OFFLINE" <=> n.active = 0
           /\ n.status = "HEALTHY" => n.active = n.total
           /\ (n.status = "DEGRADED" /\ n.active = n.total) =>
                \E k \in DOMAIN restarts : restarts[k].id = n.id

\* Every service deployed has its node, in the order of the deployments, and a
\* port of its own unless it was generated while another generation was under
\* way: leaving the designer and coming back is the only way to do that.
DeploysAreRegistered ==
    /\ Len(nodes) = Len(Core) + Len(deployed)
    /\ \A k \in DOMAIN deployed : nodes[Len(Core) + k].id = Slug[deployed[k]]
    /\ (\A b \in Builds : ~builds[b].overlapped) =>
         \A i, j \in DOMAIN nodes : nodes[i].port = nodes[j].port => i = j

\* The designer and the playground wait exactly while a call or a timer of the
\* view on screen is under way, and the file on view is one of the service on
\* view unless an answer for the other mode picked it.
ViewsAreCurrent ==
    /\ designer.loading <=> \E b \in Builds : UnderWay(b) /\ builds[b].own
    /\ play.loading <=> \E i \in DOMAIN sends : sends[i].own
    /\ FilesOf(designer.mode) # {} /\ ~designer.crossed =>
         designer.file \in FilesOf(designer.mode)

\* What App.tsx says of handleSendMockRequest: playground requests are mapped
\* directly to traces.  Then the status of the trace is the one answered.
TracesTellAnswers ==
    \A i \in DOMAIN traces :
       traces[i].answer # NoAnswer => traces[i].status = traces[i].answer
=============================================================================
