----------------------------- MODULE AIPlatform -----------------------------
(***************************************************************************)
(* The AI console (AIPlatformDashboard.tsx) and other clients over         *)
(* AIEngine.  The console sends the whole configuration, merged from its   *)
(* own copy, shows a chat message before the server has it and appends the *)
(* reply to what it shows.  Its copies of prompts, documents and logs are  *)
(* left out: nothing is decided on them.                                   *)
(***************************************************************************)
EXTENDS AIEngine

CONSTANTS
    ChatTexts, RagTexts,    \* texts that are sent
    Overrides,              \* models a chat is sent to, NoModel for none
    Settings,               \* the changes made: a field and its new value
    NewMemories,            \* memory strategies of new sessions
    MaxLoads,               \* bound: mounting and uses of "Force Reload"
    Strangers               \* calls that other clients may make

ConsoleAssumption ==
    /\ EngineAssumption
    /\ ChatTexts \subseteq Texts /\ RagTexts \subseteq Texts
    /\ Overrides \subseteq Models \cup {NoModel}
    /\ \A x \in Settings : [SeedConfig EXCEPT ![x.field] = x.value] \in GatewayConfig
    /\ NewMemories \subseteq Memories /\ Strangers \subseteq Jobs /\ MaxLoads \in Nat

Ops == {"config", "chat", "rag", "index", "session", "prompt"}

VARIABLES
    config,         \* the console's copy of the configuration
    shown,          \* its copy of the sessions
    active,         \* the session it shows, {} before there is one
    spinning,       \* sendingChat, ragRunning and indexingDoc
    fetches,        \* the GETs of the configuration and of the sessions
    loaded,         \* the copies that came from the server
    loads,
    calls,          \* one for each job
    wanted,         \* history: the last value chosen for each field
    raced,          \* history: copies that could miss a change
    crowded         \* history: sessions two chats were in at once

console == <<config, shown, active, spinning, fetches, loaded, loads>>
history == <<wanted, raced, crowded>>
vars == <<engine, console, calls, history>>

Copies == {"config", "sessions"}
NoFetch == [stage |-> "none", config |-> SeedConfig, blank |-> FALSE,
            sessions |-> [s \in Sessions |-> NoSession]]

Stages == {"unused", "sent", "working", "served", "ended"}
NoCall == [op |-> "prompt", stage |-> "unused", mine |-> FALSE, config |-> SeedConfig,
           session |-> SeedSession, memory |-> "buffer", text |-> PlainText,
           override |-> NoModel, doc |-> 0]

Mine(j) == calls[j].mine
Pending(j) == calls[j].stage \in {"sent", "working", "served"}

\* What a call may change of a copy.
Concerns(op) == CASE op = "config" -> {"config"}
                  [] op \in {"chat", "session"} -> {"sessions"}
                  [] OTHER -> {}

Busy(copy) == fetches[copy].stage # "none"
                \/ \E j \in Jobs : Pending(j) /\ copy \in Concerns(calls[j].op)

\* useState starts with the defaults.
Init ==
    /\ EngineInit
    /\ config = SeedConfig
    /\ shown = NoFetch.sessions /\ active = {} /\ spinning = {}
    /\ fetches = [c \in Copies |-> NoFetch]
    /\ loaded = {} /\ loads = 0
    /\ calls = [j \in Jobs |-> NoCall]
    /\ wanted = SeedConfig /\ raced = {} /\ crowded = {}

-----------------------------------------------------------------------------
(* The fetchers *)

\* Mounting, and the button later.
Load ==
    /\ loads < MaxLoads
    /\ \A c \in Copies : fetches[c].stage = "none"
    /\ loads' = loads + 1
    /\ fetches' = [c \in Copies |->
         [NoFetch EXCEPT !.stage = "sent", !.blank = (active = {})]]
    /\ raced' = raced \cup {c \in Copies : Busy(c)}
    /\ UNCHANGED <<engine, config, shown, active, spinning, loaded, calls, wanted,
                   crowded>>

ServeFetch(c) ==
    /\ fetches[c].stage = "sent"
    /\ fetches' = [fetches EXCEPT ![c] =
         [@ EXCEPT !.stage = "served", !.config = gatewayConfig,
                   !.sessions = sessions]]
    /\ UNCHANGED <<engine, config, shown, active, spinning, loaded, loads, calls,
                   history>>

UseConfig ==
    /\ fetches["config"].stage = "served"
    /\ config' = fetches["config"].config
    /\ fetches' = [fetches EXCEPT !["config"] = NoFetch]
    /\ loaded' = loaded \cup {"config"}
    /\ UNCHANGED <<engine, shown, active, spinning, loads, calls, history>>

\* The first session becomes active if none was when the fetch began.
UseSessions ==
    /\ fetches["sessions"].stage = "served"
    /\ shown' = fetches["sessions"].sessions
    /\ active' = IF fetches["sessions"].blank THEN {SeedSession} ELSE active
    /\ fetches' = [fetches EXCEPT !["sessions"] = NoFetch]
    /\ loaded' = loaded \cup {"sessions"}
    /\ UNCHANGED <<engine, config, spinning, loads, calls, history>>

-----------------------------------------------------------------------------
(* Clicks *)

Spinner(op) == {op} \cap {"chat", "rag", "index"}

\* What the page lets a user do: failover is a toggle, and its model is
\* offered while it is on; the other settings always are.
SettingOffered(setting) ==
    CASE setting.field = "failoverEnabled" -> setting.value # config.failoverEnabled
      [] setting.field = "failoverModel" -> config.failoverEnabled
      [] OTHER -> TRUE
SendEnabled(s) == s \in active /\ "chat" \notin spinning
ChatModels == Models
RagEnabled == "rag" \notin spinning
IndexEnabled == "index" \notin spinning

\* mine is TRUE for a click on the page.
Begin(j, mine, op, call) ==
    /\ calls[j].stage = "unused"
    /\ \A k \in Jobs : k < j => calls[k].stage # "unused"
    /\ IF mine THEN loads > 0 ELSE j \in Strangers
    /\ calls' = [calls EXCEPT ![j] =
         [call EXCEPT !.op = op, !.stage = "sent", !.mine = mine]]
    /\ raced' = raced \cup
         {c \in Concerns(op) : Busy(c) \/ c \notin loaded \/ ~mine}
    /\ spinning' = IF mine THEN spinning \cup Spinner(op) ELSE spinning

\* A changed field is merged into the copy of this render; no button waits
\* for the answer of another.
UpdateGatewayConfig(j, mine, setting) ==
    LET merged == [config EXCEPT ![setting.field] = setting.value] IN
    /\ mine => SettingOffered(setting)
    /\ Begin(j, mine, "config", [NoCall EXCEPT !.config = merged])
    /\ wanted' = [wanted EXCEPT ![setting.field] = setting.value]
    /\ UNCHANGED <<engine, config, shown, active, fetches, loaded, loads, crowded>>

\* The message is shown at once, in the session that is active.
SendChat(j, mine, s, text, override) ==
    /\ mine => SendEnabled(s) /\ override \in ChatModels
    /\ Begin(j, mine, "chat", [NoCall EXCEPT !.session = s, !.text = text,
                                       !.override = override])
    /\ shown' = IF mine /\ shown[s].exists
                THEN [shown EXCEPT ![s].messages = Append(@, Says("user", j))]
                ELSE shown
    /\ UNCHANGED <<engine, config, active, fetches, loaded, loads, wanted, crowded>>

\* The others change nothing on the page before they are answered.
Submit(j, mine, op, call) ==
    /\ Begin(j, mine, op, call)
    /\ UNCHANGED <<engine, config, shown, active, fetches, loaded, loads, wanted,
                   crowded>>

SubmitSession(j, mine, memory) ==
    Submit(j, mine, "session", [NoCall EXCEPT !.memory = memory])
SubmitPrompt(j, mine) == Submit(j, mine, "prompt", NoCall)
IndexDoc(j, mine, d) ==
    /\ mine => IndexEnabled
    /\ Submit(j, mine, "index", [NoCall EXCEPT !.doc = d])
RunRag(j, mine, text) ==
    /\ mine => RagEnabled
    /\ Submit(j, mine, "rag", [NoCall EXCEPT !.text = text])

Select(s) ==
    /\ shown[s].exists /\ active # {s}
    /\ active' = {s}
    /\ UNCHANGED <<engine, config, shown, spinning, fetches, loaded, loads, calls,
                   history>>

-----------------------------------------------------------------------------
(* The server takes a request and answers it. *)

Handled(j, stage) == calls' = [calls EXCEPT ![j] = [@ EXCEPT !.stage = stage]]

ServeConfig(j) ==
    /\ calls[j].op = "config"
    /\ UpdateConfig(calls[j].config)
    /\ Handled(j, "served")
    /\ UNCHANGED crowded

ServeSession(j) ==
    /\ calls[j].op = "session"
    /\ \E s \in Sessions :
         /\ CreateSession(s, calls[j].memory)
         /\ calls' = [calls EXCEPT ![j] = [@ EXCEPT !.stage = "served",
                                                    !.session = s]]
    /\ UNCHANGED crowded

ServePrompt(j) ==
    /\ calls[j].op = "prompt"
    /\ \E p \in Prompts : CreatePrompt(p)
    /\ Handled(j, "served")
    /\ UNCHANGED crowded

ServeJob(j) ==
    /\ LET call == calls[j] IN
       \/ /\ call.op = "chat"
          /\ StartChat(j, call.session, call.text, call.override)
          /\ crowded' = IF \E k \in Jobs : /\ jobs[k].kind = "chat"
                                           /\ jobs[k].at # "done"
                                           /\ jobs[k].session = call.session
                        THEN crowded \cup {call.session} ELSE crowded
       \/ call.op = "rag" /\ StartRag(j, call.text) /\ UNCHANGED crowded
       \/ call.op = "index" /\ StartIndex(j, call.doc) /\ UNCHANGED crowded
    /\ Handled(j, "working")

Serve(j) ==
    /\ calls[j].stage = "sent"
    /\ ServeConfig(j) \/ ServeSession(j) \/ ServePrompt(j) \/ ServeJob(j)
    /\ UNCHANGED <<console, wanted, raced>>

\* A job goes on, whether or not its caller still waits.
WorkOn(j) ==
    /\ Work(j)
    /\ calls' = IF jobs'[j].at = "done" /\ calls[j].stage = "working"
                THEN [calls EXCEPT ![j] = [@ EXCEPT !.stage = "served"]]
                ELSE calls
    /\ UNCHANGED <<console, history>>

End(j) ==
    /\ calls' = [calls EXCEPT ![j] = [NoCall EXCEPT !.stage = "ended"]]
    /\ spinning' = IF Mine(j) THEN spinning \ {calls[j].op} ELSE spinning

\* What an answer makes of a session on the page: the reply joins it, and the
\* routing of the call is put where the server keeps its recap (405-408).
Answered(session, j) ==
    [session EXCEPT !.messages = Append(@, Says("model", j)),
                    !.summary = Sums("routing", j)]

\* The answer: the configuration is the server's, a new session is shown and
\* active, a reply is appended to the session the message was sent from and
\* the routing of the call becomes the summary that is shown of it.
UseAnswer(j) ==
    LET call == calls[j]
        s == call.session
    IN  /\ call.stage = "served"
        /\ config' = IF Mine(j) /\ call.op = "config" THEN call.config ELSE config
        /\ shown' =
             IF ~Mine(j) THEN shown
             ELSE IF call.op = "session"
             THEN [shown EXCEPT ![s] = [NoSession EXCEPT !.exists = TRUE,
                                                         !.memory = call.memory]]
             ELSE IF call.op = "chat" /\ shown[s].exists
             THEN [shown EXCEPT ![s] = Answered(@, j)]
             ELSE shown
        /\ active' = IF Mine(j) /\ call.op = "session" THEN {s} ELSE active
        /\ End(j)
        /\ UNCHANGED <<engine, fetches, loaded, loads, history>>

\* Requests and answers are lost: the handler ends in its catch block.
Fail(j) ==
    /\ Pending(j)
    /\ raced' = raced \cup Concerns(calls[j].op)
    /\ End(j)
    /\ UNCHANGED <<engine, config, shown, active, fetches, loaded, loads, wanted,
                   crowded>>

LoseFetch(c) ==
    /\ fetches[c].stage # "none"
    /\ fetches' = [fetches EXCEPT ![c] = NoFetch]
    /\ UNCHANGED <<engine, config, shown, active, spinning, loaded, loads, calls,
                   history>>

-----------------------------------------------------------------------------
Clicks(j, mine) ==
    \/ \E setting \in Settings : UpdateGatewayConfig(j, mine, setting)
    \/ \E s \in {t \in Sessions : sessions[t].exists}, text \in ChatTexts,
          model \in Overrides : SendChat(j, mine, s, text, model)
    \/ \E text \in RagTexts : RunRag(j, mine, text)
    \/ \E d \in {e \in Documents : vectors[e] = "none"} : IndexDoc(j, mine, d)
    \/ \E m \in NewMemories : SubmitSession(j, mine, m)
    \/ SubmitPrompt(j, mine)

Next ==
    \/ Load \/ UseConfig \/ UseSessions
    \/ \E c \in Copies : ServeFetch(c) \/ LoseFetch(c)
    \/ \E s \in Sessions : Select(s)
    \/ \E j \in Jobs : \/ \E mine \in BOOLEAN : Clicks(j, mine)
                     \/ Serve(j) \/ WorkOn(j) \/ UseAnswer(j) \/ Fail(j)

Spec == Init /\ [][Next]_vars

-----------------------------------------------------------------------------
(* Properties *)

CallType == [op : Ops, stage : Stages, mine : BOOLEAN,
             config : GatewayConfig, session : Sessions,
             memory : Memories, text : Texts, override : Models \cup {NoModel},
             doc : Documents \cup {0}]

\* The types of the server, of the console and of its calls.
TypeOK ==
    /\ EngineTypeOK
    /\ config \in GatewayConfig /\ wanted \in GatewayConfig
    /\ shown \in [Sessions -> ChatSession]
    /\ active \subseteq Sessions /\ Cardinality(active) <= 1
    /\ spinning \subseteq {"chat", "rag", "index"}
    /\ fetches \in [Copies -> [stage : {"none", "sent", "served"},
                               config : GatewayConfig, blank : BOOLEAN,
                               sessions : [Sessions -> ChatSession]]]
    /\ loaded \subseteq Copies /\ raced \subseteq Copies
    /\ loads \in 0..MaxLoads
    /\ calls \in [Jobs -> CallType]
    /\ crowded \subseteq Sessions

\* A setting stays as it was last chosen, on the server and on the page, once
\* the change is answered, unless it was sent before an earlier one was
\* answered, before the page had its copy, by somebody else, or lost
\* (AIPlatformDashboard.tsx:237-254 sends all fields each time).
SettingsStick ==
    "config" \notin raced /\ ~Busy("config") =>
      gatewayConfig = wanted /\ ("config" \in loaded => config = wanted)

\* The messages the page shows of a conversation are those the server keeps,
\* though they are put together from an early message and a late reply
\* (365-420).  Nothing is said of the summary: the page shows the routing of
\* the last call in its place (408), which the server never keeps there.
ConversationsAgree ==
    "sessions" \in loaded \ raced /\ ~Busy("sessions") =>
      \A s \in Sessions : shown[s].exists = sessions[s].exists
                          /\ shown[s].messages = sessions[s].messages

\* A session no two chats were in at once is a sequence of questions, each
\* followed by the reply to it; in any session every finished chat has asked
\* once and replied once, in this order (aiEngine.ts:396-517).
TurnsAlternate ==
    \A s \in Sessions :
      LET m == sessions[s].messages
          places(j, role) == {i \in DOMAIN m : m[i] = Says(role, j)}
      IN  /\ s \notin crowded => \A i \in DOMAIN m :
               IF i % 2 = 1 THEN m[i].role = "user"
               ELSE m[i] = Says("model", m[i - 1].of)
          /\ \A j \in Jobs :
               jobs[j].kind = "chat" /\ jobs[j].session = s /\ jobs[j].at = "done" =>
                 \E a, b \in DOMAIN m : /\ a < b /\ places(j, "user") = {a}
                                        /\ places(j, "model") = {b}

\* Every finished chat and retrieval is logged once, as a success if and only
\* if some model answered it; only later calls push it out of the log.
LogsTellTruth ==
    \A j \in Jobs :
      LET mine == {i \in DOMAIN gatewayLogs : gatewayLogs[i].of = j} IN
      IF jobs[j].at = "done" /\ jobs[j].kind \in {"chat", "rag"}
      THEN /\ Cardinality(mine) = 1 \/ (mine = {} /\ Len(gatewayLogs) = LogCap)
           /\ \A i \in mine : (gatewayLogs[i].status = "success")
                                 <=> (jobs[j].answeredBy # NoModel)
      ELSE mine = {}

\* "Replace with real returned history and summary from backend" (399): the
\* summary the page shows of a conversation is the one the server keeps.
SummariesAgree ==
    "sessions" \in loaded \ raced /\ ~Busy("sessions") =>
      \A s \in Sessions : shown[s].summary = sessions[s].summary

\* "Route to failover model if principal model errors": a call that failed
\* while the policy was on has tried the failover model.
FailoverCovers ==
    \A j \in Jobs : jobs[j].at = "done" /\ jobs[j].status = "failed"
                      /\ ~jobs[j].offSince => jobs[j].triedFailover
=============================================================================
