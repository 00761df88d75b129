------------------------------ MODULE AIEngine ------------------------------
(***************************************************************************)
(* The AI gateway of the demo server: the store and executors of           *)
(* aiEngine.ts behind the handlers of server.ts under /api/ai.             *)
(*                                                                         *)
(* A handler runs up to its next await in one step; chat, retrieval and    *)
(* indexing wait for a model or a timer and are interleaved there.  Texts  *)
(* are known by what the routing reads of them, replies by the model that  *)
(* gave them, embeddings by the encoder that made them.                    *)
(***************************************************************************)
EXTENDS Integers, Sequences, FiniteSets

CONSTANTS
    Jobs,               \* requests that wait on the server
    Sessions, SeedSession,
    Window,             \* the window size of a session
    Documents, SeedDocuments,
    Prompts, SeedPrompts,
    LogCap,             \* the gateway log keeps this many (100)
    SeedLogs,           \* calls logged at the start
    Live                \* GEMINI_API_KEY is set

\* What a module that instantiates this one assumes.
EngineAssumption ==
    /\ Jobs \subseteq Nat \ {0}
    /\ SeedSession \in Sessions /\ Window \in Nat \ {0}
    /\ SeedDocuments \subseteq Documents
    /\ SeedPrompts \subseteq Prompts /\ SeedPrompts # {}
    /\ LogCap \in Nat \ {0} /\ SeedLogs \in 0..LogCap
    /\ Live \in BOOLEAN

-----------------------------------------------------------------------------
(* Records *)

Providers == {"gemini", "openai"}
Flash == "gemini-3.5-flash"
Pro == "gemini-3.1-pro-preview"
Models == {Flash, Pro, "gpt-4o-mini", "gpt-4o"}
Strategies == {"cost", "latency", "capability", "static"}
NoModel == "none"

GatewayConfig == [defaultProvider : Providers, defaultModel : Models,
                  routingStrategy : Strategies, failoverEnabled : BOOLEAN,
                  failoverModel : Models]
SeedConfig == [defaultProvider |-> "gemini", defaultModel |-> Flash,
               routingStrategy |-> "cost", failoverEnabled |-> TRUE,
               failoverModel |-> Pro]

\* What the code reads of a text: fewer than 50 words, up to 300 or more; a
\* keyword of a program; the word "fail".
Texts == [words : {"few", "some", "many"}, code : BOOLEAN, fail : BOOLEAN]

Says(role, j) == [role |-> role, of |-> j]

Memories == {"buffer", "window", "summary"}
ChatMessage == [role : {"user", "model"}, of : Jobs \cup {0}]
\* The summary of a session is the recap the server makes of it after a reply,
\* or the routing of a call, which only a page puts there.
Summary == [kind : {"none", "recap", "routing"}, of : Jobs \cup {0}]
Sums(kind, j) == [kind |-> kind, of |-> j]

ChatSession == [exists : BOOLEAN, memory : Memories, messages : Seq(ChatMessage),
                summary : Summary]
NoSession == [exists |-> FALSE, memory |-> "buffer", messages |-> <<>>,
              summary |-> Sums("none", 0)]

Encoders == {"live", "fallback", "none"}
Statuses == {"success", "failed"}
GatewayLog == [of : Jobs \cup {0}, model : Models, status : Statuses]

\* at is where a request waits: a chat in "primary", "failover" or
\* "simulated", a retrieval in "auth", "encode", "lookup", "hydrate" and
\* "execute", an indexed document in "index".
Places == {"free", "primary", "failover", "simulated", "auth", "encode",
           "lookup", "hydrate", "execute", "index", "done"}
Job == [at : Places, kind : {"none", "chat", "rag", "index"},
        session : Sessions, text : Texts, model : Models,
        backup : Models, context : Seq(ChatMessage), hits : SUBSET Documents,
        doc : Documents \cup {0}, encoder : Encoders,
        answeredBy : Models \cup {NoModel}, status : Statuses,
        triedFailover : BOOLEAN, offSince : BOOLEAN]
PlainText == [words |-> "few", code |-> FALSE, fail |-> FALSE]
FreeJob == [at |-> "free", kind |-> "none", session |-> SeedSession,
            text |-> PlainText, model |-> Flash, backup |-> Pro,
            context |-> <<>>, hits |-> {}, doc |-> 0, encoder |-> "none", answeredBy |-> NoModel,
            status |-> "success", triedFailover |-> FALSE, offSince |-> FALSE]

VARIABLES
    gatewayConfig,
    gatewayLogs,        \* newest first
    sessions,
    prompts,            \* identifiers of the templates
    vectors,            \* the encoder of each document, "none" if not stored
    jobs

engine == <<gatewayConfig, gatewayLogs, sessions, prompts, vectors, jobs>>

EngineInit ==
    /\ gatewayConfig = SeedConfig
    /\ gatewayLogs =
         [i \in 1..SeedLogs |-> [of |-> 0, model |-> Flash, status |-> "success"]]
    /\ sessions = [s \in Sessions |->
         IF s = SeedSession
         THEN [NoSession EXCEPT !.exists = TRUE,
                                !.messages = <<Says("user", 0), Says("model", 0)>>]
         ELSE NoSession]
    /\ prompts = SeedPrompts
    /\ vectors = [d \in Documents |->
         IF d \in SeedDocuments THEN "fallback" ELSE "none"]
    /\ jobs = [j \in Jobs |-> FreeJob]

-----------------------------------------------------------------------------
(* Helpers *)

ProviderOf(model) ==
    IF model \in {"gpt-4o-mini", "gpt-4o"} THEN "openai" ELSE "gemini"

Route(provider, model) == [provider |-> provider, model |-> model]

ResolveModelRouting(text, config) ==
    CASE config.routingStrategy = "static" ->
           Route(config.defaultProvider, config.defaultModel)
      [] config.routingStrategy = "cost" ->
           IF text.words = "few" /\ ~text.code
           THEN Route("gemini", Flash) ELSE Route("openai", "gpt-4o-mini")
      [] config.routingStrategy = "latency" -> Route("gemini", Flash)
      [] config.routingStrategy = "capability" ->
           IF text.code \/ text.words = "many"
           THEN Route("gemini", Pro) ELSE Route("openai", "gpt-4o")

\* A manual choice of the model decides its provider too.
Routing(text, override) ==
    IF override = NoModel THEN ResolveModelRouting(text, gatewayConfig)
    ELSE Route(ProviderOf(override), override)

\* The live encoder may fail, the local one never does.
GetEmbedding(encoder) == encoder = "fallback" \/ (Live /\ encoder = "live")

\* Vectors of two encoders have different lengths and no similarity.
Similar(doc, encoder) == vectors[doc] = encoder

LogGatewayCall(job, model, status) ==
    LET longer == <<[of |-> job, model |-> model, status |-> status]>> \o gatewayLogs
    IN  gatewayLogs' = IF Len(longer) > LogCap
                       THEN SubSeq(longer, 1, Len(longer) - 1) ELSE longer

LastOf(s, n) == SubSeq(s, IF Len(s) > n THEN Len(s) - n + 1 ELSE 1, Len(s))

Context(session) ==
    CASE session.memory = "buffer" -> session.messages
      [] session.memory = "window" -> LastOf(session.messages, Window)
      [] session.memory = "summary" -> LastOf(session.messages, 3)

-----------------------------------------------------------------------------
(* Requests that are answered at once *)

\* Fault: a FALSE is taken for a missing field.
UpdateConfigTruthy(config) ==
    /\ gatewayConfig' = [config EXCEPT
         !.failoverEnabled = @ \/ gatewayConfig.failoverEnabled]
    /\ jobs' = [j \in Jobs |->
         [jobs[j] EXCEPT !.offSince = @ \/ ~config.failoverEnabled]]
    /\ UNCHANGED <<gatewayLogs, sessions, prompts, vectors>>

\* Fields that are missing keep their value; every console sends all.
UpdateConfig(config) ==
    /\ gatewayConfig' = config
    \* history: a chat or retrieval remembers that failover was off
    /\ jobs' = [j \in Jobs |->
         [jobs[j] EXCEPT !.offSince = @ \/ ~config.failoverEnabled]]
    /\ UNCHANGED <<gatewayLogs, sessions, prompts, vectors>>

CreatePrompt(p) ==
    /\ p \notin prompts
    /\ prompts' = prompts \cup {p}
    /\ UNCHANGED <<gatewayConfig, gatewayLogs, sessions, vectors, jobs>>

CreateSession(s, memory) ==
    /\ ~sessions[s].exists
    /\ sessions' = [sessions EXCEPT ![s] =
         [NoSession EXCEPT !.exists = TRUE, !.memory = memory]]
    /\ UNCHANGED <<gatewayConfig, gatewayLogs, prompts, vectors, jobs>>

-----------------------------------------------------------------------------
(* runChatCompletion *)

\* An unknown session is made on the way.
StartChat(j, s, text, override) ==
    LET session == [sessions[s] EXCEPT !.exists = TRUE,
                                       !.messages = Append(@, Says("user", j))]
        route == Routing(text, override)
    IN  /\ jobs[j].at = "free"
        /\ sessions' = [sessions EXCEPT ![s] = session]
        /\ jobs' = [jobs EXCEPT ![j] =
             [FreeJob EXCEPT !.kind = "chat", !.session = s, !.text = text,
                !.model = route.model, !.context = Context(session),
                !.offSince = ~gatewayConfig.failoverEnabled,
                !.at = IF Live /\ route.provider = "gemini"
                       THEN "primary" ELSE "simulated"]]
        /\ UNCHANGED <<gatewayConfig, gatewayLogs, prompts, vectors>>

\* What is kept of a request that is answered.
Done(job) == [FreeJob EXCEPT !.at = "done", !.kind = job.kind,
                             !.session = job.session, !.offSince = job.offSince]

\* Fault: the session is cut to the context that was sent.
ReplyInContext(j, model, status, tried) ==
    /\ sessions' = [sessions EXCEPT ![jobs[j].session] =
         [@ EXCEPT !.messages = Append(jobs[j].context, Says("model", j))]]
    /\ LogGatewayCall(j, jobs[j].model, status)
    /\ jobs' = [jobs EXCEPT ![j] =
         [Done(@) EXCEPT !.answeredBy = model, !.status = status,
                         !.triedFailover = tried]]
    /\ UNCHANGED <<gatewayConfig, prompts, vectors>>

\* The end of every chat: the reply joins the session as it is by now, the
\* call is logged under the model of the routing.
Reply(j, model, status, tried) ==
    LET job == jobs[j]
        old == sessions[job.session]
        messages == Append(old.messages, Says("model", j))
    IN  /\ sessions' = [sessions EXCEPT ![job.session] =
             [old EXCEPT !.messages = messages,
                !.summary = IF old.memory = "summary" /\ Len(messages) > 4
                            THEN Sums("recap", j) ELSE old.summary]]
        /\ LogGatewayCall(j, job.model, status)
        /\ jobs' = [jobs EXCEPT ![j] =
             [Done(job) EXCEPT !.answeredBy = model, !.status = status,
                               !.triedFailover = tried]]
        /\ UNCHANGED <<gatewayConfig, prompts, vectors>>

PrimaryAnswers(j) ==
    /\ jobs[j].at = "primary"
    /\ Reply(j, jobs[j].model, "success", FALSE)

\* Whether to fail over, and where, is read when the first model has failed.
PrimaryFails(j) ==
    /\ jobs[j].at = "primary"
    /\ IF gatewayConfig.failoverEnabled
       THEN /\ jobs' = [jobs EXCEPT ![j] =
                 [@ EXCEPT !.at = "failover", !.backup = gatewayConfig.failoverModel]]
            /\ UNCHANGED <<gatewayConfig, gatewayLogs, sessions, prompts, vectors>>
       ELSE Reply(j, NoModel, "failed", FALSE)

FailoverEnds(j) ==
    /\ jobs[j].at = "failover"
    /\ \/ Reply(j, jobs[j].backup, "success", TRUE)
       \/ Reply(j, NoModel, "failed", TRUE)

\* Without a key, and for OpenAI models, answers are made up after 600 ms; a
\* text with "fail" in it simulates an outage.
SimulationEnds(j) ==
    /\ jobs[j].at = "simulated"
    /\ IF jobs[j].text.fail THEN Reply(j, NoModel, "failed", FALSE)
       ELSE Reply(j, jobs[j].model, "success", FALSE)

-----------------------------------------------------------------------------
(* executeRAGChain and the indexing of a document *)

Go(j, job) ==
    /\ jobs' = [jobs EXCEPT ![j] = job]
    /\ UNCHANGED <<gatewayConfig, gatewayLogs, sessions, prompts, vectors>>

StartRag(j, text) ==
    /\ jobs[j].at = "free"
    /\ Go(j, [FreeJob EXCEPT !.at = "auth", !.kind = "rag", !.text = text,
                             !.offSince = ~gatewayConfig.failoverEnabled])

\* The rate limit is reported and not checked.
RagAuthorized(j) ==
    /\ jobs[j].at = "auth"
    /\ Go(j, [jobs[j] EXCEPT !.at = "encode"])

\* The two best of the documents stored by now, if they are similar enough.
RagLookup(j) ==
    /\ jobs[j].at = "encode"
    /\ \E encoder \in Encoders :
         /\ GetEmbedding(encoder)
         /\ \E hits \in SUBSET {d \in Documents : Similar(d, encoder)} :
              /\ Cardinality(hits) <= 2
              /\ Go(j, [jobs[j] EXCEPT !.at = "lookup", !.hits = hits,
                                       !.encoder = encoder])

\* A template that is not found is replaced by the first one, so there
\* always is one; the model is chosen by the policy of this moment.
RagHydrate(j) ==
    /\ jobs[j].at = "lookup"
    /\ Go(j, [jobs[j] EXCEPT !.at = "hydrate"])

RagRoute(j) ==
    LET route == ResolveModelRouting(jobs[j].text, gatewayConfig) IN
    /\ jobs[j].at = "hydrate"
    /\ Go(j, [jobs[j] EXCEPT !.model = route.model,
         !.at = IF Live /\ route.provider = "gemini" THEN "execute" ELSE "simulated"])

\* There is no failover here.
RagEnd(j, model, status) ==
    /\ LogGatewayCall(j, jobs[j].model, status)
    /\ jobs' = [jobs EXCEPT ![j] =
         [Done(@) EXCEPT !.answeredBy = model, !.status = status]]
    /\ UNCHANGED <<gatewayConfig, sessions, prompts, vectors>>

RagExecuted(j) ==
    /\ jobs[j].kind = "rag"
    /\ \/ jobs[j].at \in {"execute", "simulated"}
          /\ RagEnd(j, jobs[j].model, "success")
       \/ jobs[j].at = "execute" /\ RagEnd(j, NoModel, "failed")

StartIndex(j, d) ==
    /\ jobs[j].at = "free"
    /\ vectors[d] = "none"
    /\ Go(j, [FreeJob EXCEPT !.at = "index", !.kind = "index", !.doc = d])

Indexed(j) ==
    /\ jobs[j].at = "index"
    /\ \E encoder \in Encoders :
         /\ GetEmbedding(encoder)
         /\ vectors' = [vectors EXCEPT ![jobs[j].doc] = encoder]
         /\ jobs' = [jobs EXCEPT ![j] = Done(@)]
    /\ UNCHANGED <<gatewayConfig, gatewayLogs, sessions, prompts>>

\* What a waiting request does next.
Work(j) ==
    \/ PrimaryAnswers(j) \/ PrimaryFails(j) \/ FailoverEnds(j)
    \/ jobs[j].kind = "chat" /\ SimulationEnds(j)
    \/ RagAuthorized(j) \/ RagLookup(j) \/ RagHydrate(j) \/ RagRoute(j)
    \/ RagExecuted(j) \/ Indexed(j)

EngineTypeOK ==
    /\ gatewayConfig \in GatewayConfig
    /\ gatewayLogs \in Seq(GatewayLog) /\ Len(gatewayLogs) <= LogCap
    /\ sessions \in [Sessions -> ChatSession]
    /\ SeedPrompts \subseteq prompts /\ prompts \subseteq Prompts
    /\ vectors \in [Documents -> Encoders]
    /\ jobs \in [Jobs -> Job]
=============================================================================
