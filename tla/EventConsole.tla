---------------------------- MODULE EventConsole ----------------------------
(***************************************************************************)
(* The event-driven view of the console (EventDrivenDashboard.tsx): a      *)
(* command pipeline that appends to a log and projects to a read model, a  *)
(* retry queue and a dead letter queue beside it, snapshots and replays.   *)
(*                                                                         *)
(* All of it is state of one view.  A command waits on timers between its  *)
(* stages and a replay for 800 ms between clearing and rebuilding, so they *)
(* interleave with each other and with the retry loop.  A stream is known  *)
(* by its transaction; its two events are appended together.               *)
(***************************************************************************)
EXTENDS Integers, Sequences, SequencesExt, FiniteSets

CONSTANTS
    Transactions,
    SeedOrder,          \* the transactions of the seeds, a sequence
    NewTopics,          \* names of topics that may be provisioned
    Forms,              \* what is typed: [schema, blank, high, fail]
    NewSchemas,         \* what may be registered: [eventType, version, fields]
    MaxTopics,          \* bounds the topics of one name
    MaxSchemas, MaxReplays

Fields == {"id", "amount", "created_by", "tenant_id"}
Main == "transaction-events"
Retry == "transaction-events-retry"
Dead == "transaction-events-dlq"
CoreTopics == {Main, Retry, Dead}
Topics == CoreTopics \cup NewTopics

-----------------------------------------------------------------------------
(* Records *)

Outcomes == {"APPROVED", "REJECTED", "PENDING"}
Stages == {"idle", "validating", "appending", "publishing", "routing", "success"}

EventItem == [id : Transactions,
              type : {"TransactionCreated", "TransactionProcessed"},
              version : {1, 2}, status : Outcomes]
SnapshotItem == [id : Transactions, version : {1, 2}, status : Outcomes]
TopicMetadata == Nat    \* a topic is known by its name and its messageCount
EventTypes == {"TransactionCreated"} \cup {s.eventType : s \in NewSchemas}
SchemaItem == [eventType : EventTypes, version : 1..3, fields : SUBSET Fields]
RetryItem == [id : Transactions, retryCount : 1..3]
ProjectionModel == [id : Transactions, version : {1, 2}, status : Outcomes]
Form == [schema : {1, 2}, blank : SUBSET Fields, high : BOOLEAN, fail : BOOLEAN]

\* The command under way: its form and the streams known when it was sent.
Command == [id : Transactions, form : Forms, known : SUBSET Transactions]

MaxRetries == 3

\* What a module that instantiates this one assumes.
EventAssumption ==
    /\ SeedOrder \in Seq(Transactions) /\ SeedOrder # <<>>
    /\ \A i, j \in DOMAIN SeedOrder : SeedOrder[i] = SeedOrder[j] => i = j
    /\ Forms \subseteq Form /\ Forms # {}
    /\ NewSchemas \subseteq SchemaItem
    /\ {MaxTopics, MaxSchemas, MaxReplays} \subseteq Nat

VARIABLES
    events,
    snapshots,          \* a set of SnapshotItem
    schemas,
    topics,             \* the counts of the topics of each name, oldest first
    retryQueue,         \* a set of RetryItem
    dlq,                \* transactions whose event is quarantined
    readModel,          \* the rows of each transaction, newest first
    processingState,
    command,
    replays,            \* rebuilds waiting for their timer
    purged,             \* history: events given up by hand
    crossed             \* history: rebuilt while something else projected

commands == <<processingState, command>>
queues == <<retryQueue, dlq, purged>>
vars == <<events, snapshots, schemas, topics, queues, readModel, commands,
          replays, crossed>>

Created(id, status) == [id |-> id, type |-> "TransactionCreated", version |-> 1,
                        status |-> status]
Processed(id, status) == [id |-> id, type |-> "TransactionProcessed",
                          version |-> 2, status |-> status]
Row(id, version, status) == [id |-> id, version |-> version, status |-> status]

SeedEvents == [i \in 1..(2 * Len(SeedOrder)) |->
    IF i % 2 = 1 THEN Created(SeedOrder[(i + 1) \div 2], "APPROVED")
                 ELSE Processed(SeedOrder[i \div 2], "APPROVED")]
SeedTopics == [n \in Topics |-> CASE n = Main -> <<Len(SeedEvents)>>
                                  [] n \in {Retry, Dead} -> <<0>>
                                  [] n \notin CoreTopics -> <<>>]
SeedRows == [t \in Transactions |->
    IF t \in Range(SeedOrder) THEN <<Row(t, 2, "APPROVED")>> ELSE <<>>]
SeedSchemas == <<
    [eventType |-> "TransactionCreated", version |-> 1,
     fields |-> {"id", "amount", "created_by"}],
    [eventType |-> "TransactionCreated", version |-> 2, fields |-> Fields]>>
NoCommand == [id |-> CHOOSE t \in Transactions : TRUE,
              form |-> CHOOSE f \in Forms : TRUE, known |-> {}]

Init ==
    /\ events = SeedEvents
    /\ snapshots = {Row(SeedOrder[1], 2, "APPROVED")}
    /\ schemas = SeedSchemas /\ topics = SeedTopics
    /\ retryQueue = {} /\ dlq = {} /\ purged = {}
    /\ readModel = SeedRows
    /\ processingState = "idle" /\ command = NoCommand
    /\ replays = <<>> /\ crossed = {}

-----------------------------------------------------------------------------
(* Helpers *)

Streams == {events[i].id : i \in DOMAIN events}
StreamEvents(id) == {i \in DOMAIN events : events[i].id = id}

\* What a stream folds to, as a snapshot and a replay read it.
Folded(id) ==
    LET seen == StreamEvents(id)
        processed == {i \in seen : events[i].type = "TransactionProcessed"}
    IN  Row(id, events[Max(seen)].version,
            IF processed = {} THEN "PENDING" ELSE events[Min(processed)].status)

Counted(name, n) ==
    [topics EXCEPT ![name] = [i \in DOMAIN topics[name] |-> topics[name][i] + n]]
Count(name) == topics[name][1]

Inserted(row) == [readModel EXCEPT ![row.id] = <<row>> \o readModel[row.id]]
Shown(id) == readModel[id] # <<>>
Rebuilding(id) == \E i \in DOMAIN replays : replays[i].id = id

\* The command has appended its events and has not projected them yet.
Projecting(id) ==
    processingState \in {"publishing", "routing", "success"} /\ command.id = id

-----------------------------------------------------------------------------
(* Topics and schemas *)

\* The name is compared as typed and stored trimmed: one typed with blanks is
\* never found to exist.
HandleCreateTopic(name, padded) ==
    /\ Len(topics[name]) < MaxTopics
    /\ padded \/ topics[name] = <<>>
    /\ topics' = [topics EXCEPT ![name] = Append(topics[name], 0)]
    /\ UNCHANGED <<events, snapshots, schemas, queues, readModel, commands, replays,
                   crossed>>

HandleDeleteTopic(name) ==
    /\ name \notin CoreTopics
    /\ topics[name] # <<>>
    /\ topics' = [topics EXCEPT ![name] = <<>>]
    /\ UNCHANGED <<events, snapshots, schemas, queues, readModel, commands, replays,
                   crossed>>

HandleRegisterSchema(s) ==
    /\ Len(schemas) < MaxSchemas
    /\ schemas' = Append(schemas, s)
    /\ UNCHANGED <<events, snapshots, topics, queues, readModel, commands, replays,
                   crossed>>

-----------------------------------------------------------------------------
(* The command pipeline *)

DispatchEnabled == processingState = "idle"

HandleDispatchCommand(id, form) ==
    /\ DispatchEnabled
    /\ processingState' = "validating"
    /\ command' = [id |-> id, form |-> form, known |-> Streams]
    /\ UNCHANGED <<events, snapshots, schemas, topics, queues, readModel, replays,
                   crossed>>

\* The first schema of that version decides; later ones are never read.
ActiveSchema(version) ==
    SelectSeq(schemas, LAMBDA s :
        s.eventType = "TransactionCreated" /\ s.version = version)
Missing(form) ==
    LET payload == Fields \ (form.blank \cup
                             (IF form.schema = 2 THEN {} ELSE {"tenant_id"}))
        active == ActiveSchema(form.schema)
    IN  IF active = <<>> THEN {} ELSE active[1].fields \ payload

Validate ==
    /\ processingState = "validating"
    /\ processingState' = IF Missing(command.form) = {} THEN "appending" ELSE "idle"
    /\ UNCHANGED <<events, snapshots, schemas, topics, queues, readModel, command,
                   replays, crossed>>

Verdict(form) == IF form.high THEN "REJECTED" ELSE "APPROVED"

RefuseDuplicate ==
    /\ processingState = "appending" /\ command.id \in command.known
    /\ processingState' = "idle"
    /\ UNCHANGED <<events, snapshots, schemas, topics, queues, readModel, command,
                   replays, crossed>>

AppendEvents ==
    /\ processingState = "appending" /\ command.id \notin command.known
    /\ events' = events \o <<Created(command.id, Verdict(command.form)),
                             Processed(command.id, Verdict(command.form))>>
    /\ topics' = Counted(Main, 2)
    /\ processingState' = "publishing"
    /\ UNCHANGED <<snapshots, schemas, queues, readModel, command, replays, crossed>>

Publish ==
    /\ processingState = "publishing"
    /\ processingState' = IF command.form.fail THEN "routing" ELSE "success"
    /\ UNCHANGED <<events, snapshots, schemas, topics, queues, readModel, command,
                   replays, crossed>>

RouteToRetry ==
    /\ processingState = "routing"
    /\ retryQueue' = retryQueue \cup {[id |-> command.id, retryCount |-> 1]}
    /\ topics' = Counted(Retry, 1)
    /\ processingState' = "idle"
    /\ UNCHANGED <<events, snapshots, schemas, dlq, purged, readModel, command,
                   replays, crossed>>

Project ==
    /\ processingState = "success"
    /\ readModel' = Inserted(Row(command.id, 2, Verdict(command.form)))
    /\ processingState' = "idle"
    /\ UNCHANGED <<events, snapshots, schemas, topics, queues, command, replays,
                   crossed>>

-----------------------------------------------------------------------------
(* Retries and the dead letter queue *)

Exhausted(item) == item.retryCount >= MaxRetries
Rescheduled(item) == [item EXCEPT !.retryCount = @ + 1]

\* Fault: what is exhausted leaves the queue and is quarantined nowhere.
RetryTickDropping(expired) ==
    /\ expired # {}
    /\ retryQueue' = (retryQueue \ expired)
         \cup {Rescheduled(r) : r \in {q \in expired : ~Exhausted(q)}}
    /\ UNCHANGED <<events, snapshots, schemas, topics, dlq, readModel, commands,
                   replays, purged, crossed>>

\* One second of the loop, in which the delays of these items run out.
RetryTick(expired) ==
    /\ expired # {}
    /\ LET dead == {r \in expired : Exhausted(r)}
       IN  /\ retryQueue' = (retryQueue \ expired)
                            \cup {Rescheduled(r) : r \in expired \ dead}
           /\ dlq' = dlq \cup {r.id : r \in dead}
           /\ topics' = Counted(Dead, Cardinality(dead))
    /\ UNCHANGED <<events, snapshots, schemas, readModel, commands, replays, purged,
                   crossed>>
HandleRedeliverDLQ(id) ==
    LET projection == Row(id, 2, Folded(id).status)
    IN  /\ id \in dlq
        /\ readModel' = IF Shown(id)
                        THEN [readModel EXCEPT
                                ![id] = [i \in DOMAIN readModel[id] |-> projection]]
                        ELSE Inserted(projection)
        /\ dlq' = dlq \ {id}
        /\ crossed' = IF Rebuilding(id) THEN crossed \cup {id} ELSE crossed
        /\ UNCHANGED <<events, snapshots, schemas, topics, retryQueue, purged,
                       commands, replays>>

HandlePurgeDLQ(id) ==
    /\ id \in dlq
    /\ dlq' = dlq \ {id} /\ purged' = purged \cup {id}
    /\ UNCHANGED <<events, snapshots, schemas, topics, retryQueue, readModel,
                   commands, replays, crossed>>

-----------------------------------------------------------------------------
(* Snapshots and replays *)

HandleTakeSnapshot(id) ==
    /\ snapshots' = {s \in snapshots : s.id # id} \cup {Folded(id)}
    /\ UNCHANGED <<events, schemas, topics, queues, readModel, commands, replays,
                   crossed>>

\* The row is cleared now and rebuilt later from the events read now.
HandleReplayEvents(id) ==
    /\ Len(replays) < MaxReplays
    /\ readModel' = [readModel EXCEPT ![id] = <<>>]
    /\ replays' = Append(replays, Folded(id))
    /\ crossed' = IF Rebuilding(id) \/ Projecting(id)
                  THEN crossed \cup {id} ELSE crossed \ {id}
    /\ UNCHANGED <<events, snapshots, schemas, topics, queues, commands>>

ReplayEnds ==
    /\ replays # <<>>
    /\ readModel' = Inserted(Head(replays))
    /\ replays' = Tail(replays)
    /\ UNCHANGED <<events, snapshots, schemas, topics, queues, commands, crossed>>

-----------------------------------------------------------------------------

\* Leaving the view drops its state; coming back starts it anew.
Remount ==
    /\ events' = SeedEvents
    /\ snapshots' = {Row(SeedOrder[1], 2, "APPROVED")}
    /\ schemas' = SeedSchemas /\ topics' = SeedTopics
    /\ retryQueue' = {} /\ dlq' = {} /\ purged' = {}
    /\ readModel' = SeedRows
    /\ processingState' = "idle" /\ command' = NoCommand
    /\ replays' = <<>> /\ crossed' = {}

Next ==
    \/ \E n \in Topics, p \in BOOLEAN : HandleCreateTopic(n, p)
    \/ \E n \in NewTopics : HandleDeleteTopic(n)
    \/ \E s \in NewSchemas : HandleRegisterSchema(s)
    \/ \E t \in Transactions, f \in Forms : HandleDispatchCommand(t, f)
    \/ Validate \/ RefuseDuplicate \/ AppendEvents \/ Publish \/ RouteToRetry
    \/ Project
    \/ \E expired \in SUBSET retryQueue : RetryTick(expired)
    \/ \E t \in dlq : HandleRedeliverDLQ(t) \/ HandlePurgeDLQ(t)
    \/ \E t \in Streams : HandleTakeSnapshot(t) \/ HandleReplayEvents(t)
    \/ ReplayEnds
    \/ Remount

Spec == Init /\ [][Next]_vars

-----------------------------------------------------------------------------
(* Properties *)

\* Types of the variables; the core topics are never deleted.
TypeOK ==
    /\ events \in Seq(EventItem)
    /\ snapshots \subseteq SnapshotItem
    /\ schemas \in Seq(SchemaItem)
    /\ topics \in [Topics -> Seq(TopicMetadata)]
    /\ \A n \in CoreTopics : topics[n] # <<>>
    /\ retryQueue \subseteq RetryItem /\ dlq \subseteq Transactions
    /\ readModel \in [Transactions -> Seq(ProjectionModel)]
    /\ processingState \in Stages
    /\ command \in Command
    /\ replays \in Seq(ProjectionModel)
    /\ purged \subseteq Transactions /\ crossed \subseteq Transactions

\* Every row, snapshot and rebuild says what the events of its stream say, and
\* a transaction has two rows only if a replay of it crossed another replay,
\* its own command or its redelivery since the row was last cleared.
RowsTellStreams ==
    /\ \A t \in Transactions : \A i \in DOMAIN readModel[t] : readModel[t][i] = Folded(t)
    /\ \A s \in snapshots : s = Folded(s.id)
    /\ \A t \in Transactions : Len(readModel[t]) > 1 => t \in crossed

\* Nothing that was appended is lost: its row is shown or being rebuilt, its
\* command is projecting it, or its event waits for a retry or in quarantine,
\* unless it was purged there by hand.  No event is in both queues or twice in
\* one, and the counters of the topics account for every event and failure.
NothingIsLost ==
    /\ \A t \in Streams :
         \/ Shown(t) \/ Rebuilding(t) \/ Projecting(t)
         \/ t \in dlq \/ t \in purged \/ \E r \in retryQueue : r.id = t
    /\ \A r \in retryQueue :
         r.id \notin dlq /\ \A q \in retryQueue : q.id = r.id => q = r
    /\ Count(Main) = Len(events)
    /\ Count(Retry) = Cardinality(retryQueue) + Count(Dead)
    /\ Count(Dead) >= Cardinality(dlq) + Cardinality(purged)
=============================================================================
