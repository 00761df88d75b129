--------------------------- MODULE TransactionCQRS --------------------------
(***************************************************************************)
(* The command side, the broker dispatch and the read side of              *)
(* compute-engine (usecase/event_driven_service.go, usecase/transaction.go *)
(* over repository/event_driven_impl.go).                                  *)
(*                                                                         *)
(* Each HTTP request runs in a goroutine of its own and PublishEvent runs  *)
(* the projection handler in one goroutine per event, so a step here is    *)
(* the code between two points where another goroutine may run: one        *)
(* section under the event store's mutex or the query store's mutex.       *)
(*                                                                         *)
(* The broker's retry path is in KafkaCluster: the projection handler      *)
(* fails only on a payload that is not JSON, which the service never       *)
(* publishes, and the topic it publishes to is never deleted, so here a    *)
(* published event is handled exactly once.                                *)
(***************************************************************************)
EXTENDS EventStore, FiniteSets

CONSTANTS
    EmptyId,        \* the empty identifier a malformed request carries
    Requests,       \* HTTP requests served concurrently
    Amounts,        \* amounts a caller may ask for
    RiskLimit,      \* the 1000000 of the risk rule
    FromVersions,   \* from_version values a replay may carry
    SeededIds,      \* identifiers the query store is seeded with (tx_9921...)
    SeededAmount,   \* the amount of a seeded projection
    NoModel,        \* "no projection stored under this identifier"
    NoCommand       \* "the request has not been decoded yet"

ASSUME AmountsAssumption == Amounts \subseteq Int /\ RiskLimit \in Int
ASSUME FromVersionsAssumption == FromVersions \subseteq Int
ASSUME SeedAssumption == SeededIds \subseteq TxIds /\ SeededAmount \in Int
ASSUME EmptyIdAssumption == EmptyId \notin TxIds

VARIABLES
    models,         \* query store: models[id], the projection of id
    deliveries,     \* projection-handler goroutines spawned by PublishEvent
    pc,             \* where the goroutine of each request stands
    command,        \* the decoded command of each request
    work,           \* its slice of events left to publish or to replay
    reply,          \* what it answered
    writer          \* history: who saved models[id] last, "live" or "replay"

vars ==
    <<streams, snapshots, models, deliveries, pc, command, work, reply, writer>>

-----------------------------------------------------------------------------
(* Data *)

Ids == TxIds \cup {EmptyId}

Commands ==
    [op : {"create"}, id : Ids, amount : Amounts]
        \cup [op : {"replay"}, id : TxIds, from : FromVersions]
        \cup [op : {"snapshot"}, id : TxIds]

Statuses == {"PENDING", "APPROVED", "REJECTED"}

Event ==
    [id : TxIds, type : {"TransactionCreated"}, amount : Int, version : Nat]
        \cup [id : TxIds, type : {"TransactionProcessed"}, amount : Int,
              version : Nat, status : Statuses]

Model == [amount : Int, status : Statuses, version : Nat]

Snapshot == [version : Nat, amount : Int, status : Statuses]

Reply ==
    [code : {"none", "invalid", "exists", "conflict",
             "replayed", "no events", "snapshot saved"}]
        \cup [code : {"created"}, amount : Int, status : Statuses]

\* Fault: an amount at the limit gets a status the domain does not know.
RiskStatusWithReview(amount) ==
    IF amount > RiskLimit THEN "REJECTED"
    ELSE IF amount = RiskLimit THEN "REVIEW" ELSE "APPROVED"

\* The anti-fraud rule of ExecuteCreateTransaction.
RiskStatus(amount) == IF amount > RiskLimit THEN "REJECTED" ELSE "APPROVED"

\* Versions are zero until AppendEvents sets them in the caller's slice.
EventCreated(c) ==
    [id |-> c.id, type |-> "TransactionCreated", amount |-> c.amount,
     version |-> 0]

EventProcessed(c) ==
    [id |-> c.id, type |-> "TransactionProcessed", amount |-> c.amount,
     version |-> 0, status |-> RiskStatus(c.amount)]

EventsToAppend(c) == <<EventCreated(c), EventProcessed(c)>>

\* The sentinels stand for nil pointers and are no record of the service.
ASSUME SentinelAssumption ==
    /\ NoCommand \notin Commands
    /\ NoCommand \notin Amounts
    /\ NoCommand \notin [id : Ids, amount : Amounts]
    /\ NoModel \notin Model
    /\ NoSnapshot \notin Snapshot

-----------------------------------------------------------------------------
(* Initial state: NewMemoryQueryStore seeds APPROVED projections at        *)
(* version 2 for identifiers that have no stream.                          *)

Seed == [amount |-> SeededAmount, status |-> "APPROVED", version |-> 2]

Init ==
    /\ StoreInit
    /\ models = [id \in TxIds |-> IF id \in SeededIds THEN Seed ELSE NoModel]
    /\ deliveries = {}
    /\ pc = [r \in Requests |-> "idle"]
    /\ command = [r \in Requests |-> NoCommand]
    /\ work = [r \in Requests |-> <<>>]
    /\ reply = [r \in Requests |-> [code |-> "none"]]
    /\ writer = [id \in TxIds |-> "nobody"]

Goto(r, label) == pc' = [pc EXCEPT ![r] = label]

Answer(r, answer) ==
    /\ reply' = [reply EXCEPT ![r] = answer]
    /\ Goto(r, "done")

\* The request is decoded and routed to ExecuteCreateTransaction,
\* ExecuteReplay or ExecuteSnapshot.
Receive(r) ==
    /\ pc[r] = "idle"
    /\ \E c \in Commands :
           /\ command' = [command EXCEPT ![r] = c]
           /\ Goto(r, c.op)
    /\ UNCHANGED <<streams, snapshots, models, deliveries, work, reply,
                   writer>>

-----------------------------------------------------------------------------
(* ExecuteCreateTransaction *)

\* Fault: an amount of zero passes.
InvalidCreateBelowZero(c) == c.id = EmptyId \/ c.amount < 0

InvalidCreate(c) == c.id = EmptyId \/ c.amount <= 0

\* The outcomes of the code before the append: refused arguments; a stream
\* that exists already; or the two events built.  The existence check is a
\* read of its own, so another request may instantiate the stream after it.
RefuseInvalid(r) ==
    /\ pc[r] = "create"
    /\ InvalidCreate(command[r])
    /\ Answer(r, [code |-> "invalid"])
    /\ UNCHANGED <<streams, snapshots, models, deliveries, command, work, writer>>

RefuseExisting(r) ==
    /\ pc[r] = "create"
    /\ ~InvalidCreate(command[r])
    /\ ReadStream(command[r].id, 1) # <<>>
    /\ Answer(r, [code |-> "exists"])
    /\ UNCHANGED <<streams, snapshots, models, deliveries, command, work, writer>>

BuildEvents(r) ==
    /\ pc[r] = "create"
    /\ ~InvalidCreate(command[r])
    /\ ReadStream(command[r].id, 1) = <<>>
    /\ work' = [work EXCEPT ![r] = EventsToAppend(command[r])]
    /\ Goto(r, "append")
    /\ UNCHANGED <<streams, snapshots, models, deliveries, command, reply, writer>>

\* AppendEvents with expectedVersion 0.  It numbers the caller's slice too:
\* the records published next carry the versions of the stream.
AppendWins(r) ==
    LET id == command[r].id
    IN  /\ pc[r] = "append"
        /\ VersionMatches(id, 0)
        /\ AppendEvents(id, work[r])
        /\ work' = [work EXCEPT ![r] = Numbered(streams[id], @)]
        /\ Goto(r, "publish")
        /\ UNCHANGED <<snapshots, models, deliveries, command, reply, writer>>

AppendConflicts(r) ==
    /\ pc[r] = "append"
    /\ ~VersionMatches(command[r].id, 0)
    /\ Answer(r, [code |-> "conflict"])
    /\ UNCHANGED <<streams, snapshots, models, deliveries, command, work, writer>>

\* Fault: a failed dispatch is only logged, and every dispatch fails.
PublishLost(r) ==
    /\ pc[r] = "publish"
    /\ work' = [work EXCEPT ![r] = Tail(@)]
    /\ Goto(r, IF Len(work[r]) > 1 THEN "publish" ELSE "settle")
    /\ UNCHANGED <<streams, snapshots, models, deliveries, command, reply, writer>>

\* One iteration of the publish loop: PublishEvent spawns one goroutine for
\* the projection handler and returns without waiting for it.
Publish(r) ==
    /\ pc[r] = "publish"
    /\ deliveries' = deliveries \cup {[event |-> Head(work[r]), at |-> "handle"]}
    /\ work' = [work EXCEPT ![r] = Tail(@)]
    /\ Goto(r, IF Len(work[r]) > 1 THEN "publish" ELSE "settle")
    /\ UNCHANGED <<streams, snapshots, models, command, reply, writer>>

\* ProcessTransaction, after its 5 ms pause: answers what the read model
\* shows, or PENDING when it shows nothing yet.
AnswerCreate(r) ==
    LET shown == models[command[r].id]
    IN  /\ pc[r] = "settle"
        /\ \/ shown = NoModel
              /\ Answer(r, [code |-> "created", amount |-> command[r].amount,
                            status |-> "PENDING"])
           \/ shown # NoModel
              /\ Answer(r, [code |-> "created", amount |-> shown.amount,
                            status |-> shown.status])
        /\ UNCHANGED <<streams, snapshots, models, deliveries, command, work,
                       writer>>

-----------------------------------------------------------------------------
(* Handle: the projection updater, run by the broker's goroutines and by   *)
(* ExecuteReplay.                                                          *)

Store(e, status, who) ==
    /\ models' = [models EXCEPT ![e.id] =
                     [amount |-> e.amount, status |-> status,
                      version |-> e.version]]
    /\ writer' = [writer EXCEPT ![e.id] = who]

\* TransactionCreated is saved with no look at what is stored.
SaveCreated(e, who) ==
    /\ e.type = "TransactionCreated"
    /\ Store(e, "PENDING", who)

\* Fault: the comparison of the version check is the wrong way round.
ObsoleteInverted(e) ==
    /\ models[e.id] # NoModel
    /\ models[e.id].version < e.version

\* The version check of TransactionProcessed: a read under the query store's
\* lock, separate from the save that may follow.
Obsolete(e) ==
    /\ models[e.id] # NoModel
    /\ models[e.id].version > e.version

SaveProcessed(e, who) == Store(e, e.status, who)

-----------------------------------------------------------------------------
(* The goroutine of one delivery *)

DeliverCreated(d) ==
    /\ d.at = "handle"
    /\ SaveCreated(d.event, "live")
    /\ deliveries' = deliveries \ {d}
    /\ UNCHANGED <<streams, snapshots, pc, command, work, reply>>

CheckVersion(d) ==
    /\ d.at = "handle"
    /\ d.event.type = "TransactionProcessed"
    /\ deliveries' = (deliveries \ {d})
                        \cup IF Obsolete(d.event) THEN {} ELSE {[d EXCEPT !.at = "save"]}
    /\ UNCHANGED <<streams, snapshots, models, pc, command, work, reply, writer>>

DeliverProcessed(d) ==
    /\ d.at = "save"
    /\ SaveProcessed(d.event, "live")
    /\ deliveries' = deliveries \ {d}
    /\ UNCHANGED <<streams, snapshots, pc, command, work, reply>>

-----------------------------------------------------------------------------
(* ExecuteReplay: one read of the stream, then Handle for each event.      *)

ReplayNothing(r) ==
    /\ pc[r] = "replay"
    /\ ReadStream(command[r].id, command[r].from) = <<>>
    /\ Answer(r, [code |-> "no events"])
    /\ UNCHANGED <<streams, snapshots, models, deliveries, command, work, writer>>

ReadReplay(r) ==
    LET events == ReadStream(command[r].id, command[r].from)
    IN  /\ pc[r] = "replay"
        /\ events # <<>>
        /\ work' = [work EXCEPT ![r] = events]
        /\ Goto(r, "rebuild")
        /\ UNCHANGED <<streams, snapshots, models, deliveries, command, reply,
                       writer>>

\* Handle of the head is done: go on with the rest, or answer.
AdvanceReplay(r) ==
    /\ work' = [work EXCEPT ![r] = Tail(@)]
    /\ \/ Len(work[r]) > 1 /\ Goto(r, "rebuild") /\ UNCHANGED reply
       \/ Len(work[r]) = 1 /\ Answer(r, [code |-> "replayed"])

ReplayCreated(r) ==
    /\ pc[r] = "rebuild"
    /\ SaveCreated(Head(work[r]), "replay")
    /\ AdvanceReplay(r)
    /\ UNCHANGED <<streams, snapshots, deliveries, command>>

ReplayCheck(r) ==
    /\ pc[r] = "rebuild"
    /\ Head(work[r]).type = "TransactionProcessed"
    /\ IF Obsolete(Head(work[r]))
       THEN AdvanceReplay(r)
       ELSE Goto(r, "rebuild save") /\ UNCHANGED <<work, reply>>
    /\ UNCHANGED <<streams, snapshots, models, deliveries, command, writer>>

ReplayProcessed(r) ==
    /\ pc[r] = "rebuild save"
    /\ SaveProcessed(Head(work[r]), "replay")
    /\ AdvanceReplay(r)
    /\ UNCHANGED <<streams, snapshots, deliveries, command>>

-----------------------------------------------------------------------------
(* ExecuteSnapshot: one read, the aggregate derived from it, one save.     *)

SnapshotNothing(r) ==
    /\ pc[r] = "snapshot"
    /\ ReadStream(command[r].id, 1) = <<>>
    /\ Answer(r, [code |-> "no events"])
    /\ UNCHANGED <<streams, snapshots, models, deliveries, command, work, writer>>

ReadForSnapshot(r) ==
    LET events == ReadStream(command[r].id, 1)
    IN  /\ pc[r] = "snapshot"
        /\ events # <<>>
        /\ work' = [work EXCEPT ![r] = events]
        /\ Goto(r, "save snapshot")
        /\ UNCHANGED <<streams, snapshots, models, deliveries, command, reply,
                       writer>>

\* Fault: the version is the one the read started from.
AggregateOfFirst(events) ==
    [version |-> events[1].version, amount |-> events[1].amount,
     status |-> events[Len(events)].status]

\* The version of the last event, the amount and the status of the last
\* TransactionProcessed; zero values when there is none.
Aggregate(events) ==
    LET processed == {i \in DOMAIN events : events[i].type = "TransactionProcessed"}
        last == CHOOSE i \in processed : \A j \in processed : j <= i
    IN  [version |-> events[Len(events)].version,
         amount  |-> IF processed = {} THEN 0 ELSE events[last].amount,
         status  |-> IF processed = {} THEN "" ELSE events[last].status]

StoreSnapshot(r) ==
    /\ pc[r] = "save snapshot"
    /\ SaveSnapshot(command[r].id, Aggregate(work[r]))
    /\ work' = [work EXCEPT ![r] = <<>>]
    /\ Answer(r, [code |-> "snapshot saved"])
    /\ UNCHANGED <<streams, models, deliveries, command, writer>>

-----------------------------------------------------------------------------
CreateSteps(r) ==
    \/ RefuseInvalid(r) \/ RefuseExisting(r) \/ BuildEvents(r)
    \/ AppendWins(r) \/ AppendConflicts(r) \/ Publish(r) \/ AnswerCreate(r)

ReplaySteps(r) ==
    \/ ReplayNothing(r) \/ ReadReplay(r) \/ ReplayCreated(r)
    \/ ReplayCheck(r) \/ ReplayProcessed(r)

SnapshotSteps(r) ==
    SnapshotNothing(r) \/ ReadForSnapshot(r) \/ StoreSnapshot(r)

RequestSteps(r) == CreateSteps(r) \/ ReplaySteps(r) \/ SnapshotSteps(r)

DeliverySteps(d) ==
    DeliverCreated(d) \/ CheckVersion(d) \/ DeliverProcessed(d)

Next ==
    \/ \E r \in Requests : Receive(r) \/ RequestSteps(r)
    \/ \E d \in deliveries : DeliverySteps(d)

Spec == Init /\ [][Next]_vars

Dispatching == \E d \in deliveries : DeliverySteps(d)

\* A goroutine that can run is eventually run: the Go scheduler starves none
\* and no step waits on anything but a mutex held for a bounded time.
FairSpec ==
    /\ Spec
    /\ \A r \in Requests : WF_vars(RequestSteps(r))
    /\ WF_vars(Dispatching)

-----------------------------------------------------------------------------
(* Type correctness *)

Labels ==
    {"idle", "create", "append", "publish", "settle", "replay", "rebuild",
     "rebuild save", "snapshot", "save snapshot", "done"}

TypeOK ==
    /\ streams \in [TxIds -> Seq(Event)]
    /\ snapshots \in [TxIds -> Snapshot \cup {NoSnapshot}]
    /\ models \in [TxIds -> Model \cup {NoModel}]
    /\ deliveries \subseteq [event : Event, at : {"handle", "save"}]
    /\ pc \in [Requests -> Labels]
    /\ command \in [Requests -> Commands \cup {NoCommand}]
    /\ work \in [Requests -> Seq(Event)]
    /\ reply \in [Requests -> Reply]
    /\ writer \in [TxIds -> {"nobody", "live", "replay"}]

-----------------------------------------------------------------------------
(* Safety *)

\* The stream that a create of an amount leaves behind.
StreamOf(id, amount) ==
    Numbered(<<>>, EventsToAppend([id |-> id, amount |-> amount]))

Accepted(r) == pc[r] \in {"publish", "settle"} \/ reply[r].code = "created"

\* However creates, replays and snapshots interleave, a stream is empty or
\* holds exactly one TransactionCreated at version 1 and one
\* TransactionProcessed at version 2, of one positive amount and with the
\* status the risk rule gives it (AppendEvents and its OCC check).
StreamsWellFormed ==
    \A id \in TxIds :
        streams[id] # <<>> =>
            \E amount \in Amounts : amount > 0 /\ streams[id] = StreamOf(id, amount)

\* Of several concurrent creates of one identifier, whose existence checks
\* may all have seen no stream, at most one is accepted, and the stream is
\* the accepted one's (the check of ExecuteCreateTransaction and its append
\* are two separate sections).
OneCreateWins ==
    \A r \in Requests :
        Accepted(r) =>
            /\ streams[command[r].id] = StreamOf(command[r].id, command[r].amount)
            /\ \A other \in Requests \ {r} :
                   Accepted(other) => command[other].id # command[r].id

\* What the read side shows was appended first: a projection is a seed or
\* the image of an event of its stream, and every event a handler goroutine
\* or a replay holds is in the stream it came from.
ReadSideIsBacked ==
    /\ \A id \in TxIds :
           models[id] # NoModel =>
               \/ id \in SeededIds /\ models[id] = Seed
               \/ /\ models[id].version \in DOMAIN streams[id]
                  /\ models[id].amount = streams[id][1].amount
                  /\ models[id].status = IF models[id].version = 1 THEN "PENDING"
                                         ELSE streams[id][2].status
    /\ \A d \in deliveries :
           \E i \in DOMAIN streams[d.event.id] : d.event = streams[d.event.id][i]

\* A saved snapshot is the aggregate of the stream as it is now, not only as
\* it was when ExecuteSnapshot read it, a section before saving.
SnapshotsCurrent ==
    \A id \in TxIds :
        snapshots[id] # NoSnapshot =>
            /\ Len(streams[id]) = 2
            /\ snapshots[id].version = 2
            /\ snapshots[id].amount = streams[id][1].amount
            /\ snapshots[id].status = RiskStatus(streams[id][1].amount)

\* A successful create answers PENDING or the final status of its own amount,
\* whatever other requests do meanwhile; only an identifier the query store
\* was seeded with can answer with the seed instead.
CreateAnswersOwnState ==
    \A r \in Requests :
        reply[r].code = "created" =>
            \/ /\ reply[r].amount = command[r].amount
               /\ reply[r].status \in {"PENDING", RiskStatus(command[r].amount)}
            \/ /\ command[r].id \in SeededIds
               /\ reply[r].amount = Seed.amount
               /\ reply[r].status = Seed.status

\* Nothing is in flight for an identifier: no handler goroutine holds one of
\* its events and no request publishes or replays it.
Quiescent(id) ==
    /\ \A d \in deliveries : d.event.id # id
    /\ \A r \in Requests :
           command[r] # NoCommand /\ command[r].id = id =>
               pc[r] \notin {"publish", "rebuild", "rebuild save"}

\* Replay repairs: once nothing is in flight, a projection whose last writer
\* was a replay (from whatever version) shows the final state.  A projection
\* left PENDING can only come from the live dispatch.
ReplayRepairs ==
    \A id \in TxIds :
        Quiescent(id) /\ writer[id] = "replay" =>
            /\ models[id].version = Len(streams[id])
            /\ models[id].status = streams[id][2].status

\* The version check of Handle never skips anything the service produces:
\* streams end at version 2 and no projection is ever beyond it, so the check
\* cannot protect the projection; what it would have to protect against is
\* the unconditional save of TransactionCreated.
VersionCheckNeverFires ==
    /\ \A d \in deliveries :
           d.event.type = "TransactionProcessed" => ~Obsolete(d.event)
    /\ \A r \in Requests :
           pc[r] = "rebuild" /\ Head(work[r]).type = "TransactionProcessed"
               => ~Obsolete(Head(work[r]))

\* The store side: streams are well formed, one create wins, and nothing in
\* flight is obsolete.
StoreIsSound == StreamsWellFormed /\ OneCreateWins /\ VersionCheckNeverFires

\* What clients are shown: the answer to a create is of its own transaction, and
\* what a replay leaves in the query store is final.
ShownIsOwnAndFinal == CreateAnswersOwnState /\ ReplayRepairs

\* The read side: what it shows is backed by the streams and what is saved is
\* current.
ReadSideIsCurrent == ReadSideIsBacked /\ SnapshotsCurrent

(***************************************************************************)
(* Action properties                                                       *)
(***************************************************************************)

\* "Ensure we don't apply an out of order state update (version check)":
\* live dispatch never takes a projection back to an older version.
ProjectionNeverRegresses ==
    [][\A id \in TxIds :
          models[id] # NoModel /\ writer'[id] = "live" =>
              models'[id].version >= models[id].version]_models

(***************************************************************************)
(* Liveness, under FairSpec                                                *)
(***************************************************************************)

\* Every accepted transaction reaches the read model: a projection of it is
\* eventually written, although nobody waits for the handler goroutines.
AcceptedBecomesVisible ==
    \A id \in TxIds : streams[id] # <<>> ~> writer[id] # "nobody"

-----------------------------------------------------------------------------
(* Refinement of the abstract ledger *)

IsCreate(r) == command[r] # NoCommand /\ command[r].op = "create"

Ledger == INSTANCE TransactionLedger WITH
    NoTx <- NoCommand,
    ledger <- [id \in TxIds |->
                  IF streams[id] = <<>> THEN NoCommand ELSE streams[id][1].amount],
    asked <- [r \in Requests |->
                 IF IsCreate(r)
                 THEN [id |-> command[r].id, amount |-> command[r].amount]
                 ELSE NoCommand],
    outcome <- [r \in Requests |->
                   IF Accepted(r) THEN "accepted"
                   ELSE IF reply[r].code \in {"invalid", "exists", "conflict"}
                        THEN "refused" ELSE "none"],
    view <- [id \in TxIds |->
                IF writer[id] = "nobody" THEN "unseen" ELSE models[id].status]

\* The code, with its interleavings, implements the abstract ledger.
ImplementsLedger == Ledger!Spec
=============================================================================
