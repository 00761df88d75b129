-------------------------- MODULE ComputeEngineProofs -------------------------
EXTENDS ComputeEngine, SequenceTheorems, TLAPS

First(id, amount) ==
    [id |-> id, type |-> "TransactionCreated", amount |-> amount, version |-> 1]

Second(id, amount) ==
    [id |-> id, type |-> "TransactionProcessed", amount |-> amount,
     version |-> 2, status |-> RiskStatus(amount)]

Both(id, amount) == <<First(id, amount), Second(id, amount)>>

JustSecond(id, amount) == <<Second(id, amount)>>

LEMMA StoredEvents ==
    ASSUME NEW id \in TxIds, NEW amount \in Int
    PROVE  /\ First(id, amount) \in Event
           /\ Second(id, amount) \in Event
           /\ First(id, amount) # Second(id, amount)
           /\ RiskStatus(amount) \in Statuses
  BY AmountsAssumption DEF First, Second, Event, RiskStatus, Statuses

LEMMA StoredStream ==
    ASSUME NEW c, NEW id \in TxIds, NEW amount \in Int,
           c.id = id, c.amount = amount
    PROVE  Numbered(<<>>, EventsToAppend(c)) = Both(id, amount)
  <1> DEFINE e == EventsToAppend(c)
  <1>1. e = <<EventCreated(c), EventProcessed(c)>>
    BY DEF EventsToAppend
  <1>2. DOMAIN e = 1..2
    BY <1>1
  <1>3. [EventCreated(c) EXCEPT !.version = Len(<<>>) + 1] = First(id, amount)
    BY DEF EventCreated, First
  <1>4. [EventProcessed(c) EXCEPT !.version = Len(<<>>) + 2] = Second(id, amount)
    BY DEF EventProcessed, Second
  <1>5. Numbered(<<>>, e) = [i \in 1..2 |-> [e[i] EXCEPT !.version = Len(<<>>) + i]]
    BY <1>2 DEF Numbered
  <1>6. [e[1] EXCEPT !.version = Len(<<>>) + 1] = First(id, amount)
    BY <1>1, <1>3
  <1>7. [e[2] EXCEPT !.version = Len(<<>>) + 2] = Second(id, amount)
    BY <1>1, <1>4
  <1> HIDE DEF e
  <1>8. \A i \in 1..2 : [e[i] EXCEPT !.version = Len(<<>>) + i] = Both(id, amount)[i]
    BY <1>6, <1>7 DEF Both
  <1>9. Numbered(<<>>, e) = [i \in 1..2 |-> Both(id, amount)[i]]
    BY <1>5, <1>8
  <1> QED
    BY <1>9 DEF e, Both

LEMMA BothFacts ==
    ASSUME NEW id \in TxIds, NEW amount \in Int
    PROVE  /\ Both(id, amount) \in Seq(Event)
           /\ Len(Both(id, amount)) = 2
           /\ Both(id, amount) # <<>>
           /\ Both(id, amount)[1] = First(id, amount)
           /\ Both(id, amount)[2] = Second(id, amount)
           /\ Head(Both(id, amount)) = First(id, amount)
           /\ Tail(Both(id, amount)) = JustSecond(id, amount)
           /\ JustSecond(id, amount) \in Seq(Event)
           /\ JustSecond(id, amount) # <<>>
           /\ JustSecond(id, amount) # Both(id, amount)
           /\ Len(JustSecond(id, amount)) = 1
           /\ Head(JustSecond(id, amount)) = Second(id, amount)
           /\ Tail(JustSecond(id, amount)) = <<>>
  BY StoredEvents DEF Both, JustSecond

LEMMA LengthFacts ==
    ASSUME NEW id \in TxIds, NEW amount \in Int
    PROVE  /\ Len(Both(id, amount)) > 1
           /\ ~(Len(Both(id, amount)) = 1)
           /\ ~(Len(JustSecond(id, amount)) > 1)
           /\ DOMAIN Both(id, amount) = 1..2
  BY StoredEvents DEF Both, JustSecond

LEMMA BothInjective ==
    ASSUME NEW id \in TxIds, NEW a \in Int, NEW b \in Int,
           Both(id, a) = Both(id, b)
    PROVE  a = b
  <1>1. First(id, a) = First(id, b)
    BY BothFacts
  <1> QED
    BY <1>1 DEF First

LEMMA SuffixFacts ==
    ASSUME NEW id \in TxIds, NEW amount \in Int, NEW k \in Nat, k >= 1
    PROVE  /\ SubSeq(Both(id, amount), k, Len(Both(id, amount)))
                \in {Both(id, amount), JustSecond(id, amount), <<>>}
           /\ SubSeq(Both(id, amount), 1, Len(Both(id, amount))) = Both(id, amount)
           /\ SubSeq(<<>>, k, Len(<<>>)) = <<>>
  <1>1. /\ Both(id, amount) \in Seq(Event)
        /\ Len(Both(id, amount)) = 2
        /\ Both(id, amount) # <<>>
        /\ Tail(Both(id, amount)) = JustSecond(id, amount)
    BY BothFacts
  <1>2. SubSeq(Both(id, amount), 1, 2) = Both(id, amount)
    BY <1>1, SubSeqFull
  <1>3. SubSeq(Both(id, amount), 2, 2) = JustSecond(id, amount)
    BY <1>1, TailIsSubSeq
  <1>4. k > 2 => SubSeq(Both(id, amount), k, 2) = <<>>
    BY SubSeqEmpty
  <1>5. SubSeq(<<>>, k, Len(<<>>)) = <<>>
    BY SubSeqEmpty
  <1> QED
    BY <1>1, <1>2, <1>3, <1>4, <1>5

-----------------------------------------------------------------------------
(* The inductive invariant *)

\* The stream of id is what an accepted create of this amount left.
Holds(id, amount) ==
    /\ amount \in Amounts
    /\ amount > 0
    /\ streams[id] = Both(id, amount)

StreamsInv ==
    \A id \in TxIds : streams[id] = <<>> \/ \E amount \in Amounts : Holds(id, amount)

CreateCommand(c) == c.op = "create" /\ c.id \in Ids /\ c.amount \in Amounts

\* What the goroutine of a request knows at each of its labels.
RequestInv(r) ==
    LET c == command[r]
    IN  /\ pc[r] # "done" => reply[r].code = "none"
        /\ pc[r] \in {"create", "append"} \/ Accepted(r) => CreateCommand(c)
        /\ pc[r] \in {"replay", "rebuild", "rebuild save", "snapshot",
                      "save snapshot"} => c.id \in TxIds
        /\ pc[r] = "replay" => c.from \in Int
        /\ pc[r] = "append" => /\ ~InvalidCreate(c)
                              /\ work[r] = EventsToAppend(c)
        /\ Accepted(r) => c.id \in TxIds /\ Holds(c.id, c.amount)
        /\ pc[r] = "publish" =>
               work[r] \in {Both(c.id, c.amount), JustSecond(c.id, c.amount)}
        /\ pc[r] = "rebuild" =>
               \E amount \in Amounts :
                   /\ Holds(c.id, amount)
                   /\ work[r] \in {Both(c.id, amount), JustSecond(c.id, amount)}
        /\ pc[r] = "rebuild save" =>
               \E amount \in Amounts :
                   Holds(c.id, amount) /\ work[r] = JustSecond(c.id, amount)
        /\ pc[r] = "save snapshot" =>
               \E amount \in Amounts :
                   Holds(c.id, amount) /\ work[r] = Both(c.id, amount)

RequestsInv == \A r \in Requests : RequestInv(r)

UniqueCreates ==
    \A r, q \in Requests :
        r # q /\ Accepted(r) /\ Accepted(q) => command[r].id # command[q].id

DeliveryInv(d) ==
    \E amount \in Amounts :
        /\ Holds(d.event.id, amount)
        /\ \/ d.at = "handle" /\ d.event = First(d.event.id, amount)
           \/ d.event = Second(d.event.id, amount)

DeliveriesInv == \A d \in deliveries : DeliveryInv(d)

Pending(amount) == [amount |-> amount, status |-> "PENDING", version |-> 1]

Settled(amount) ==
    [amount |-> amount, status |-> RiskStatus(amount), version |-> 2]

ModelInv(id) ==
    models[id] # NoModel =>
        \/ id \in SeededIds /\ models[id] = Seed
        \/ \E amount \in Amounts :
               /\ Holds(id, amount)
               /\ models[id] \in {Pending(amount), Settled(amount)}

ModelsInv == \A id \in TxIds : ModelInv(id)

SnapshotInv(id) ==
    snapshots[id] # NoSnapshot =>
        \E amount \in Amounts :
            Holds(id, amount) /\ snapshots[id] = Settled(amount)

SnapshotsInv == \A id \in TxIds : SnapshotInv(id)

Inv ==
    /\ TypeOK
    /\ StreamsInv
    /\ RequestsInv
    /\ UniqueCreates
    /\ DeliveriesInv
    /\ ModelsInv
    /\ SnapshotsInv

-----------------------------------------------------------------------------
(* What a step leaves alone keeps its part of the invariant: a stream that *)
(* is not empty never changes.                                             *)

Grown == \A id \in TxIds : streams[id] = <<>> \/ streams'[id] = streams[id]

LEMMA HoldsStable ==
    ASSUME Grown, NEW id \in TxIds, NEW amount \in Amounts, Holds(id, amount)
    PROVE  Holds(id, amount)'
  <1>1. Both(id, amount) # <<>>
    BY BothFacts, AmountsAssumption
  <1> QED
    BY <1>1 DEF Grown, Holds, Both, First, Second, RiskStatus

LEMMA RequestStable ==
    ASSUME Grown, NEW r \in Requests, RequestInv(r),
           pc'[r] = pc[r], command'[r] = command[r], work'[r] = work[r],
           reply'[r] = reply[r]
    PROVE  RequestInv(r)'
  <1> DEFINE c == command[r]
  <1>1. Accepted(r)' <=> Accepted(r)
    BY DEF Accepted
  <1>2. ASSUME NEW id \in TxIds, NEW amount \in Amounts, Holds(id, amount)
        PROVE  Holds(id, amount)'
    BY <1>2, HoldsStable
  <1>3. Accepted(r) => Holds(c.id, c.amount)'
    <2> SUFFICES ASSUME Accepted(r) PROVE Holds(c.id, c.amount)'
      OBVIOUS
    <2>1. c.id \in TxIds /\ Holds(c.id, c.amount)
      BY DEF RequestInv
    <2>2. c.amount \in Amounts
      BY <2>1 DEF Holds
    <2> QED
      BY <2>1, <2>2, <1>2
  <1> QED
    BY <1>1, <1>2, <1>3 DEF RequestInv, CreateCommand, InvalidCreate

LEMMA DeliveryStable ==
    ASSUME Grown, TypeOK, NEW d \in deliveries, DeliveryInv(d)
    PROVE  DeliveryInv(d)'
  <1>1. d.event.id \in TxIds
    BY DEF TypeOK, Event
  <1> QED
    BY <1>1, HoldsStable DEF DeliveryInv, First, Second, RiskStatus

LEMMA ModelStable ==
    ASSUME Grown, NEW id \in TxIds, ModelInv(id), models'[id] = models[id]
    PROVE  ModelInv(id)'
  BY HoldsStable DEF ModelInv, Seed, Pending, Settled, RiskStatus

LEMMA SnapshotStable ==
    ASSUME Grown, NEW id \in TxIds, SnapshotInv(id), snapshots'[id] = snapshots[id]
    PROVE  SnapshotInv(id)'
  BY HoldsStable DEF SnapshotInv, Settled, RiskStatus

LEMMA StreamsStable ==
    ASSUME Grown, StreamsInv, UNCHANGED streams
    PROVE  StreamsInv'
  BY HoldsStable DEF StreamsInv

-----------------------------------------------------------------------------
THEOREM InitInv == Init => Inv
  <1> SUFFICES ASSUME Init PROVE Inv
    OBVIOUS
  <1>1. TypeOK
    <2>1. Seed \in Model
      BY SeedAssumption DEF Seed, Model, Statuses
    <2>2. [code |-> "none"] \in Reply
      BY DEF Reply
    <2> QED
      BY <2>1, <2>2, EmptySeq DEF Init, StoreInit, TypeOK, Labels
  <1>2. StreamsInv
    BY DEF Init, StoreInit, StreamsInv
  <1>3. RequestsInv /\ UniqueCreates
    BY DEF Init, RequestsInv, RequestInv, UniqueCreates, Accepted
  <1>4. DeliveriesInv /\ ModelsInv /\ SnapshotsInv
    BY DEF Init, StoreInit, DeliveriesInv, ModelsInv, ModelInv, SnapshotsInv,
           SnapshotInv
  <1> QED
    BY <1>1, <1>2, <1>3, <1>4 DEF Inv

\* Steps of one request that change neither a stream nor the read side.
LEMMA LocalStep ==
    ASSUME Inv, NEW r \in Requests,
           UNCHANGED <<streams, snapshots, models, deliveries, writer>>,
           \A q \in Requests \ {r} :
               /\ pc'[q] = pc[q] /\ command'[q] = command[q]
               /\ work'[q] = work[q] /\ reply'[q] = reply[q],
           Accepted(r)' => Accepted(r) /\ command'[r] = command[r],
           TypeOK', RequestInv(r)'
    PROVE  Inv'
  <1> USE DEF Inv
  <1>1. Grown
    BY DEF Grown
  <1>2. StreamsInv'
    BY <1>1, StreamsStable
  <1>3. RequestsInv'
    BY <1>1, RequestStable DEF RequestsInv
  <1>4. UniqueCreates'
    BY DEF UniqueCreates, Accepted
  <1>5. DeliveriesInv' /\ ModelsInv' /\ SnapshotsInv'
    BY <1>1, DeliveryStable, ModelStable, SnapshotStable
    DEF DeliveriesInv, ModelsInv, SnapshotsInv
  <1> QED
    BY <1>2, <1>3, <1>4, <1>5

\* The shape of the events in work[r] before they are appended.
LEMMA UnnumberedEvents ==
    ASSUME NEW c, CreateCommand(c), ~InvalidCreate(c)
    PROVE  EventsToAppend(c) \in Seq(Event) /\ c.id \in TxIds /\ c.amount \in Int
  <1>1. c.id \in TxIds /\ c.amount \in Int
    BY AmountsAssumption DEF CreateCommand, InvalidCreate, Ids
  <1>2. RiskStatus(c.amount) \in Statuses
    BY <1>1, StoredEvents
  <1>3. EventCreated(c) \in Event /\ EventProcessed(c) \in Event
    BY <1>1, <1>2 DEF EventCreated, EventProcessed, Event
  <1> QED
    BY <1>1, <1>3 DEF EventsToAppend

LEMMA ReceiveInv ==
    ASSUME Inv, NEW r \in Requests, Receive(r)
    PROVE  Inv'
  <1>1. PICK c \in Commands : /\ command' = [command EXCEPT ![r] = c]
                             /\ Goto(r, c.op)
    BY DEF Receive
  <1>2. TypeOK'
    BY <1>1 DEF Receive, Inv, TypeOK, Goto, Labels, Commands
  <1>3. RequestInv(r)'
    BY <1>1, FromVersionsAssumption
    DEF Receive, Inv, TypeOK, RequestsInv, RequestInv, Accepted, Goto, Commands,
        CreateCommand
  <1>4. Accepted(r)' => Accepted(r) /\ command'[r] = command[r]
    BY <1>1 DEF Receive, Inv, TypeOK, RequestsInv, RequestInv, Accepted, Goto, Commands
  <1> QED
    BY <1>1, <1>2, <1>3, <1>4, LocalStep DEF Receive, Inv, TypeOK, Goto

\* A request that ends with an answer other than "created".
LEMMA AnswerStep ==
    ASSUME Inv, NEW r \in Requests,
           NEW code \in {"invalid", "exists", "conflict", "replayed", "no events",
                         "snapshot saved"},
           Answer(r, [code |-> code]),
           UNCHANGED <<streams, snapshots, models, deliveries, command, writer>>,
           work' \in [Requests -> Seq(Event)],
           \A q \in Requests \ {r} : work'[q] = work[q]
    PROVE  Inv'
  <1>1. [code |-> code] \in Reply
    BY DEF Reply
  <1>2. /\ pc' = [pc EXCEPT ![r] = "done"]
        /\ reply' = [reply EXCEPT ![r] = [code |-> code]]
    BY DEF Answer, Goto
  <1>3. TypeOK'
    BY <1>1, <1>2 DEF Inv, TypeOK, Labels
  <1>4. pc'[r] = "done" /\ reply'[r].code # "created"
    BY <1>2 DEF Inv, TypeOK
  <1>5. RequestInv(r)' /\ ~Accepted(r)'
    BY <1>4 DEF RequestInv, Accepted
  <1> QED
    BY <1>2, <1>3, <1>5, LocalStep DEF Inv, TypeOK

LEMMA RefuseInvalidInv ==
    ASSUME Inv, NEW r \in Requests, RefuseInvalid(r)
    PROVE  Inv'
  BY AnswerStep DEF RefuseInvalid, Inv, TypeOK

LEMMA RefuseExistingInv ==
    ASSUME Inv, NEW r \in Requests, RefuseExisting(r)
    PROVE  Inv'
  BY AnswerStep DEF RefuseExisting, Inv, TypeOK

LEMMA AppendConflictsInv ==
    ASSUME Inv, NEW r \in Requests, AppendConflicts(r)
    PROVE  Inv'
  BY AnswerStep DEF AppendConflicts, Inv, TypeOK

LEMMA ReplayNothingInv ==
    ASSUME Inv, NEW r \in Requests, ReplayNothing(r)
    PROVE  Inv'
  BY AnswerStep DEF ReplayNothing, Inv, TypeOK

LEMMA SnapshotNothingInv ==
    ASSUME Inv, NEW r \in Requests, SnapshotNothing(r)
    PROVE  Inv'
  BY AnswerStep DEF SnapshotNothing, Inv, TypeOK

LEMMA BuildEventsInv ==
    ASSUME Inv, NEW r \in Requests, BuildEvents(r)
    PROVE  Inv'
  <1>1. CreateCommand(command[r]) /\ ~InvalidCreate(command[r])
    BY DEF BuildEvents, Inv, RequestsInv, RequestInv
  <1>2. EventsToAppend(command[r]) \in Seq(Event)
    BY <1>1, UnnumberedEvents
  <1>3. TypeOK'
    <2>1. work' \in [Requests -> Seq(Event)]
      BY <1>2 DEF BuildEvents, Inv, TypeOK
    <2>2. pc' \in [Requests -> Labels]
      BY DEF BuildEvents, Inv, TypeOK, Goto, Labels
    <2> QED
      BY <2>1, <2>2 DEF BuildEvents, Inv, TypeOK
  <1>4. /\ pc' = [pc EXCEPT ![r] = "append"]
        /\ work'[r] = EventsToAppend(command[r])
        /\ reply' = reply /\ command' = command
        /\ reply[r].code = "none"
    BY DEF BuildEvents, Inv, TypeOK, Goto, RequestsInv, RequestInv
  <1>6. ~Accepted(r)'
    BY <1>4 DEF Accepted, Inv, TypeOK
  <1>7. pc'[r] = "append"
    BY <1>4 DEF Inv, TypeOK
  <1>5. RequestInv(r)' /\ ~Accepted(r)'
    BY <1>1, <1>4, <1>6, <1>7
    DEF Inv, TypeOK, RequestInv, Accepted, CreateCommand, InvalidCreate,
        EventsToAppend, EventCreated, EventProcessed, RiskStatus
  <1> QED
    BY <1>3, <1>5, LocalStep DEF BuildEvents, Inv, TypeOK, Goto

LEMMA AppendWinsInv ==
    ASSUME Inv, NEW r \in Requests, AppendWins(r)
    PROVE  Inv'
  <1> DEFINE c == command[r]
             both == Both(c.id, c.amount)
  <1>1. /\ CreateCommand(c) /\ ~InvalidCreate(c)
        /\ work[r] = EventsToAppend(c)
        /\ reply[r].code = "none"
    BY DEF AppendWins, Inv, RequestsInv, RequestInv
  <1>2. c.id \in TxIds /\ c.amount \in Amounts /\ c.amount \in Int /\ c.amount > 0
    <2>1. c.id \in TxIds /\ c.amount \in Amounts
      BY <1>1 DEF CreateCommand, InvalidCreate, Ids
    <2>2. c.amount \in Int
      BY <2>1, AmountsAssumption
    <2> QED
      BY <1>1, <2>1, <2>2 DEF InvalidCreate
  <1>3. streams[c.id] = <<>>
    BY <1>2 DEF AppendWins, VersionMatches, AnyVersion, Inv, TypeOK
  <1>4. Numbered(<<>>, work[r]) = both
    BY <1>1, <1>2, StoredStream
  <1>5. both \in Seq(Event) /\ both # <<>>
    BY <1>2, BothFacts
  <1>6. /\ streams' = [streams EXCEPT ![c.id] = both]
        /\ work' = [work EXCEPT ![r] = both]
        /\ pc' = [pc EXCEPT ![r] = "publish"]
        /\ UNCHANGED <<snapshots, models, deliveries, command, reply, writer>>
    <2>1. streams' = [streams EXCEPT ![c.id] = streams[c.id] \o Numbered(streams[c.id], work[r])]
      BY DEF AppendWins, AppendEvents
    <2>2. work' = [work EXCEPT ![r] = Numbered(streams[c.id], work[r])]
      BY DEF AppendWins
    <2>3. <<>> \o both = both
      BY <1>5
    <2> QED
      BY <2>1, <2>2, <2>3, <1>3, <1>4 DEF AppendWins, Goto
  <1> HIDE DEF both
  <1>7. TypeOK'
    BY <1>5, <1>6 DEF Inv, TypeOK, Labels
  <1>8. Grown
    BY <1>3, <1>6 DEF Grown, Inv, TypeOK
  <1>9. Holds(c.id, c.amount)'
    BY <1>2, <1>6 DEF Holds, both, Inv, TypeOK, Both, First, Second, RiskStatus
  <1>10. StreamsInv'
    <2> SUFFICES ASSUME NEW id \in TxIds
                 PROVE  streams'[id] = <<>> \/ \E amount \in Amounts : Holds(id, amount)'
      BY DEF StreamsInv
    <2>1. CASE id = c.id
      BY <2>1, <1>2, <1>6, <1>9
    <2>2. CASE id # c.id /\ streams[id] = <<>>
      BY <2>2, <1>6 DEF Inv, TypeOK
    <2>3. CASE streams[id] # <<>>
      BY <2>3, <1>8, HoldsStable DEF StreamsInv, Inv
    <2> QED
      BY <2>1, <2>2, <2>3
  <1>11. RequestsInv'
    <2>1. /\ pc'[r] = "publish" /\ command'[r] = c /\ work'[r] = both
          /\ reply'[r].code = "none"
      BY <1>1, <1>6 DEF Inv, TypeOK
    <2>2. RequestInv(r)'
      BY <2>1, <1>1, <1>2, <1>9
      DEF RequestInv, Accepted, CreateCommand, both, Both, First, Second, RiskStatus,
          JustSecond
    <2> QED
      BY <2>2, <1>6, <1>8, RequestStable DEF RequestsInv, Inv, TypeOK
  <1>12. UniqueCreates'
    <2>1. ASSUME NEW q \in Requests, q # r, Accepted(q)'
          PROVE  command[q].id # c.id
      <3>1. Accepted(q)
        BY <2>1, <1>6 DEF Accepted, Inv, TypeOK
      <3>2. command[q].id \in TxIds /\ command[q].amount \in Int
            /\ streams[command[q].id] = Both(command[q].id, command[q].amount)
        BY <3>1, AmountsAssumption DEF Inv, RequestsInv, RequestInv, Holds
      <3>3. streams[command[q].id] # <<>>
        BY <3>2, BothFacts
      <3> QED
        BY <3>3, <1>3
    <2>2. \A q \in Requests \ {r} : Accepted(q)' => Accepted(q)
      BY <1>6 DEF Accepted, Inv, TypeOK
    <2> QED
      BY <1>6, <2>1, <2>2 DEF UniqueCreates, Inv
  <1>13. DeliveriesInv' /\ ModelsInv' /\ SnapshotsInv'
    BY <1>6, <1>8, DeliveryStable, ModelStable, SnapshotStable
    DEF DeliveriesInv, ModelsInv, SnapshotsInv, Inv
  <1> QED
    BY <1>7, <1>10, <1>11, <1>12, <1>13 DEF Inv

\* Steps that change no stream and, of the requests, at most what r does.
LEMMA QuietStep ==
    ASSUME Inv, NEW r \in Requests, UNCHANGED streams,
           \A q \in Requests \ {r} :
               /\ pc'[q] = pc[q] /\ command'[q] = command[q]
               /\ work'[q] = work[q] /\ reply'[q] = reply[q],
           Accepted(r)' => Accepted(r) /\ command'[r] = command[r],
           TypeOK', RequestInv(r)', DeliveriesInv', ModelsInv', SnapshotsInv'
    PROVE  Inv'
  <1>1. Grown
    BY DEF Grown
  <1>2. StreamsInv'
    BY <1>1, StreamsStable DEF Inv
  <1>3. RequestsInv'
    BY <1>1, RequestStable DEF RequestsInv, Inv
  <1>4. UniqueCreates'
    BY DEF UniqueCreates, Accepted, Inv
  <1> QED
    BY <1>2, <1>3, <1>4 DEF Inv

LEMMA PublishInv ==
    ASSUME Inv, NEW r \in Requests, Publish(r)
    PROVE  Inv'
  <1> DEFINE c == command[r]
             e == Head(work[r])
  <1>1. /\ CreateCommand(c) /\ c.id \in TxIds /\ Holds(c.id, c.amount)
        /\ work[r] \in {Both(c.id, c.amount), JustSecond(c.id, c.amount)}
        /\ reply[r].code = "none" /\ Accepted(r)
    BY DEF Publish, Inv, RequestsInv, RequestInv, Accepted
  <1>2. c.amount \in Amounts /\ c.amount \in Int
    BY <1>1, AmountsAssumption DEF Holds
  <1>3. /\ e \in {First(c.id, c.amount), Second(c.id, c.amount)}
        /\ e \in Event
        /\ e.id = c.id
        /\ Tail(work[r]) \in Seq(Event)
        /\ work[r] = Both(c.id, c.amount)
              => Len(work[r]) = 2 /\ Tail(work[r]) = JustSecond(c.id, c.amount)
        /\ work[r] = JustSecond(c.id, c.amount) => Len(work[r]) = 1
    <2>1. CASE work[r] = Both(c.id, c.amount)
      <3>0. /\ Head(Both(c.id, c.amount)) = First(c.id, c.amount)
            /\ Tail(Both(c.id, c.amount)) = JustSecond(c.id, c.amount)
        BY <1>1, <1>2, BothFacts
      <3>1. e = First(c.id, c.amount) /\ Tail(work[r]) = JustSecond(c.id, c.amount)
        BY <2>1, <3>0
      <3>2. e.id = c.id
        BY <3>1 DEF First
      <3>3. /\ First(c.id, c.amount) \in Event
            /\ JustSecond(c.id, c.amount) \in Seq(Event)
            /\ Len(Both(c.id, c.amount)) = 2
            /\ JustSecond(c.id, c.amount) # Both(c.id, c.amount)
        BY <1>1, <1>2, BothFacts, StoredEvents
      <3> HIDE DEF e
      <3> QED
        BY <2>1, <3>1, <3>2, <3>3
    <2>2. CASE work[r] = JustSecond(c.id, c.amount)
      <3>0. /\ Head(JustSecond(c.id, c.amount)) = Second(c.id, c.amount)
            /\ Tail(JustSecond(c.id, c.amount)) = <<>>
        BY <1>1, <1>2, BothFacts
      <3>1. e = Second(c.id, c.amount) /\ Tail(work[r]) = <<>>
        BY <2>2, <3>0
      <3>2. e.id = c.id
        BY <3>1 DEF Second
      <3>3. /\ Second(c.id, c.amount) \in Event
            /\ Len(JustSecond(c.id, c.amount)) = 1
            /\ JustSecond(c.id, c.amount) # Both(c.id, c.amount)
            /\ <<>> \in Seq(Event)
        BY <1>1, <1>2, BothFacts, StoredEvents, EmptySeq
      <3> HIDE DEF e
      <3> QED
        BY <2>2, <3>1, <3>2, <3>3
    <2> QED
      BY <1>1, <2>1, <2>2
  <1>4. /\ pc' = [pc EXCEPT ![r] = IF Len(work[r]) > 1 THEN "publish" ELSE "settle"]
        /\ work' = [work EXCEPT ![r] = Tail(work[r])]
        /\ deliveries' = deliveries \cup {[event |-> e, at |-> "handle"]}
        /\ UNCHANGED <<streams, snapshots, models, command, reply, writer>>
    BY DEF Publish, Goto
  <1> HIDE DEF e
  <1>5. TypeOK'
    <2>1. [event |-> e, at |-> "handle"] \in [event : Event, at : {"handle", "save"}]
      BY <1>3
    <2>2. deliveries' \subseteq [event : Event, at : {"handle", "save"}]
      BY <2>1, <1>4 DEF Inv, TypeOK
    <2>3. pc' \in [Requests -> Labels] /\ work' \in [Requests -> Seq(Event)]
      BY <1>3, <1>4 DEF Inv, TypeOK, Labels
    <2> QED
      BY <2>2, <2>3, <1>4 DEF Inv, TypeOK
  <1>6. Grown
    BY <1>4 DEF Grown
  <1>7. Holds(c.id, c.amount)'
    <2>1. PICK id, amount : id = c.id /\ amount = c.amount
      OBVIOUS
    <2>2. Holds(id, amount)'
      BY <2>1, <1>1, <1>2, <1>6, HoldsStable
    <2> QED
      BY <2>1, <2>2, <1>4 DEF Inv, TypeOK
  <1>8. RequestInv(r)'
    <2>1. /\ pc'[r] = IF Len(work[r]) > 1 THEN "publish" ELSE "settle"
          /\ work'[r] = Tail(work[r])
          /\ command'[r] = c /\ reply'[r].code = "none"
      BY <1>1, <1>4 DEF Inv, TypeOK
    <2>2. pc'[r] = "publish" => work'[r] = JustSecond(c.id, c.amount)
      <3>1. work[r] = JustSecond(c.id, c.amount) => pc'[r] = "settle"
        BY <1>3, <2>1
      <3> QED
        BY <3>1, <1>1, <1>3, <2>1
    <2> QED
      BY <2>1, <2>2, <1>1, <1>7
      DEF RequestInv, Accepted, CreateCommand, JustSecond, Second, RiskStatus
  <1>9. DeliveriesInv'
    <2>1. ASSUME NEW d \in deliveries'
          PROVE  DeliveryInv(d)'
      <3>1. CASE d \in deliveries
        BY <3>1, <1>6, DeliveryStable DEF Inv, DeliveriesInv
      <3>2. CASE d = [event |-> e, at |-> "handle"]
        <4>1. d.event = e /\ d.at = "handle" /\ d.event.id = c.id
          BY <3>2, <1>3
        <4>2. PICK id, amount : id = c.id /\ amount = c.amount
          OBVIOUS
        <4>3. /\ amount \in Amounts
              /\ Holds(id, amount)'
              /\ d.event.id = id
              /\ d.event \in {First(id, amount), Second(id, amount)}
          BY <4>1, <4>2, <1>2, <1>3, <1>4, <1>7 DEF Inv, TypeOK
        <4> QED
          BY <4>1, <4>3 DEF DeliveryInv, First, Second, RiskStatus
      <3> QED
        BY <3>1, <3>2, <1>4
    <2> QED
      BY <2>1 DEF DeliveriesInv
  <1>10. ModelsInv' /\ SnapshotsInv'
    BY <1>4, <1>6, ModelStable, SnapshotStable DEF ModelsInv, SnapshotsInv, Inv
  <1>11. \A q \in Requests \ {r} :
            /\ pc'[q] = pc[q] /\ command'[q] = command[q]
            /\ work'[q] = work[q] /\ reply'[q] = reply[q]
    BY <1>4 DEF Inv, TypeOK
  <1> QED
    BY <1>1, <1>4, <1>5, <1>8, <1>9, <1>10, <1>11, QuietStep

LEMMA AnswerCreateInv ==
    ASSUME Inv, NEW r \in Requests, AnswerCreate(r)
    PROVE  Inv'
  <1> DEFINE c == command[r]
  <1>1. CreateCommand(c) /\ c.id \in TxIds /\ Holds(c.id, c.amount) /\ Accepted(r)
    BY DEF AnswerCreate, Inv, RequestsInv, RequestInv, Accepted
  <1>2. c.amount \in Amounts /\ c.amount \in Int
    BY <1>1, AmountsAssumption DEF Holds
  <1>3. PICK amount \in Int, status \in Statuses :
            Answer(r, [code |-> "created", amount |-> amount, status |-> status])
    BY <1>1, <1>2 DEF AnswerCreate, Inv, TypeOK, Model, Statuses
  <1> DEFINE answer == [code |-> "created", amount |-> amount, status |-> status]
  <1>4. /\ pc' = [pc EXCEPT ![r] = "done"]
        /\ reply' = [reply EXCEPT ![r] = answer]
        /\ UNCHANGED <<streams, snapshots, models, deliveries, command, work, writer>>
    BY <1>3 DEF AnswerCreate, Answer, Goto
  <1>5. answer \in Reply
    BY DEF Reply
  <1>6. TypeOK'
    BY <1>4, <1>5 DEF Inv, TypeOK, Labels
  <1>7. RequestInv(r)'
    <2>1. pc'[r] = "done" /\ command'[r] = c
      BY <1>4 DEF Inv, TypeOK
    <2>2. Holds(c.id, c.amount)'
      BY <1>1, <1>2, <1>4, HoldsStable DEF Grown
    <2> QED
      BY <2>1, <2>2, <1>1 DEF RequestInv, CreateCommand
  <1> QED
    BY <1>1, <1>4, <1>6, <1>7, LocalStep DEF Inv, TypeOK

\* Saving the projection of an event that the stream holds.
LEMMA StoreStep ==
    ASSUME Inv, UNCHANGED streams,
           NEW id \in TxIds, NEW amount \in Amounts, Holds(id, amount),
           NEW who \in {"live", "replay"}, NEW e, NEW status,
           \/ e = First(id, amount) /\ status = "PENDING"
           \/ e = Second(id, amount) /\ status = e.status,
           Store(e, status, who)
    PROVE  /\ models' \in [TxIds -> Model \cup {NoModel}]
           /\ writer' \in [TxIds -> {"nobody", "live", "replay"}]
           /\ ModelsInv'
  <1> DEFINE m == [amount |-> e.amount, status |-> status, version |-> e.version]
  <1>1. amount \in Int /\ RiskStatus(amount) \in Statuses
    BY AmountsAssumption, StoredEvents
  <1>2. e.id = id /\ m \in {Pending(amount), Settled(amount)}
    BY DEF First, Second, Pending, Settled
  <1>3. m \in Model
    BY <1>1, <1>2 DEF Pending, Settled, Model, Statuses
  <1>4. /\ models' = [models EXCEPT ![id] = m]
        /\ writer' = [writer EXCEPT ![id] = who]
    BY <1>2 DEF Store
  <1> HIDE DEF m
  <1>5. Grown
    BY DEF Grown
  <1>6. Holds(id, amount)'
    BY <1>5, HoldsStable
  <1>7. ASSUME NEW other \in TxIds
        PROVE  ModelInv(other)'
    <2>1. CASE other = id
      <3>1. models'[other] \in {Pending(amount), Settled(amount)}
        BY <2>1, <1>2, <1>4 DEF Inv, TypeOK
      <3> QED
        BY <3>1, <2>1, <1>6 DEF ModelInv, Pending, Settled, RiskStatus
    <2>2. CASE other # id
      BY <2>2, <1>4, <1>5, ModelStable DEF Inv, TypeOK, ModelsInv
    <2> QED
      BY <2>1, <2>2
  <1> QED
    BY <1>3, <1>4, <1>7 DEF Inv, TypeOK, ModelsInv

\* A step of a handler goroutine: no request moves.
LEMMA DeliveryStep ==
    ASSUME Inv, UNCHANGED <<streams, snapshots, pc, command, work, reply>>,
           TypeOK', DeliveriesInv', ModelsInv'
    PROVE  Inv'
  <1>1. Grown
    BY DEF Grown
  <1>2. StreamsInv'
    BY <1>1, StreamsStable DEF Inv
  <1>3. RequestsInv'
    BY <1>1, RequestStable DEF RequestsInv, Inv
  <1>4. UniqueCreates'
    BY DEF UniqueCreates, Accepted, Inv
  <1>5. SnapshotsInv'
    BY <1>1, SnapshotStable DEF SnapshotsInv, Inv
  <1> QED
    BY <1>2, <1>3, <1>4, <1>5 DEF Inv

\* The remaining deliveries, when one is dropped or moves on.
LEMMA DeliveriesRemain ==
    ASSUME Inv, UNCHANGED streams, deliveries' \subseteq deliveries
    PROVE  DeliveriesInv'
  <1>1. Grown
    BY DEF Grown
  <1> QED
    BY <1>1, DeliveryStable DEF DeliveriesInv, Inv

LEMMA DeliverCreatedInv ==
    ASSUME Inv, NEW d \in deliveries, DeliverCreated(d)
    PROVE  Inv'
  <1>1. PICK amount \in Amounts :
            /\ Holds(d.event.id, amount)
            /\ d.event = First(d.event.id, amount) \/ d.event = Second(d.event.id, amount)
    BY DEF Inv, DeliveriesInv, DeliveryInv
  <1>2. d.event.id \in TxIds
    BY DEF Inv, TypeOK, Event
  <1>3. d.event = First(d.event.id, amount)
    BY <1>1 DEF DeliverCreated, SaveCreated, Second
  <1>4. /\ Store(d.event, "PENDING", "live")
        /\ UNCHANGED <<streams, snapshots, pc, command, work, reply>>
        /\ deliveries' = deliveries \ {d}
    BY DEF DeliverCreated, SaveCreated
  <1>5. /\ models' \in [TxIds -> Model \cup {NoModel}]
        /\ writer' \in [TxIds -> {"nobody", "live", "replay"}]
        /\ ModelsInv'
    BY <1>1, <1>2, <1>3, <1>4, StoreStep
  <1>6. TypeOK'
    BY <1>4, <1>5 DEF Inv, TypeOK
  <1>7. DeliveriesInv'
    BY <1>4, DeliveriesRemain
  <1> QED
    BY <1>4, <1>5, <1>6, <1>7, DeliveryStep

LEMMA CheckVersionInv ==
    ASSUME Inv, NEW d \in deliveries, CheckVersion(d)
    PROVE  Inv'
  <1> DEFINE moved == [d EXCEPT !.at = "save"]
  <1>1. /\ UNCHANGED <<streams, snapshots, models, pc, command, work, reply, writer>>
        /\ deliveries' \subseteq deliveries \cup {moved}
        /\ d.event.type = "TransactionProcessed"
    BY DEF CheckVersion
  <1>2. d \in [event : Event, at : {"handle", "save"}]
    BY DEF Inv, TypeOK
  <1>3. moved \in [event : Event, at : {"handle", "save"}] /\ moved.event = d.event
    BY <1>2
  <1>4. Grown
    BY <1>1 DEF Grown
  <1> HIDE DEF moved
  <1>5. TypeOK'
    BY <1>1, <1>3 DEF Inv, TypeOK
  <1>6. DeliveryInv(moved)
    BY <1>1, <1>3 DEF Inv, DeliveriesInv, DeliveryInv, First
  <1>7. DeliveryInv(moved)'
    <2>1. PICK amount \in Amounts : /\ Holds(moved.event.id, amount)
                                   /\ moved.event = Second(moved.event.id, amount)
      BY <1>1, <1>3, <1>6 DEF DeliveryInv, First
    <2>2. PICK m : m = moved
      OBVIOUS
    <2>3. m.event.id \in TxIds
      BY <1>3, <2>2 DEF Event
    <2>4. Holds(m.event.id, amount)'
      BY <2>1, <2>2, <2>3, <1>4, HoldsStable
    <2>5. DeliveryInv(m)'
      BY <2>1, <2>2, <2>4 DEF DeliveryInv, Second, RiskStatus
    <2> QED
      BY <2>1, <2>2, <2>5, <1>1 DEF moved
  <1>8. DeliveriesInv'
    BY <1>1, <1>4, <1>7, DeliveryStable DEF Inv, DeliveriesInv
  <1>9. ModelsInv'
    BY <1>1, <1>4, ModelStable DEF ModelsInv, Inv
  <1> QED
    BY <1>1, <1>5, <1>8, <1>9, DeliveryStep

LEMMA DeliverProcessedInv ==
    ASSUME Inv, NEW d \in deliveries, DeliverProcessed(d)
    PROVE  Inv'
  <1>1. PICK amount \in Amounts :
            Holds(d.event.id, amount) /\ d.event = Second(d.event.id, amount)
    BY DEF Inv, DeliveriesInv, DeliveryInv, DeliverProcessed
  <1>2. d.event.id \in TxIds
    BY DEF Inv, TypeOK, Event
  <1>3. /\ Store(d.event, d.event.status, "live")
        /\ UNCHANGED <<streams, snapshots, pc, command, work, reply>>
        /\ deliveries' = deliveries \ {d}
    BY DEF DeliverProcessed, SaveProcessed
  <1>4. /\ models' \in [TxIds -> Model \cup {NoModel}]
        /\ writer' \in [TxIds -> {"nobody", "live", "replay"}]
        /\ ModelsInv'
    BY <1>1, <1>2, <1>3, StoreStep
  <1>5. TypeOK'
    BY <1>3, <1>4 DEF Inv, TypeOK
  <1>6. DeliveriesInv'
    BY <1>3, DeliveriesRemain
  <1> QED
    BY <1>3, <1>4, <1>5, <1>6, DeliveryStep

LEMMA ReadReplayInv ==
    ASSUME Inv, NEW r \in Requests, ReadReplay(r)
    PROVE  Inv'
  <1>1. PICK c : c = command[r]
    OBVIOUS
  <1>2. c.id \in TxIds /\ c.from \in Int /\ reply[r].code = "none"
    BY <1>1 DEF ReadReplay, Inv, RequestsInv, RequestInv
  <1>3. PICK k \in Nat : k >= 1 /\ ReadStream(c.id, c.from)
                                    = SubSeq(streams[c.id], k, Len(streams[c.id]))
    <2>1. CASE c.from < 1
      <3>1. ReadStream(c.id, c.from) = SubSeq(streams[c.id], 1, Len(streams[c.id]))
        BY <2>1 DEF ReadStream
      <3>2. 1 \in Nat /\ 1 >= 1
        OBVIOUS
      <3> QED
        BY <3>1, <3>2, Zenon
    <2>2. CASE ~(c.from < 1)
      <3>1. ReadStream(c.id, c.from) = SubSeq(streams[c.id], c.from, Len(streams[c.id]))
        BY <2>2 DEF ReadStream
      <3>2. c.from \in Nat /\ c.from >= 1
        BY <2>2, <1>2
      <3> QED
        BY <3>1, <3>2, Zenon
    <2> QED
      BY <2>1, <2>2
  <1>4. PICK events : events = ReadStream(c.id, c.from)
    OBVIOUS
  <1>5. /\ events # <<>>
        /\ work' = [work EXCEPT ![r] = events]
        /\ pc' = [pc EXCEPT ![r] = "rebuild"]
        /\ UNCHANGED <<streams, snapshots, models, deliveries, command, reply, writer>>
    BY <1>1, <1>4 DEF ReadReplay, Goto
  <1>6. streams[c.id] # <<>>
    BY <1>3, <1>4, <1>5, SubSeqEmpty
  <1>7. PICK amount \in Amounts : Holds(c.id, amount)
    BY <1>2, <1>6 DEF Inv, StreamsInv
  <1>8. amount \in Int
    BY AmountsAssumption
  <1>9. events \in {Both(c.id, amount), JustSecond(c.id, amount)}
    BY <1>2, <1>3, <1>4, <1>5, <1>7, <1>8, SuffixFacts DEF Holds
  <1>10. events \in Seq(Event)
    BY <1>2, <1>8, <1>9, BothFacts
  <1>11. TypeOK'
    BY <1>5, <1>10 DEF Inv, TypeOK, Labels
  <1>12. RequestInv(r)' /\ ~Accepted(r)'
    <2>1. /\ pc'[r] = "rebuild" /\ command'[r] = c /\ work'[r] = events
          /\ reply'[r].code = "none"
      BY <1>1, <1>2, <1>5 DEF Inv, TypeOK
    <2>2. Holds(c.id, amount)'
      BY <1>2, <1>5, <1>7, HoldsStable DEF Grown
    <2> QED
      BY <2>1, <2>2, <1>2, <1>9
      DEF RequestInv, Accepted, Both, JustSecond, First, Second, RiskStatus
  <1> QED
    BY <1>5, <1>11, <1>12, LocalStep DEF Inv, TypeOK

\* What a replay holds when it is about to handle an event.
LEMMA RebuildFacts ==
    ASSUME Inv, NEW r \in Requests, pc[r] \in {"rebuild", "rebuild save"}
    PROVE  \E id \in TxIds, amount \in Amounts :
               /\ id = command[r].id
               /\ Holds(id, amount)
               /\ \/ /\ pc[r] = "rebuild"
                     /\ work[r] = Both(id, amount)
                     /\ Head(work[r]) = First(id, amount)
                     /\ Len(work[r]) > 1 /\ ~(Len(work[r]) = 1)
                     /\ Tail(work[r]) = JustSecond(id, amount)
                  \/ /\ work[r] = JustSecond(id, amount)
                     /\ Head(work[r]) = Second(id, amount)
                     /\ Len(work[r]) = 1 /\ ~(Len(work[r]) > 1)
                     /\ Tail(work[r]) = <<>>
  <1>1. PICK id \in TxIds : id = command[r].id
    BY DEF Inv, RequestsInv, RequestInv
  <1>2. PICK amount \in Amounts :
            /\ Holds(id, amount)
            /\ \/ pc[r] = "rebuild" /\ work[r] = Both(id, amount)
               \/ work[r] = JustSecond(id, amount)
    BY <1>1 DEF Inv, RequestsInv, RequestInv
  <1>3. amount \in Int
    BY AmountsAssumption
  <1>4. CASE pc[r] = "rebuild" /\ work[r] = Both(id, amount)
    <2>1. /\ Head(work[r]) = First(id, amount)
          /\ Len(work[r]) > 1 /\ ~(Len(work[r]) = 1)
          /\ Tail(work[r]) = JustSecond(id, amount)
      BY <1>3, <1>4, BothFacts, LengthFacts, Zenon
    <2> QED
      BY <1>1, <1>2, <1>4, <2>1, Zenon
  <1>5. CASE work[r] = JustSecond(id, amount)
    <2>1. /\ Head(work[r]) = Second(id, amount)
          /\ Len(work[r]) = 1 /\ ~(Len(work[r]) > 1)
          /\ Tail(work[r]) = <<>>
      BY <1>3, <1>5, BothFacts, LengthFacts, Zenon
    <2> QED
      BY <1>1, <1>2, <1>5, <2>1, Zenon
  <1> QED
    BY <1>2, <1>4, <1>5

\* The bookkeeping after an event is handled in a replay.
LEMMA AdvanceStep ==
    ASSUME Inv, NEW r \in Requests, pc[r] \in {"rebuild", "rebuild save"},
           AdvanceReplay(r), UNCHANGED <<streams, command>>
    PROVE  /\ pc' \in [Requests -> Labels]
           /\ work' \in [Requests -> Seq(Event)]
           /\ reply' \in [Requests -> Reply]
           /\ RequestInv(r)' /\ ~Accepted(r)'
           /\ \A q \in Requests \ {r} :
                  pc'[q] = pc[q] /\ work'[q] = work[q] /\ reply'[q] = reply[q]
  <1>1. PICK id \in TxIds, amount \in Amounts :
               /\ id = command[r].id
               /\ Holds(id, amount)
               /\ \/ /\ ~(Len(work[r]) = 1)
                     /\ Tail(work[r]) = JustSecond(id, amount)
                  \/ /\ ~(Len(work[r]) > 1)
                     /\ Tail(work[r]) = <<>>
    BY RebuildFacts
  <1>2. amount \in Int
    BY AmountsAssumption
  <1>3. reply[r].code = "none"
    BY DEF Inv, RequestsInv, RequestInv
  <1>4. work' = [work EXCEPT ![r] = Tail(work[r])]
    BY DEF AdvanceReplay
  <1>5. CASE ~(Len(work[r]) = 1) /\ Tail(work[r]) = JustSecond(id, amount)
    <2>1. pc' = [pc EXCEPT ![r] = "rebuild"] /\ reply' = reply
      BY <1>5, Zenon DEF AdvanceReplay, Goto
    <2>2. Tail(work[r]) = JustSecond(id, amount)
      BY <1>5
    <2>3. JustSecond(id, amount) \in Seq(Event)
      BY <1>2, BothFacts
    <2>4. work' = [work EXCEPT ![r] = JustSecond(id, amount)]
      BY <1>4, <2>2
    <2>5. /\ pc'[r] = "rebuild" /\ work'[r] = JustSecond(id, amount)
          /\ reply'[r].code = "none" /\ command'[r].id = id
      BY <1>1, <1>3, <2>1, <2>4 DEF Inv, TypeOK
    <2>6. Holds(id, amount)'
      BY <1>1, HoldsStable DEF Grown
    <2>7. RequestInv(r)' /\ ~Accepted(r)'
      BY <2>5, <2>6 DEF RequestInv, Accepted, JustSecond, Second, RiskStatus
    <2> QED
      BY <2>1, <2>3, <2>4, <2>7 DEF Inv, TypeOK, Labels
  <1>6. CASE ~(Len(work[r]) > 1) /\ Tail(work[r]) = <<>>
    <2>1. /\ pc' = [pc EXCEPT ![r] = "done"]
          /\ reply' = [reply EXCEPT ![r] = [code |-> "replayed"]]
      BY <1>6, Zenon DEF AdvanceReplay, Answer, Goto
    <2>2. Tail(work[r]) \in Seq(Event)
      <3>1. <<>> \in Seq(Event)
        BY EmptySeq
      <3> QED
        BY <1>6, <3>1, Zenon
    <2>3. [code |-> "replayed"] \in Reply
      BY DEF Reply
    <2>4. pc'[r] = "done" /\ reply'[r].code = "replayed"
      BY <2>1 DEF Inv, TypeOK
    <2>5. RequestInv(r)' /\ ~Accepted(r)'
      BY <2>4 DEF RequestInv, Accepted
    <2>6. work' \in [Requests -> Seq(Event)]
      BY <1>4, <2>2 DEF Inv, TypeOK
    <2> QED
      BY <1>4, <2>1, <2>6, <2>3, <2>5 DEF Inv, TypeOK, Labels
  <1> QED
    BY <1>1, <1>5, <1>6, Zenon

\* A replay step that saves nothing in the read model, or saves an event of
\* the stream it read.
LEMMA ReplayStep ==
    ASSUME Inv, NEW r \in Requests, pc[r] \in {"rebuild", "rebuild save"},
           AdvanceReplay(r), UNCHANGED <<streams, snapshots, deliveries, command>>,
           models' \in [TxIds -> Model \cup {NoModel}],
           writer' \in [TxIds -> {"nobody", "live", "replay"}],
           ModelsInv'
    PROVE  Inv'
  <1>1. /\ pc' \in [Requests -> Labels]
        /\ work' \in [Requests -> Seq(Event)]
        /\ reply' \in [Requests -> Reply]
        /\ RequestInv(r)' /\ ~Accepted(r)'
        /\ \A q \in Requests \ {r} :
               pc'[q] = pc[q] /\ work'[q] = work[q] /\ reply'[q] = reply[q]
    BY AdvanceStep
  <1>2. TypeOK'
    BY <1>1 DEF Inv, TypeOK
  <1>3. DeliveriesInv'
    BY DeliveriesRemain
  <1>4. SnapshotsInv'
    BY SnapshotStable DEF SnapshotsInv, Inv, Grown
  <1> QED
    BY <1>1, <1>2, <1>3, <1>4, QuietStep

LEMMA ReplayCreatedInv ==
    ASSUME Inv, NEW r \in Requests, ReplayCreated(r)
    PROVE  Inv'
  <1>1. PICK id \in TxIds, amount \in Amounts :
            /\ Holds(id, amount)
            /\ Head(work[r]) \in {First(id, amount), Second(id, amount)}
    BY RebuildFacts DEF ReplayCreated
  <1>2. Head(work[r]) = First(id, amount)
    BY <1>1 DEF ReplayCreated, SaveCreated, Second
  <1>3. Store(Head(work[r]), "PENDING", "replay")
    BY DEF ReplayCreated, SaveCreated
  <1>4. /\ models' \in [TxIds -> Model \cup {NoModel}]
        /\ writer' \in [TxIds -> {"nobody", "live", "replay"}]
        /\ ModelsInv'
    BY <1>1, <1>2, <1>3, StoreStep DEF ReplayCreated
  <1> QED
    BY <1>4, ReplayStep DEF ReplayCreated

LEMMA ReplayProcessedInv ==
    ASSUME Inv, NEW r \in Requests, ReplayProcessed(r)
    PROVE  Inv'
  <1>1. PICK id \in TxIds, amount \in Amounts :
            Holds(id, amount) /\ Head(work[r]) = Second(id, amount)
    BY RebuildFacts DEF ReplayProcessed
  <1>2. Store(Head(work[r]), Head(work[r]).status, "replay")
    BY DEF ReplayProcessed, SaveProcessed
  <1>3. /\ models' \in [TxIds -> Model \cup {NoModel}]
        /\ writer' \in [TxIds -> {"nobody", "live", "replay"}]
        /\ ModelsInv'
    BY <1>1, <1>2, StoreStep DEF ReplayProcessed
  <1> QED
    BY <1>3, ReplayStep DEF ReplayProcessed

LEMMA ReplayCheckInv ==
    ASSUME Inv, NEW r \in Requests, ReplayCheck(r)
    PROVE  Inv'
  <1>1. CASE Obsolete(Head(work[r]))
    <2>1. ModelsInv'
      BY ModelStable DEF ModelsInv, Inv, Grown, ReplayCheck
    <2> QED
      BY <1>1, <2>1, ReplayStep DEF ReplayCheck, Inv, TypeOK
  <1>2. CASE ~Obsolete(Head(work[r]))
    <2>1. PICK id \in TxIds, amount \in Amounts :
              /\ id = command[r].id
              /\ Holds(id, amount)
              /\ \/ Head(work[r]) = First(id, amount)
                 \/ work[r] = JustSecond(id, amount)
      BY RebuildFacts DEF ReplayCheck
    <2>8. Head(work[r]).type = "TransactionProcessed"
      BY DEF ReplayCheck
    <2>9. First(id, amount).type = "TransactionCreated"
      BY DEF First
    <2>2. work[r] = JustSecond(id, amount)
      BY <2>1, <2>8, <2>9
    <2>3. /\ pc' = [pc EXCEPT ![r] = "rebuild save"]
          /\ UNCHANGED <<streams, snapshots, models, deliveries, command, work,
                         reply, writer>>
      BY <1>2 DEF ReplayCheck, Goto
    <2>4. TypeOK'
      BY <2>3 DEF Inv, TypeOK, Labels
    <2>5. Holds(id, amount)'
      BY <2>1, <2>3, HoldsStable DEF Grown
    <2>6. pc'[r] = "rebuild save" /\ reply[r].code = "none"
      BY <2>3 DEF Inv, TypeOK, RequestsInv, RequestInv, ReplayCheck
    <2>7. RequestInv(r)' /\ ~Accepted(r)'
      BY <2>1, <2>2, <2>3, <2>5, <2>6
      DEF RequestInv, Accepted, JustSecond, Second, RiskStatus
    <2> QED
      BY <2>3, <2>4, <2>7, LocalStep DEF Inv, TypeOK
  <1> QED
    BY <1>1, <1>2

LEMMA ReadForSnapshotInv ==
    ASSUME Inv, NEW r \in Requests, ReadForSnapshot(r)
    PROVE  Inv'
  <1> DEFINE c == command[r]
             events == ReadStream(c.id, 1)
  <1>1. pc[r] = "snapshot" /\ events # <<>>
    BY DEF ReadForSnapshot
  <1>2. c.id \in TxIds /\ reply[r].code = "none"
    BY <1>1 DEF Inv, RequestsInv, RequestInv
  <1>3. events = SubSeq(streams[c.id], 1, Len(streams[c.id]))
    BY DEF ReadStream
  <1>4. streams[c.id] # <<>>
    BY <1>1, <1>3, SubSeqEmpty
  <1>5. PICK amount \in Amounts : Holds(c.id, amount)
    BY <1>2, <1>4 DEF Inv, StreamsInv
  <1>6. amount \in Int
    BY AmountsAssumption
  <1>7. events = Both(c.id, amount)
    <2>1. streams[c.id] = Both(c.id, amount)
      BY <1>4, <1>5 DEF Holds
    <2>2. LET both == Both(c.id, amount) IN SubSeq(both, 1, Len(both)) = both
      BY <1>2, <1>6, SuffixFacts
    <2> HIDE DEF events
    <2> QED BY <1>3, <2>1, <2>2
  <1>8. /\ pc' = [pc EXCEPT ![r] = "save snapshot"]
        /\ work' = [work EXCEPT ![r] = events]
        /\ UNCHANGED <<streams, snapshots, models, deliveries, command, reply,
                       writer>>
    BY DEF ReadForSnapshot, Goto
  <1>9. events \in Seq(Event)
    BY <1>2, <1>6, <1>7, BothFacts
  <1> HIDE DEF events
  <1>10. TypeOK'
    BY <1>8, <1>9 DEF Inv, TypeOK, Labels
  <1>11. RequestInv(r)' /\ ~Accepted(r)'
    <2>1. /\ pc'[r] = "save snapshot" /\ command'[r] = c /\ work'[r] = events
          /\ reply'[r].code = "none"
      BY <1>2, <1>8 DEF Inv, TypeOK
    <2>2. Holds(c.id, amount)'
      BY <1>2, <1>5, <1>8, HoldsStable DEF Grown
    <2> QED
      BY <2>1, <2>2, <1>2, <1>7
      DEF RequestInv, Accepted, Both, First, Second, RiskStatus
  <1> QED
    BY <1>8, <1>10, <1>11, LocalStep DEF Inv, TypeOK

\* The aggregate of a whole stream is its final state.
LEMMA AggregateOfStream ==
    ASSUME NEW id \in TxIds, NEW amount \in Int
    PROVE  Aggregate(Both(id, amount)) = Settled(amount)
  <1> DEFINE events == Both(id, amount)
             processed ==
                 {i \in DOMAIN events : events[i].type = "TransactionProcessed"}
  <1>1. /\ events \in Seq(Event) /\ Len(events) = 2
        /\ events[1] = First(id, amount) /\ events[2] = Second(id, amount)
    BY BothFacts
  <1>2. DOMAIN events = 1..2
    BY <1>1
  <1>3. /\ events[1].type = "TransactionCreated"
        /\ events[2].type = "TransactionProcessed"
    BY <1>1 DEF First, Second
  <1> HIDE DEF events
  <1>4. processed = {2}
    BY <1>2, <1>3
  <1>5. (CHOOSE i \in processed : \A j \in processed : j <= i) = 2
    BY <1>4
  <1>6. events[2].version = 2 /\ events[2].amount = amount
        /\ events[2].status = RiskStatus(amount)
    BY <1>1 DEF Second
  <1> HIDE DEF processed
  <1>7. processed # {}
    BY <1>4
  <1> QED
    BY <1>1, <1>5, <1>6, <1>7 DEF Aggregate, Settled, events, processed

LEMMA StoreSnapshotInv ==
    ASSUME Inv, NEW r \in Requests, StoreSnapshot(r)
    PROVE  Inv'
  <1> DEFINE c == command[r]
  <1>1. pc[r] = "save snapshot"
    BY DEF StoreSnapshot
  <1>2. c.id \in TxIds
    BY <1>1 DEF Inv, RequestsInv, RequestInv
  <1>3. PICK amount \in Amounts : Holds(c.id, amount) /\ work[r] = Both(c.id, amount)
    BY <1>1 DEF Inv, RequestsInv, RequestInv
  <1>4. amount \in Int /\ Settled(amount) \in Snapshot
    <2>1. amount \in Int
      BY AmountsAssumption
    <2> QED
      BY <1>2, <2>1, StoredEvents DEF Settled, Snapshot
  <1>5. /\ snapshots' = [snapshots EXCEPT ![c.id] = Settled(amount)]
        /\ pc' = [pc EXCEPT ![r] = "done"]
        /\ work' = [work EXCEPT ![r] = <<>>]
        /\ reply' = [reply EXCEPT ![r] = [code |-> "snapshot saved"]]
        /\ UNCHANGED <<streams, models, deliveries, command, writer>>
    BY <1>2, <1>3, <1>4, AggregateOfStream DEF StoreSnapshot, SaveSnapshot, Answer, Goto
  <1>6. TypeOK'
    <2>1. [code |-> "snapshot saved"] \in Reply
      BY DEF Reply
    <2> QED
      BY <1>4, <1>5, <2>1, EmptySeq DEF Inv, TypeOK, Labels
  <1>7. pc'[r] = "done" /\ reply'[r].code = "snapshot saved"
    BY <1>5 DEF Inv, TypeOK
  <1>8. RequestInv(r)' /\ ~Accepted(r)'
    BY <1>7 DEF RequestInv, Accepted
  <1>9. SnapshotsInv'
    <2>1. Grown
      BY <1>5 DEF Grown
    <2>2. Holds(c.id, amount)'
      <3>1. PICK id \in TxIds : id = c.id
        BY <1>2
      <3>2. Holds(id, amount)'
        BY <1>3, <2>1, <3>1, HoldsStable
      <3>3. command'[r].id = id
        BY <1>5, <3>1
      <3> QED
        BY <3>2, <3>3, Zenon DEF c
    <2>3. snapshots'[c.id] = Settled(amount)
      BY <1>2, <1>5 DEF Inv, TypeOK
    <2>4. SnapshotInv(c.id)'
      BY <1>5, <2>2, <2>3 DEF SnapshotInv, Settled, RiskStatus
    <2>5. ASSUME NEW id \in TxIds \ {c.id} PROVE SnapshotInv(id)'
      BY <1>5, <2>1, SnapshotStable DEF Inv, TypeOK, SnapshotsInv
    <2> QED
      BY <1>5, <2>4, <2>5 DEF SnapshotsInv
  <1>10. DeliveriesInv' /\ ModelsInv'
    BY <1>5, DeliveriesRemain, ModelStable DEF ModelsInv, Inv, Grown
  <1> QED
    BY <1>5, <1>6, <1>8, <1>9, <1>10, QuietStep DEF Inv, TypeOK

-----------------------------------------------------------------------------
\* Every step of the service preserves the invariant.
LEMMA NextInv ==
    ASSUME Inv, [Next]_vars
    PROVE  Inv'
  <1>1. CASE UNCHANGED vars
    <2>1. Grown /\ UNCHANGED <<streams, deliveries>>
      BY <1>1 DEF vars, Grown
    <2>2. TypeOK'
      BY <1>1 DEF vars, Inv, TypeOK
    <2>3. StreamsInv'
      BY <2>1, StreamsStable DEF Inv
    <2>4. RequestsInv'
      BY <1>1, <2>1, RequestStable DEF vars, Inv, RequestsInv
    <2>5. UniqueCreates'
      BY <1>1 DEF vars, Inv, UniqueCreates, Accepted
    <2>6. DeliveriesInv'
      BY <2>1, DeliveriesRemain
    <2>7. ModelsInv' /\ SnapshotsInv'
      BY <1>1, <2>1, ModelStable, SnapshotStable DEF vars, Inv, ModelsInv, SnapshotsInv
    <2> QED
      BY <2>2, <2>3, <2>4, <2>5, <2>6, <2>7 DEF Inv
  <1>2. CASE Next
    <2>1. ASSUME NEW r \in Requests, Receive(r) PROVE Inv'
      BY <2>1, ReceiveInv
    <2>2. ASSUME NEW r \in Requests, CreateSteps(r) PROVE Inv'
      BY <2>2, RefuseInvalidInv, RefuseExistingInv, BuildEventsInv, AppendWinsInv,
         AppendConflictsInv, PublishInv, AnswerCreateInv
      DEF CreateSteps
    <2>3. ASSUME NEW r \in Requests, ReplaySteps(r) PROVE Inv'
      BY <2>3, ReplayNothingInv, ReadReplayInv, ReplayCreatedInv, ReplayCheckInv,
         ReplayProcessedInv
      DEF ReplaySteps
    <2>4. ASSUME NEW r \in Requests, SnapshotSteps(r) PROVE Inv'
      BY <2>4, SnapshotNothingInv, ReadForSnapshotInv, StoreSnapshotInv
      DEF SnapshotSteps
    <2>5. ASSUME NEW d \in deliveries, DeliverySteps(d) PROVE Inv'
      BY <2>5, DeliverCreatedInv, CheckVersionInv, DeliverProcessedInv
      DEF DeliverySteps
    <2> QED
      BY <1>2, <2>1, <2>2, <2>3, <2>4, <2>5 DEF Next, RequestSteps
  <1> QED
    BY <1>1, <1>2

\* Inv holds in every reachable state of the service.
THEOREM Invariance == Spec => []Inv
  <1>1. Init => Inv
    BY InitInv
  <1>2. Inv /\ [Next]_vars => Inv'
    BY NextInv
  <1> QED
    BY <1>1, <1>2, PTL DEF Spec

-----------------------------------------------------------------------------
(* What the invariant says, as the runs check it *)

\* Every variable of the service keeps its type.
THEOREM TypeCorrect == Spec => []TypeOK
  <1>1. Inv => TypeOK
    BY DEF Inv
  <1> QED
    BY <1>1, Invariance, PTL

\* What a stream that is not empty looks like from outside.
LEMMA HeldStream ==
    ASSUME NEW id \in TxIds, NEW amount \in Amounts, Holds(id, amount)
    PROVE  /\ Len(streams[id]) = 2
           /\ DOMAIN streams[id] = 1..2
           /\ streams[id][1].amount = amount
           /\ streams[id][2].status = RiskStatus(amount)
  <1>1. amount \in Int
    BY AmountsAssumption
  <1>2. streams[id] = Both(id, amount)
    BY DEF Holds
  <1>3. First(id, amount).amount = amount
    BY DEF First
  <1>4. Second(id, amount).status = RiskStatus(amount)
    BY DEF Second
  <1>5. /\ Len(Both(id, amount)) = 2
        /\ Both(id, amount)[1] = First(id, amount)
        /\ Both(id, amount)[2] = Second(id, amount)
    BY <1>1, BothFacts
  <1>6. DOMAIN Both(id, amount) = 1..2
    BY <1>1, LengthFacts
  <1> QED
    BY <1>2, <1>3, <1>4, <1>5, <1>6, Zenon

\* A stream never holds anything but the two numbered events of one create
\* of a positive amount, for any number of concurrent requests.
THEOREM StreamsStayWellFormed == Spec => []StreamsWellFormed
  <1>1. Inv => StreamsWellFormed
    <2> SUFFICES ASSUME Inv, NEW id \in TxIds, streams[id] # <<>>
                 PROVE  \E amount \in Amounts :
                            amount > 0 /\ streams[id] = StreamOf(id, amount)
      BY DEF StreamsWellFormed
    <2>1. PICK amount \in Amounts : Holds(id, amount)
      BY DEF Inv, StreamsInv
    <2>2. StreamOf(id, amount) = Both(id, amount)
      BY StoredStream, AmountsAssumption DEF StreamOf
    <2> QED
      BY <2>1, <2>2 DEF Holds
  <1> QED
    BY <1>1, Invariance, PTL

\* Of any number of concurrent creates of an identifier at most one is
\* accepted, and the stream is that one's.
THEOREM OneCreateEverWins == Spec => []OneCreateWins
  <1>1. Inv => OneCreateWins
    <2> SUFFICES ASSUME Inv, NEW r \in Requests, Accepted(r)
                 PROVE  /\ streams[command[r].id]
                               = StreamOf(command[r].id, command[r].amount)
                        /\ \A other \in Requests \ {r} :
                               Accepted(other) => command[other].id # command[r].id
      BY DEF OneCreateWins
    <2>1. command[r].id \in TxIds /\ Holds(command[r].id, command[r].amount)
      BY DEF Inv, RequestsInv, RequestInv
    <2>2. command[r].amount \in Int
      BY <2>1, AmountsAssumption DEF Holds
    <2>3. StreamOf(command[r].id, command[r].amount)
              = Both(command[r].id, command[r].amount)
      BY <2>1, <2>2, StoredStream DEF StreamOf
    <2>4. \A other \in Requests \ {r} :
              Accepted(other) => command[other].id # command[r].id
      BY DEF Inv, UniqueCreates
    <2> QED
      BY <2>1, <2>3, <2>4 DEF Holds
  <1> QED
    BY <1>1, Invariance, PTL

\* The projections shown and the events in flight come from the streams.
THEOREM ReadSideStaysBacked == Spec => []ReadSideIsBacked
  <1>1. Inv => ReadSideIsBacked
    <2>1. ASSUME Inv, NEW id \in TxIds, models[id] # NoModel
          PROVE  \/ id \in SeededIds /\ models[id] = Seed
                 \/ /\ models[id].version \in DOMAIN streams[id]
                    /\ models[id].amount = streams[id][1].amount
                    /\ models[id].status = IF models[id].version = 1 THEN "PENDING"
                                           ELSE streams[id][2].status
      <3>1. CASE id \in SeededIds /\ models[id] = Seed
        BY <3>1
      <3>2. ASSUME NEW amount \in Amounts, Holds(id, amount),
                   models[id] \in {Pending(amount), Settled(amount)}
            PROVE  /\ models[id].version \in DOMAIN streams[id]
                   /\ models[id].amount = streams[id][1].amount
                   /\ models[id].status = IF models[id].version = 1 THEN "PENDING"
                                          ELSE streams[id][2].status
        <4>1. /\ DOMAIN streams[id] = 1..2
              /\ streams[id][1].amount = amount
              /\ streams[id][2].status = RiskStatus(amount)
          BY <3>2, HeldStream
        <4> QED
          BY <3>2, <4>1 DEF Pending, Settled
      <3> QED
        BY <2>1, <3>1, <3>2 DEF Inv, ModelsInv, ModelInv
    <2>2. ASSUME Inv, NEW d \in deliveries
          PROVE  \E i \in DOMAIN streams[d.event.id] : d.event = streams[d.event.id][i]
      <3>1. d.event.id \in TxIds
        BY <2>2 DEF Inv, TypeOK, Event
      <3>2. PICK amount \in Amounts :
                /\ Holds(d.event.id, amount)
                /\ \/ d.event = First(d.event.id, amount)
                   \/ d.event = Second(d.event.id, amount)
        BY <2>2 DEF Inv, DeliveriesInv, DeliveryInv
      <3>3. /\ DOMAIN streams[d.event.id] = 1..2
            /\ streams[d.event.id][1] = First(d.event.id, amount)
            /\ streams[d.event.id][2] = Second(d.event.id, amount)
        BY <3>1, <3>2, BothFacts, AmountsAssumption DEF Holds
      <3> QED
        BY <3>2, <3>3
    <2> QED
      BY <2>1, <2>2 DEF ReadSideIsBacked
  <1> QED
    BY <1>1, Invariance, PTL

\* A snapshot is never behind its stream.
THEOREM SnapshotsStayCurrent == Spec => []SnapshotsCurrent
  <1>1. Inv => SnapshotsCurrent
    <2> SUFFICES ASSUME Inv, NEW id \in TxIds, snapshots[id] # NoSnapshot
                 PROVE  /\ Len(streams[id]) = 2
                        /\ snapshots[id].version = 2
                        /\ snapshots[id].amount = streams[id][1].amount
                        /\ snapshots[id].status = RiskStatus(streams[id][1].amount)
      BY DEF SnapshotsCurrent
    <2>1. PICK amount \in Amounts : Holds(id, amount) /\ snapshots[id] = Settled(amount)
      BY DEF Inv, SnapshotsInv, SnapshotInv
    <2>2. Len(streams[id]) = 2 /\ streams[id][1].amount = amount
      BY <2>1, HeldStream
    <2> QED
      BY <2>1, <2>2 DEF Settled
  <1> QED
    BY <1>1, Invariance, PTL

LEMMA NothingIsObsolete == Inv => VersionCheckNeverFires
  <1>1. ASSUME Inv, NEW e \in Event, e.type = "TransactionProcessed",
               NEW amount \in Amounts, e = Second(e.id, amount)
        PROVE  ~Obsolete(e)
    <2>1. e.id \in TxIds /\ e.version = 2
      BY <1>1 DEF Second, Event
    <2>2. models[e.id] # NoModel => models[e.id].version \in {1, 2}
      BY <1>1, <2>1 DEF Inv, ModelsInv, ModelInv, Seed, Pending, Settled
    <2> QED
      BY <2>1, <2>2 DEF Obsolete
  <1>2. ASSUME Inv, NEW d \in deliveries, d.event.type = "TransactionProcessed"
        PROVE  ~Obsolete(d.event)
    <2>1. d.event \in Event
      BY <1>2 DEF Inv, TypeOK
    <2>2. PICK amount \in Amounts : \/ d.event = First(d.event.id, amount)
                                    \/ d.event = Second(d.event.id, amount)
      BY <1>2 DEF Inv, DeliveriesInv, DeliveryInv
    <2>3. d.event = Second(d.event.id, amount)
      BY <1>2, <2>2 DEF First
    <2> QED
      BY <1>1, <1>2, <2>1, <2>3
  <1>3. ASSUME Inv, NEW r \in Requests, pc[r] = "rebuild",
               Head(work[r]).type = "TransactionProcessed"
        PROVE  ~Obsolete(Head(work[r]))
    <2>1. PICK id \in TxIds, amount \in Amounts :
              \/ Head(work[r]) = First(id, amount)
              \/ Head(work[r]) = Second(id, amount)
      BY <1>3, RebuildFacts
    <2>2. Head(work[r]) = Second(id, amount)
      BY <1>3, <2>1 DEF First
    <2>3. Second(id, amount) \in Event /\ Second(id, amount).id = id
      BY AmountsAssumption, StoredEvents DEF Second
    <2> QED
      BY <1>1, <1>3, <2>2, <2>3
  <1> QED
    BY <1>2, <1>3 DEF VersionCheckNeverFires

\* No projection is ever beyond the version of an event about to be handled.
THEOREM VersionCheckIsIdle == Spec => []VersionCheckNeverFires
  BY NothingIsObsolete, Invariance, PTL

\* What protects the event store, together: AppendEvents refuses every second
\* create, and so no event the read side handles is ever obsolete.
THEOREM StoreStaysSound == Spec => []StoreIsSound
  BY StreamsStayWellFormed, OneCreateEverWins, VersionCheckIsIdle, PTL
     DEF StoreIsSound

\* The read side shows what the streams hold, and its snapshots are the final
\* states of theirs.
THEOREM ReadSideStaysCurrent == Spec => []ReadSideIsCurrent
  BY ReadSideStaysBacked, SnapshotsStayCurrent, PTL DEF ReadSideIsCurrent

-----------------------------------------------------------------------------
(* The service implements the ledger: what the ledger shows of a state,    *)
(* identifier by identifier and request by request.                        *)

LedgerAt(id) ==
    IF streams[id] = <<>> THEN NoCommand ELSE streams[id][1].amount

AskedAt(r) ==
    IF IsCreate(r) THEN [id |-> command[r].id, amount |-> command[r].amount]
    ELSE NoCommand

OutcomeAt(r) ==
    IF Accepted(r) THEN "accepted"
    ELSE IF reply[r].code \in {"invalid", "exists", "conflict"}
         THEN "refused" ELSE "none"

ViewAt(id) == IF writer[id] = "nobody" THEN "unseen" ELSE models[id].status

SameLedger == \A id \in TxIds : LedgerAt(id)' = LedgerAt(id)
SameView == \A id \in TxIds : ViewAt(id)' = ViewAt(id)
SameAsked == \A r \in Requests : AskedAt(r)' = AskedAt(r)
SameOutcomes == \A r \in Requests : OutcomeAt(r)' = OutcomeAt(r)

LEMMA ToStutter ==
    ASSUME SameLedger, SameView, SameAsked, SameOutcomes
    PROVE  UNCHANGED Ledger!ledgerVars
  BY DEF SameLedger, SameView, SameAsked, SameOutcomes, LedgerAt, ViewAt, AskedAt,
         OutcomeAt, Ledger!ledgerVars

LEMMA ToAsk ==
    ASSUME SameLedger, SameView, SameOutcomes, NEW r \in Requests, NEW id \in Ids,
           NEW amount \in Amounts, AskedAt(r) = NoCommand,
           AskedAt(r)' = [id |-> id, amount |-> amount],
           \A q \in Requests \ {r} : AskedAt(q)' = AskedAt(q)
    PROVE  Ledger!Next
  <1>1. Ledger!Ask(r, id, amount)
    BY DEF SameLedger, SameView, SameOutcomes, LedgerAt, ViewAt, AskedAt, OutcomeAt, Ledger!Ask
  <1> QED BY <1>1 DEF Ledger!Next, Ids

LEMMA ToRefuse ==
    ASSUME SameLedger, SameView, SameAsked, NEW r \in Requests,
           AskedAt(r) # NoCommand, OutcomeAt(r) = "none", OutcomeAt(r)' = "refused",
           AskedAt(r).id \in Ids,
           \/ AskedAt(r).id = EmptyId \/ AskedAt(r).amount <= 0
           \/ AskedAt(r).id # EmptyId /\ LedgerAt(AskedAt(r).id) # NoCommand,
           \A q \in Requests \ {r} : OutcomeAt(q)' = OutcomeAt(q)
    PROVE  Ledger!Next
  <1>1. Ledger!Refuse(r)
    BY DEF SameLedger, SameView, SameAsked, LedgerAt, ViewAt, AskedAt, OutcomeAt,
           Ledger!Refuse, Ids
  <1> QED BY <1>1 DEF Ledger!Next

LEMMA ToAccept ==
    ASSUME SameView, SameAsked, NEW r \in Requests, NEW id \in TxIds, NEW amount,
           AskedAt(r) # NoCommand, OutcomeAt(r) = "none", OutcomeAt(r)' = "accepted",
           AskedAt(r).id = id, id # EmptyId, AskedAt(r).amount = amount, amount > 0,
           LedgerAt(id) = NoCommand, LedgerAt(id)' = amount,
           \A other \in TxIds \ {id} : LedgerAt(other)' = LedgerAt(other),
           \A q \in Requests \ {r} : OutcomeAt(q)' = OutcomeAt(q)
    PROVE  Ledger!Next
  <1> DEFINE ledger == [i \in TxIds |-> LedgerAt(i)]
             asked == [q \in Requests |-> AskedAt(q)]
             outcome == [q \in Requests |-> OutcomeAt(q)]
             view == [i \in TxIds |-> ViewAt(i)]
  <1>2. ledger' = [ledger EXCEPT ![id] = amount] /\ ledger[id] = NoCommand
    OBVIOUS
  <1>3. outcome' = [outcome EXCEPT ![r] = "accepted"] /\ outcome[r] = "none"
    OBVIOUS
  <1>4. asked' = asked /\ view' = view
    BY DEF SameAsked, SameView
  <1>5. asked[r] # NoCommand /\ asked[r].id = id /\ asked[r].amount = amount
    OBVIOUS
  <1>6. Ledger!Accept(r)
    BY <1>2, <1>3, <1>4, <1>5, Zenon
    DEF LedgerAt, ViewAt, AskedAt, OutcomeAt, Ledger!Accept
  <1> QED BY <1>6 DEF Ledger!Next

LEMMA ToProject ==
    ASSUME SameLedger, SameAsked, SameOutcomes, NEW id \in TxIds,
           LedgerAt(id) # NoCommand,
           ViewAt(id)' \in {"PENDING", RiskStatus(LedgerAt(id))},
           \A other \in TxIds \ {id} : ViewAt(other)' = ViewAt(other)
    PROVE  Ledger!Next
  <1> DEFINE ledger == [i \in TxIds |-> LedgerAt(i)]
             asked == [q \in Requests |-> AskedAt(q)]
             outcome == [q \in Requests |-> OutcomeAt(q)]
             view == [i \in TxIds |-> ViewAt(i)]
  <1>1. PICK shown : shown = ViewAt(id)'
    OBVIOUS
  <1>2. shown \in {"PENDING", RiskStatus(ledger[id])} /\ ledger[id] # NoCommand
    BY <1>1
  <1>3. view' = [view EXCEPT ![id] = shown]
    BY <1>1
  <1>4. ledger' = ledger /\ asked' = asked /\ outcome' = outcome
    BY DEF SameLedger, SameAsked, SameOutcomes
  <1>5. Ledger!FinalStatus(ledger[id]) = RiskStatus(ledger[id])
    BY DEF RiskStatus, Ledger!FinalStatus
  <1>6. Ledger!Project(id)
    BY <1>2, <1>3, <1>4, <1>5, Zenon
    DEF LedgerAt, ViewAt, AskedAt, OutcomeAt, Ledger!Project
  <1> QED BY <1>6 DEF Ledger!Next

-----------------------------------------------------------------------------
(* Which step of the ledger each step of the service is *)

\* A request has a command from the moment it is decoded.
Decoded == \A r \in Requests : pc[r] = "idle" <=> command[r] = NoCommand

\* What a request does, it does to itself.
LEMMA RequestFrame ==
    ASSUME TypeOK, NEW r \in Requests, RequestSteps(r)
    PROVE  /\ command' = command
           /\ pc[r] # "idle" /\ pc'[r] # "idle"
           /\ \A q \in Requests \ {r} : pc'[q] = pc[q] /\ reply'[q] = reply[q]
  <1>1. CASE CreateSteps(r)
    BY <1>1 DEF CreateSteps, RefuseInvalid, RefuseExisting, BuildEvents, AppendWins,
            AppendConflicts, Publish, AnswerCreate, Answer, Goto, TypeOK
  <1>2. CASE ReplaySteps(r)
    BY <1>2 DEF ReplaySteps, ReplayNothing, ReadReplay, ReplayCreated, ReplayCheck,
            ReplayProcessed, AdvanceReplay, Answer, Goto, TypeOK
  <1>3. CASE SnapshotSteps(r)
    BY <1>3 DEF SnapshotSteps, SnapshotNothing, ReadForSnapshot, StoreSnapshot, Answer,
            Goto, TypeOK
  <1> QED BY <1>1, <1>2, <1>3 DEF RequestSteps

LEMMA DecodedNext ==
    ASSUME TypeOK, Decoded, [Next]_vars
    PROVE  Decoded'
  <1>1. CASE UNCHANGED vars
    BY <1>1 DEF vars, Decoded
  <1>2. ASSUME NEW r \in Requests, Receive(r) PROVE Decoded'
    <2>1. PICK c \in Commands : command' = [command EXCEPT ![r] = c] /\ Goto(r, c.op)
      BY <1>2 DEF Receive
    <2>2. c # NoCommand /\ c.op # "idle"
      BY SentinelAssumption DEF Commands
    <2> QED BY <2>1, <2>2 DEF Decoded, TypeOK, Goto
  <1>3. ASSUME NEW r \in Requests, RequestSteps(r) PROVE Decoded'
    BY <1>3, RequestFrame DEF Decoded
  <1>4. ASSUME NEW d \in deliveries, DeliverySteps(d) PROVE Decoded'
    BY <1>4 DEF Decoded, DeliverySteps, DeliverCreated, CheckVersion, DeliverProcessed
  <1> QED BY <1>1, <1>2, <1>3, <1>4 DEF Next

\* The other requests ask and answer as before.
LEMMA OthersSame ==
    ASSUME TypeOK, NEW r \in Requests, RequestSteps(r)
    PROVE  /\ SameAsked
           /\ \A q \in Requests \ {r} : OutcomeAt(q)' = OutcomeAt(q)
  <1>1. /\ command' = command
        /\ \A q \in Requests \ {r} : pc'[q] = pc[q] /\ reply'[q] = reply[q]
    BY RequestFrame
  <1> QED BY <1>1 DEF SameAsked, AskedAt, IsCreate, OutcomeAt, Accepted

\* A stream that is not empty is an entry of the ledger.
LEMMA HeldEntry ==
    ASSUME Inv, NEW id \in TxIds, streams[id] # <<>>
    PROVE  \E amount \in Amounts :
             Holds(id, amount) /\ LedgerAt(id) = amount /\ amount # NoCommand
  <1>1. PICK amount \in Amounts : Holds(id, amount)
    BY DEF Inv, StreamsInv
  <1>2. LedgerAt(id) = amount
    BY <1>1, HeldStream DEF LedgerAt
  <1> QED BY <1>1, <1>2, SentinelAssumption

\* What the ledger shows of a create that has not been answered.
LEMMA CreateShown ==
    ASSUME Inv, Decoded, NEW r \in Requests, pc[r] \in {"create", "append"}
    PROVE  /\ AskedAt(r) = [id |-> command[r].id, amount |-> command[r].amount]
           /\ command[r].id \in Ids /\ command[r].amount \in Amounts
           /\ AskedAt(r) # NoCommand
           /\ OutcomeAt(r) = "none"
  <1>1. CreateCommand(command[r]) /\ reply[r].code = "none" /\ command[r] # NoCommand
    BY DEF Inv, RequestsInv, RequestInv, Decoded
  <1>2. IsCreate(r)
    BY <1>1 DEF IsCreate, CreateCommand
  <1>3. AskedAt(r) = [id |-> command[r].id, amount |-> command[r].amount]
    BY <1>2 DEF AskedAt
  <1>4. command[r].id \in Ids /\ command[r].amount \in Amounts
    BY <1>1 DEF CreateCommand
  <1>5. AskedAt(r) \in [id : Ids, amount : Amounts]
    BY <1>3, <1>4
  <1>6. OutcomeAt(r) = "none"
    BY <1>1 DEF OutcomeAt, Accepted
  <1> QED BY <1>3, <1>4, <1>5, <1>6, SentinelAssumption

\* Decoding a create asks the ledger; a replay or a snapshot asks nothing.
LEMMA ReceiveMaps ==
    ASSUME Inv, Decoded, NEW r \in Requests, Receive(r)
    PROVE  [Ledger!Next]_Ledger!ledgerVars
  <1>1. PICK c \in Commands : command' = [command EXCEPT ![r] = c] /\ Goto(r, c.op)
    BY DEF Receive
  <1>2. UNCHANGED <<streams, models, writer, reply>>
    BY DEF Receive
  <1>3. SameLedger /\ SameView
    BY <1>2 DEF SameLedger, SameView, LedgerAt, ViewAt
  <1>4. command[r] = NoCommand /\ reply[r].code = "none" /\ pc[r] = "idle"
    BY DEF Receive, Inv, RequestsInv, RequestInv, Decoded
  <1>5. command'[r] = c /\ pc'[r] = c.op /\ \A q \in Requests \ {r} :
          command'[q] = command[q] /\ pc'[q] = pc[q]
    BY <1>1 DEF Inv, TypeOK, Goto
  <1>6. c.op \in {"create", "replay", "snapshot"} /\ c # NoCommand
    BY SentinelAssumption DEF Commands
  <1>7. SameOutcomes
    BY <1>2, <1>4, <1>5, <1>6 DEF SameOutcomes, OutcomeAt, Accepted
  <1>8. AskedAt(r) = NoCommand /\ \A q \in Requests \ {r} : AskedAt(q)' = AskedAt(q)
    BY <1>4, <1>5 DEF AskedAt, IsCreate
  <1>9. CASE c.op = "create"
    <2>1. c.id \in Ids /\ c.amount \in Amounts
      BY <1>9 DEF Commands
    <2>2. AskedAt(r)' = [id |-> c.id, amount |-> c.amount]
      BY <1>5, <1>6, <1>9 DEF AskedAt, IsCreate
    <2> QED BY <1>3, <1>7, <1>8, <2>1, <2>2, ToAsk
  <1>10. CASE c.op # "create"
    <2>1. AskedAt(r)' = NoCommand
      BY <1>5, <1>10 DEF AskedAt, IsCreate
    <2>2. SameAsked
      BY <1>8, <2>1 DEF SameAsked
    <2> QED BY <1>3, <1>7, <2>2, ToStutter
  <1> QED BY <1>9, <1>10

\* Every refusal of a create has a reason in the ledger.
LEMMA RefuseMaps ==
    ASSUME Inv, Decoded, NEW r \in Requests,
           RefuseInvalid(r) \/ RefuseExisting(r) \/ AppendConflicts(r)
    PROVE  Ledger!Next
  <1>1. PICK code \in {"invalid", "exists", "conflict"} : Answer(r, [code |-> code])
    BY DEF RefuseInvalid, RefuseExisting, AppendConflicts
  <1>2. pc[r] \in {"create", "append"} /\ UNCHANGED <<streams, models, writer>>
    BY DEF RefuseInvalid, RefuseExisting, AppendConflicts
  <1>3. pc'[r] = "done" /\ reply'[r].code = code
    BY <1>1 DEF Answer, Goto, Inv, TypeOK
  <1>4. OutcomeAt(r)' = "refused"
    BY <1>3 DEF OutcomeAt, Accepted
  <1>5. SameLedger /\ SameView
    BY <1>2 DEF SameLedger, SameView, LedgerAt, ViewAt
  <1>6. SameAsked /\ \A q \in Requests \ {r} : OutcomeAt(q)' = OutcomeAt(q)
    BY OthersSame DEF Inv, RequestSteps, CreateSteps
  <1>7. \/ command[r].id = EmptyId \/ command[r].amount <= 0
        \/ command[r].id # EmptyId /\ LedgerAt(command[r].id) # NoCommand
    <2>1. CASE RefuseInvalid(r)
      BY <2>1 DEF RefuseInvalid, InvalidCreate
    <2>2. ASSUME command[r].id # EmptyId, streams[command[r].id] # <<>>
          PROVE  LedgerAt(command[r].id) # NoCommand
      BY <1>2, <2>2, CreateShown, HeldEntry DEF Ids
    <2>3. CASE RefuseExisting(r)
      <3>1. ReadStream(command[r].id, 1) # <<>>
        BY <2>3 DEF RefuseExisting
      <3>2. streams[command[r].id] # <<>>
        BY <3>1, SubSeqEmpty DEF ReadStream
      <3> QED BY <2>2, <3>2
    <2>4. CASE AppendConflicts(r)
      <3>1. Len(streams[command[r].id]) # 0
        BY <2>4 DEF AppendConflicts, VersionMatches, AnyVersion
      <3>2. streams[command[r].id] # <<>>
        BY <3>1
      <3> QED BY <2>2, <3>2
    <2> QED BY <2>1, <2>3, <2>4
  <1> QED BY <1>2, <1>4, <1>5, <1>6, <1>7, CreateShown, ToRefuse

\* The append that finds the stream empty is the moment of acceptance.
LEMMA AppendMaps ==
    ASSUME Inv, Inv', Decoded, NEW r \in Requests, AppendWins(r)
    PROVE  Ledger!Next
  <1>1. PICK id \in TxIds, amount \in Amounts :
            /\ command[r].id = id /\ command[r].amount = amount
            /\ amount > 0 /\ id # EmptyId /\ amount \in Int
    <2>1. CreateCommand(command[r]) /\ ~InvalidCreate(command[r])
      BY DEF AppendWins, Inv, RequestsInv, RequestInv
    <2>2. /\ command[r].id \in TxIds /\ command[r].id # EmptyId
          /\ command[r].amount \in Amounts /\ command[r].amount \in Int
      BY <2>1, AmountsAssumption DEF CreateCommand, InvalidCreate, Ids
    <2>3. command[r].amount > 0
      BY <2>1, <2>2 DEF InvalidCreate
    <2> QED BY <2>2, <2>3
  <1>2. /\ pc[r] = "append" /\ UNCHANGED <<models, writer, command>> /\ pc'[r] = "publish"
        /\ \A other \in TxIds \ {id} : streams'[other] = streams[other]
    BY <1>1 DEF AppendWins, AppendEvents, Goto, Inv, TypeOK
  <1>3. streams[id] = <<>>
    BY <1>1 DEF AppendWins, VersionMatches, AnyVersion, Inv, TypeOK
  <1>4. streams'[id] = Both(id, amount)
    <2>1. Accepted(r)'
      BY <1>2 DEF Accepted
    <2>2. Holds(command[r].id, command[r].amount)'
      BY <2>1 DEF Inv, RequestsInv, RequestInv
    <2> QED BY <1>1, <1>2, <2>2 DEF Holds, Both, First, Second, RiskStatus
  <1>5. LedgerAt(id) = NoCommand /\ LedgerAt(id)' = amount
    <2>1. First(id, amount).amount = amount
      BY DEF First
    <2>2. Both(id, amount) # <<>> /\ Both(id, amount)[1] = First(id, amount)
      BY <1>1, BothFacts
    <2>3. LedgerAt(id)' = streams'[id][1].amount
      BY <1>4, <2>2 DEF LedgerAt
    <2>4. streams'[id][1].amount = amount
      BY <1>4, <2>1, <2>2, Zenon
    <2> QED BY <1>3, <2>3, <2>4 DEF LedgerAt
  <1>6. OutcomeAt(r)' = "accepted" /\ SameView
    BY <1>2 DEF OutcomeAt, Accepted, SameView, ViewAt
  <1>7. SameAsked /\ \A q \in Requests \ {r} : OutcomeAt(q)' = OutcomeAt(q)
    BY OthersSame DEF Inv, RequestSteps, CreateSteps
  <1>8. \A other \in TxIds \ {id} : LedgerAt(other)' = LedgerAt(other)
    BY <1>2 DEF LedgerAt
  <1> QED BY <1>1, <1>2, <1>5, <1>6, <1>7, <1>8, CreateShown, ToAccept

\* Reads, replays and snapshots answer nothing a ledger is asked.
LEMMA Unanswered ==
    ASSUME Inv, NEW r \in Requests,
           \/ ReplayNothing(r) \/ ReadReplay(r) \/ SnapshotSteps(r)
           \/ AdvanceReplay(r) /\ pc[r] \in {"rebuild", "rebuild save"}
           \/ ReplayCheck(r)
    PROVE  OutcomeAt(r)' = OutcomeAt(r)
  <1>1. pc[r] \notin {"done", "publish", "settle"}
    BY DEF ReplayNothing, ReadReplay, SnapshotSteps, SnapshotNothing, ReadForSnapshot,
           StoreSnapshot, ReplayCheck
  <1>2. reply[r].code = "none"
    BY <1>1 DEF Inv, RequestsInv, RequestInv
  <1>3. ASSUME NEW label, Goto(r, label) PROVE pc'[r] = label
    BY <1>3 DEF Goto, Inv, TypeOK
  <1>4. ASSUME NEW code, Answer(r, [code |-> code])
        PROVE  reply'[r].code = code /\ pc'[r] = "done"
    BY <1>3, <1>4 DEF Answer, Inv, TypeOK
  <1>5. /\ reply'[r].code \in {"none", "replayed", "no events", "snapshot saved"}
        /\ pc'[r] \notin {"publish", "settle"}
    <2>1. CASE AdvanceReplay(r)
      BY <1>2, <1>3, <1>4, <2>1 DEF AdvanceReplay
    <2>2. CASE ReplayNothing(r)
      BY <1>4, <2>2 DEF ReplayNothing
    <2>3. CASE ReadReplay(r)
      BY <1>2, <1>3, <2>3 DEF ReadReplay
    <2>4. CASE ReplayCheck(r)
      BY <1>2, <1>3, <2>1, <2>4 DEF ReplayCheck
    <2>5. CASE SnapshotSteps(r)
      <3>1. CASE SnapshotNothing(r) \/ StoreSnapshot(r)
        BY <1>4, <3>1 DEF SnapshotNothing, StoreSnapshot
      <3>2. CASE ReadForSnapshot(r)
        BY <1>2, <1>3, <3>2 DEF ReadForSnapshot
      <3> QED BY <2>5, <3>1, <3>2 DEF SnapshotSteps
    <2> QED BY <2>1, <2>2, <2>3, <2>4, <2>5
  <1> QED BY <1>1, <1>2, <1>5 DEF OutcomeAt, Accepted

\* Building, publishing and answering, reads and snapshots: the ledger rests.
LEMMA QuietMaps ==
    ASSUME Inv, NEW r \in Requests,
           \/ BuildEvents(r) \/ Publish(r) \/ AnswerCreate(r)
           \/ ReplayNothing(r) \/ ReadReplay(r) \/ ReplayCheck(r) \/ SnapshotSteps(r)
    PROVE  UNCHANGED Ledger!ledgerVars
  <1>1. UNCHANGED <<streams, models, writer>>
    BY DEF BuildEvents, Publish, AnswerCreate, ReplayNothing, ReadReplay, ReplayCheck,
           SnapshotSteps, SnapshotNothing, ReadForSnapshot, StoreSnapshot
  <1>2. SameLedger /\ SameView
    BY <1>1 DEF SameLedger, SameView, LedgerAt, ViewAt
  <1>3. SameAsked /\ \A q \in Requests \ {r} : OutcomeAt(q)' = OutcomeAt(q)
    BY OthersSame DEF Inv, RequestSteps, CreateSteps, ReplaySteps
  <1>4. OutcomeAt(r)' = OutcomeAt(r)
    <2>1. pc[r] # "done" => reply[r].code = "none"
      BY DEF Inv, RequestsInv, RequestInv
    <2>2. CASE BuildEvents(r)
      BY <2>1, <2>2 DEF BuildEvents, Goto, OutcomeAt, Accepted, Inv, TypeOK
    <2>3. CASE Publish(r)
      BY <2>1, <2>3 DEF Publish, Goto, OutcomeAt, Accepted, Inv, TypeOK
    <2>4. CASE AnswerCreate(r)
      <3>1. pc[r] = "settle" /\ reply'[r].code = "created"
        BY <2>4 DEF AnswerCreate, Answer, Inv, TypeOK
      <3> QED BY <3>1 DEF OutcomeAt, Accepted
    <2>5. CASE ReplayNothing(r) \/ ReadReplay(r) \/ ReplayCheck(r) \/ SnapshotSteps(r)
      BY <2>5, Unanswered
    <2> QED BY <2>2, <2>3, <2>4, <2>5
  <1>5. SameOutcomes
    BY <1>3, <1>4 DEF SameOutcomes
  <1> QED BY <1>2, <1>3, <1>5, ToStutter

\* Saving an event of a stream projects its entry of the ledger.
LEMMA StoreMaps ==
    ASSUME Inv, UNCHANGED streams, SameAsked, SameOutcomes,
           NEW id \in TxIds, NEW amount \in Amounts, Holds(id, amount),
           NEW who \in {"live", "replay"}, NEW e, NEW status,
           \/ e = First(id, amount) /\ status = "PENDING"
           \/ e = Second(id, amount) /\ status = e.status,
           Store(e, status, who)
    PROVE  Ledger!Next
  <1>1. e.id = id /\ status \in {"PENDING", RiskStatus(amount)}
    BY DEF First, Second
  <1>2. LedgerAt(id) = amount /\ amount # NoCommand
    BY HeldStream, BothFacts, AmountsAssumption, SentinelAssumption DEF LedgerAt, Holds
  <1>3. SameLedger
    BY DEF SameLedger, LedgerAt
  <1>4. /\ models'[id].status = status /\ writer'[id] = who
        /\ \A other \in TxIds \ {id} :
             models'[other] = models[other] /\ writer'[other] = writer[other]
    BY <1>1 DEF Store, Inv, TypeOK
  <1>5. ViewAt(id)' = status /\ \A other \in TxIds \ {id} : ViewAt(other)' = ViewAt(other)
    BY <1>4 DEF ViewAt
  <1> QED BY <1>1, <1>2, <1>3, <1>5, ToProject

LEMMA ReplayMaps ==
    ASSUME Inv, NEW r \in Requests, ReplayCreated(r) \/ ReplayProcessed(r)
    PROVE  Ledger!Next
  <1>1. PICK id \in TxIds, amount \in Amounts :
            /\ Holds(id, amount)
            /\ \/ Head(work[r]) = First(id, amount) /\ pc[r] = "rebuild"
               \/ Head(work[r]) = Second(id, amount)
    BY RebuildFacts DEF ReplayCreated, ReplayProcessed
  <1>2. /\ pc[r] \in {"rebuild", "rebuild save"} /\ AdvanceReplay(r) /\ UNCHANGED streams
    BY DEF ReplayCreated, ReplayProcessed
  <1>3. SameAsked /\ \A q \in Requests \ {r} : OutcomeAt(q)' = OutcomeAt(q)
    BY OthersSame DEF Inv, RequestSteps, ReplaySteps
  <1>4. OutcomeAt(r)' = OutcomeAt(r)
    BY <1>2, Unanswered
  <1>5. SameOutcomes
    BY <1>3, <1>4 DEF SameOutcomes
  <1>6. CASE ReplayCreated(r)
    <2>1. Head(work[r]) = First(id, amount)
      BY <1>1, <1>6 DEF ReplayCreated, SaveCreated, Second
    <2>2. Store(Head(work[r]), "PENDING", "replay")
      BY <1>6 DEF ReplayCreated, SaveCreated
    <2> QED BY <1>1, <1>2, <1>3, <1>5, <2>1, <2>2, StoreMaps
  <1>7. CASE ReplayProcessed(r)
    <2>1. Head(work[r]) = Second(id, amount)
      BY <1>1, <1>7 DEF ReplayProcessed
    <2>2. Store(Head(work[r]), Head(work[r]).status, "replay")
      BY <1>7 DEF ReplayProcessed, SaveProcessed
    <2> QED BY <1>1, <1>2, <1>3, <1>5, <2>1, <2>2, StoreMaps
  <1> QED BY <1>6, <1>7

LEMMA DeliveryMaps ==
    ASSUME Inv, NEW d \in deliveries, DeliverySteps(d)
    PROVE  [Ledger!Next]_Ledger!ledgerVars
  <1>1. PICK amount \in Amounts :
            /\ Holds(d.event.id, amount)
            /\ \/ d.at = "handle" /\ d.event = First(d.event.id, amount)
               \/ d.event = Second(d.event.id, amount)
    BY DEF Inv, DeliveriesInv, DeliveryInv
  <1>2. d.event.id \in TxIds
    BY DEF Inv, TypeOK, Event
  <1>3. UNCHANGED <<streams, pc, command, reply>>
    BY DEF DeliverySteps, DeliverCreated, CheckVersion, DeliverProcessed
  <1>4. SameLedger /\ SameAsked /\ SameOutcomes
    BY <1>3 DEF SameLedger, LedgerAt, SameAsked, AskedAt, IsCreate, SameOutcomes,
                OutcomeAt, Accepted
  <1>5. CASE DeliverCreated(d)
    <2>1. d.event = First(d.event.id, amount)
      BY <1>1, <1>5 DEF DeliverCreated, SaveCreated, Second
    <2>2. Store(d.event, "PENDING", "live")
      BY <1>5 DEF DeliverCreated, SaveCreated
    <2> QED BY <1>1, <1>2, <1>3, <1>4, <2>1, <2>2, StoreMaps
  <1>6. CASE DeliverProcessed(d)
    <2>1. d.event = Second(d.event.id, amount)
      BY <1>1, <1>6 DEF DeliverProcessed
    <2>2. Store(d.event, d.event.status, "live")
      BY <1>6 DEF DeliverProcessed, SaveProcessed
    <2> QED BY <1>1, <1>2, <1>3, <1>4, <2>1, <2>2, StoreMaps
  <1>7. CASE CheckVersion(d)
    <2>1. SameView
      BY <1>7 DEF CheckVersion, SameView, ViewAt
    <2> QED BY <1>4, <2>1, ToStutter
  <1> QED BY <1>5, <1>6, <1>7 DEF DeliverySteps

LEMMA LedgerInit == ASSUME Init PROVE Ledger!Init
  <1>1. /\ \A id \in TxIds : streams[id] = <<>> /\ writer[id] = "nobody"
        /\ \A r \in Requests : ~IsCreate(r) /\ OutcomeAt(r) = "none"
    BY DEF Init, StoreInit, IsCreate, OutcomeAt, Accepted
  <1> QED BY <1>1 DEF OutcomeAt, Ledger!Init

LEMMA LedgerNext ==
    ASSUME Inv, Inv', Decoded, [Next]_vars
    PROVE  [Ledger!Next]_Ledger!ledgerVars
  <1>1. CASE UNCHANGED vars
    <2>1. SameLedger /\ SameView /\ SameAsked /\ SameOutcomes
      BY <1>1 DEF vars, SameLedger, SameView, SameAsked, SameOutcomes, LedgerAt, ViewAt,
              AskedAt, IsCreate, OutcomeAt, Accepted
    <2> QED BY <2>1, ToStutter
  <1>2. ASSUME NEW r \in Requests, RequestSteps(r)
        PROVE  [Ledger!Next]_Ledger!ledgerVars
    BY <1>2, RefuseMaps, AppendMaps, QuietMaps, ReplayMaps
       DEF RequestSteps, CreateSteps, ReplaySteps
  <1> QED BY <1>1, <1>2, ReceiveMaps, DeliveryMaps DEF Next

\* The service, whatever interleaving its goroutines take, is the ledger: an
\* accepted create took a free identifier at the moment its events were
\* appended (ExecuteCreateTransaction and AppendEvents), every refusal has a
\* reason that holds, and the query store shows entries of the ledger only.
THEOREM ServiceIsLedger == Spec => ImplementsLedger
  <1>1. Init => Inv /\ Decoded
    BY InitInv, SentinelAssumption DEF Init, Decoded
  <1>2. Inv /\ Decoded /\ [Next]_vars => Inv' /\ Decoded'
    BY NextInv, DecodedNext DEF Inv
  <1>3. Init => Ledger!Init
    BY LedgerInit
  <1>4. Inv /\ Inv' /\ Decoded /\ [Next]_vars => [Ledger!Next]_Ledger!ledgerVars
    BY LedgerNext
  <1> QED BY <1>1, <1>2, <1>3, <1>4, PTL DEF Spec, ImplementsLedger, Ledger!Spec

-----------------------------------------------------------------------------
(* What clients are shown *)

\* The request replays the stream of id and has not come to its end.
Rebuilding(r, id) == pc[r] \in {"rebuild", "rebuild save"} /\ command[r].id = id

\* A projection a replay saved last is final, or the replay goes on.
Repaired(id) ==
    writer[id] = "replay" =>
        \/ \E r \in Requests : Rebuilding(r, id)
        \/ \E amount \in Amounts : Holds(id, amount) /\ models[id] = Settled(amount)

ShownInv == CreateAnswersOwnState /\ \A id \in TxIds : Repaired(id)

LEMMA StreamsGrow ==
    ASSUME Inv, [Next]_vars
    PROVE  Grown
  <1>1. ASSUME NEW r \in Requests, AppendWins(r) PROVE Grown
    <2>1. Len(streams[command[r].id]) = 0
      BY <1>1 DEF AppendWins, VersionMatches, AnyVersion
    <2>2. \A id \in TxIds : id # command[r].id => streams'[id] = streams[id]
      BY <1>1 DEF AppendWins, AppendEvents, Inv, TypeOK
    <2>3. \A id \in TxIds : id = command[r].id => streams[id] = <<>>
      BY <2>1 DEF Inv, TypeOK
    <2> QED BY <2>2, <2>3 DEF Grown
  <1>2. ASSUME UNCHANGED streams PROVE Grown
    BY <1>2 DEF Grown
  <1>3. ASSUME NEW r \in Requests, CreateSteps(r) PROVE Grown
    BY <1>1, <1>2, <1>3 DEF CreateSteps, RefuseInvalid, RefuseExisting, BuildEvents,
       AppendConflicts, Publish, AnswerCreate
  <1>4. ASSUME NEW r \in Requests, Receive(r) \/ ReplaySteps(r) \/ SnapshotSteps(r)
        PROVE  UNCHANGED streams
    BY <1>4 DEF Receive, ReplaySteps, ReplayNothing, ReadReplay, ReplayCreated, ReplayCheck,
       ReplayProcessed, SnapshotSteps, SnapshotNothing, ReadForSnapshot, StoreSnapshot
  <1>5. ASSUME NEW d \in deliveries, DeliverySteps(d) PROVE UNCHANGED streams
    BY <1>5 DEF DeliverySteps, DeliverCreated, CheckVersion, DeliverProcessed
  <1>6. UNCHANGED vars => UNCHANGED streams
    BY DEF vars
  <1> QED BY <1>2, <1>3, <1>4, <1>5, <1>6 DEF Next, RequestSteps

\* What is final stays final, and who rebuilds goes on, unless a step is theirs.
LEMMA RepairedStable ==
    ASSUME Grown, NEW id \in TxIds, Repaired(id),
           writer'[id] = writer[id], models'[id] = models[id],
           \A r \in Requests : Rebuilding(r, id) => Rebuilding(r, id)'
    PROVE  Repaired(id)'
  <1>1. ASSUME NEW amount \in Amounts, Holds(id, amount), models[id] = Settled(amount)
        PROVE  Holds(id, amount)' /\ (models[id] = Settled(amount))'
    BY <1>1, HoldsStable DEF Settled, RiskStatus
  <1> QED BY <1>1 DEF Repaired

\* A create answers what is shown of its own transaction, or the seed.
LEMMA AnswersNext ==
    ASSUME Inv, CreateAnswersOwnState, Decoded, [Next]_vars
    PROVE  CreateAnswersOwnState'
  <1> SUFFICES ASSUME NEW r \in Requests, reply'[r].code = "created"
               PROVE  \/ /\ reply'[r].amount = command'[r].amount
                         /\ reply'[r].status \in {"PENDING", RiskStatus(command'[r].amount)}
                      \/ /\ command'[r].id \in SeededIds
                         /\ reply'[r].amount = Seed.amount
                         /\ reply'[r].status = Seed.status
    BY DEF CreateAnswersOwnState, Seed, RiskStatus
  <1>1. CASE reply[r].code = "created"
    <2>1. pc[r] = "done" /\ command[r] # NoCommand
      BY <1>1 DEF Inv, RequestsInv, RequestInv, Decoded
    <2>2. reply'[r] = reply[r] /\ command'[r] = command[r]
      <3>1. UNCHANGED vars => reply'[r] = reply[r] /\ command'[r] = command[r]
        BY DEF vars
      <3>2. ASSUME NEW q \in Requests, Receive(q)
            PROVE  reply'[r] = reply[r] /\ command'[r] = command[r]
        BY <2>1, <3>2 DEF Receive, Inv, TypeOK
      <3>3. ASSUME NEW q \in Requests, RequestSteps(q)
            PROVE  reply'[r] = reply[r] /\ command'[r] = command[r]
        <4>1. pc[q] # "done"
          BY <3>3 DEF RequestSteps, CreateSteps, ReplaySteps, SnapshotSteps, RefuseInvalid,
             RefuseExisting, BuildEvents, AppendWins, AppendConflicts, Publish, AnswerCreate,
             ReplayNothing, ReadReplay, ReplayCreated, ReplayCheck, ReplayProcessed,
             SnapshotNothing, ReadForSnapshot, StoreSnapshot
        <4> QED BY <2>1, <3>3, <4>1, RequestFrame DEF Inv
      <3>4. ASSUME NEW d \in deliveries, DeliverySteps(d)
            PROVE  reply'[r] = reply[r] /\ command'[r] = command[r]
        BY <3>4 DEF DeliverySteps, DeliverCreated, CheckVersion, DeliverProcessed
      <3> QED BY <3>1, <3>2, <3>3, <3>4 DEF Next
    <2> QED BY <1>1, <2>2 DEF CreateAnswersOwnState
  <1>2. CASE reply[r].code # "created"
    <2>1. AnswerCreate(r)
      <3>1. UNCHANGED vars => reply'[r] = reply[r]
        BY DEF vars
      <3>2. ASSUME NEW q \in Requests, Receive(q) PROVE reply'[r] = reply[r]
        BY <3>2 DEF Receive
      <3>3. ASSUME NEW d \in deliveries, DeliverySteps(d) PROVE reply'[r] = reply[r]
        BY <3>3 DEF DeliverySteps, DeliverCreated, CheckVersion, DeliverProcessed
      <3>4. ASSUME NEW q \in Requests, q # r, RequestSteps(q) PROVE reply'[r] = reply[r]
        BY <3>4, RequestFrame DEF Inv
      <3>5. ASSUME NEW code, Answer(r, [code |-> code]) PROVE reply'[r].code = code
        BY <3>5 DEF Answer, Inv, TypeOK
      <3>6. ASSUME RequestSteps(r) PROVE AnswerCreate(r) \/ reply'[r].code # "created"
        <4>1. CASE CreateSteps(r)
          BY <1>2, <3>5, <4>1 DEF CreateSteps, RefuseInvalid, RefuseExisting, BuildEvents,
             AppendWins, AppendConflicts, Publish
        <4>2. CASE ReplaySteps(r) \/ SnapshotSteps(r)
          BY <1>2, <3>5, <4>2 DEF ReplaySteps, ReplayNothing, ReadReplay, ReplayCreated,
             ReplayCheck, ReplayProcessed, AdvanceReplay, SnapshotSteps, SnapshotNothing,
             ReadForSnapshot, StoreSnapshot
        <4> QED BY <3>6, <4>1, <4>2 DEF RequestSteps
      <3> QED BY <1>2, <3>1, <3>2, <3>3, <3>4, <3>6 DEF Next
    <2>2. PICK id \in TxIds, amount \in Amounts :
            /\ command[r].id = id /\ command[r].amount = amount
            /\ Holds(id, amount) /\ amount \in Int
      BY <2>1, AmountsAssumption
      DEF AnswerCreate, Inv, RequestsInv, RequestInv, Accepted, Holds
    <2>3. command' = command /\ \A answer : Answer(r, answer) => reply'[r] = answer
      BY <2>1 DEF AnswerCreate, Answer, Inv, TypeOK
    <2>4. CASE models[id] = NoModel
      BY <2>1, <2>2, <2>3, <2>4 DEF AnswerCreate
    <2>5. CASE models[id] # NoModel
      <3>1. reply'[r].amount = models[id].amount /\ reply'[r].status = models[id].status
        BY <2>1, <2>2, <2>3, <2>5 DEF AnswerCreate
      <3>2. CASE id \in SeededIds /\ models[id] = Seed
        BY <2>2, <2>3, <3>1, <3>2
      <3>3. ASSUME NEW other \in Amounts, Holds(id, other),
                   models[id] \in {Pending(other), Settled(other)}
            PROVE  /\ models[id].amount = amount
                   /\ models[id].status \in {"PENDING", RiskStatus(amount)}
        <4>1. other = amount
          BY <2>2, <3>3, HeldStream
        <4> QED BY <3>3, <4>1 DEF Pending, Settled
      <3>4. \/ id \in SeededIds /\ models[id] = Seed
            \/ \E other \in Amounts :
                 Holds(id, other) /\ models[id] \in {Pending(other), Settled(other)}
        BY <2>5 DEF Inv, ModelsInv, ModelInv
      <3> QED BY <2>2, <2>3, <3>1, <3>2, <3>3, <3>4
    <2> QED BY <2>4, <2>5
  <1> QED BY <1>1, <1>2

\* A step of r on id leaves the projections and the rebuilders of others alone.
LEMMA RepairedElsewhere ==
    ASSUME Inv, Grown, NEW r \in Requests, RequestSteps(r), NEW id \in TxIds,
           Repaired(id), writer'[id] = writer[id], models'[id] = models[id],
           Rebuilding(r, id) => Rebuilding(r, id)'
    PROVE  Repaired(id)'
  <1>1. \A q \in Requests : Rebuilding(q, id) => Rebuilding(q, id)'
    BY RequestFrame DEF Inv, Rebuilding
  <1> QED BY <1>1, RepairedStable

\* Saving changes one projection.
LEMMA StoreFrame ==
    ASSUME TypeOK, NEW e, NEW status, NEW who, Store(e, status, who), NEW id \in TxIds
    PROVE  /\ id # e.id => models'[id] = models[id] /\ writer'[id] = writer[id]
           /\ id = e.id => /\ writer'[id] = who
                           /\ models'[id] = [amount |-> e.amount, status |-> status,
                                             version |-> e.version]
  BY DEF Store, TypeOK

LEMMA ReplayRepairsNext ==
    ASSUME Inv, Grown, NEW r \in Requests, NEW id \in TxIds, Repaired(id),
           ReplayCreated(r) \/ ReplayCheck(r) \/ ReplayProcessed(r)
    PROVE  Repaired(id)'
  <1>1. PICK own \in TxIds, amount \in Amounts :
            /\ own = command[r].id
            /\ Holds(own, amount)
            /\ \/ /\ pc[r] = "rebuild"
                  /\ Head(work[r]) = First(own, amount)
                  /\ Len(work[r]) > 1 /\ ~(Len(work[r]) = 1)
               \/ Head(work[r]) = Second(own, amount)
    BY RebuildFacts DEF ReplayCreated, ReplayCheck, ReplayProcessed
  <1>2. RequestSteps(r) /\ command' = command
    BY RequestFrame DEF Inv, RequestSteps, ReplaySteps
  <1>3. CASE ReplayCreated(r)
    <2>1. Head(work[r]) = First(own, amount) /\ Len(work[r]) > 1 /\ ~(Len(work[r]) = 1)
      BY <1>1, <1>3 DEF ReplayCreated, SaveCreated, Second
    <2>2. Goto(r, "rebuild")
      BY <1>3, <2>1 DEF ReplayCreated, AdvanceReplay
    <2>3. Rebuilding(r, own)'
      BY <1>1, <1>2, <2>2 DEF Goto, Rebuilding, Inv, TypeOK
    <2>4. CASE id = own
      BY <2>3, <2>4 DEF Repaired
    <2>5. CASE id # own
      <3>1. First(own, amount).id = own /\ Store(First(own, amount), "PENDING", "replay")
        BY <1>3, <2>1 DEF First, ReplayCreated, SaveCreated
      <3>2. TypeOK /\ id # First(own, amount).id
        BY <2>5, <3>1 DEF Inv
      <3>3. models'[id] = models[id] /\ writer'[id] = writer[id]
        BY <3>1, <3>2 DEF Store, TypeOK
      <3> QED BY <1>1, <1>2, <2>5, <3>3, RepairedElsewhere DEF Rebuilding
    <2> QED BY <2>4, <2>5
  <1>4. CASE ReplayCheck(r)
    <2>1. ~Obsolete(Head(work[r]))
      BY <1>4, NothingIsObsolete DEF ReplayCheck, VersionCheckNeverFires
    <2>2. Goto(r, "rebuild save") /\ UNCHANGED <<models, writer>>
      BY <1>4, <2>1 DEF ReplayCheck
    <2>3. Rebuilding(r, id) => Rebuilding(r, id)'
      BY <1>2, <2>2 DEF Goto, Rebuilding, Inv, TypeOK
    <2> QED BY <1>2, <2>2, <2>3, RepairedElsewhere
  <1>5. CASE ReplayProcessed(r)
    <2>1. Head(work[r]) = Second(own, amount)
      BY <1>1, <1>5 DEF ReplayProcessed
    <2>2. Store(Second(own, amount), Second(own, amount).status, "replay")
      BY <1>5, <2>1 DEF ReplayProcessed, SaveProcessed
    <2>3. /\ Second(own, amount).id = own
          /\ [amount |-> Second(own, amount).amount, status |-> Second(own, amount).status,
              version |-> Second(own, amount).version] = Settled(amount)
      BY DEF Second, Settled
    <2>4. CASE id = own
      <3>1. models'[id] = Settled(amount)
        BY <2>2, <2>3, <2>4, StoreFrame DEF Inv
      <3>2. Holds(id, amount)'
        BY <1>1, <2>4, HoldsStable
      <3> QED BY <3>1, <3>2 DEF Repaired, Settled, RiskStatus
    <2>5. CASE id # own
      <3>1. models'[id] = models[id] /\ writer'[id] = writer[id]
        BY <2>2, <2>3, <2>5, StoreFrame DEF Inv
      <3> QED BY <1>1, <1>2, <2>5, <3>1, RepairedElsewhere DEF Rebuilding
    <2> QED BY <2>4, <2>5
  <1> QED BY <1>3, <1>4, <1>5

LEMMA RepairsNext ==
    ASSUME Inv, [Next]_vars, NEW id \in TxIds, Repaired(id)
    PROVE  Repaired(id)'
  <1>1. Grown
    BY StreamsGrow
  <1>2. CASE UNCHANGED vars
    BY <1>1, <1>2, RepairedStable DEF vars, Rebuilding
  <1>3. ASSUME NEW r \in Requests, Receive(r) PROVE Repaired(id)'
    <2>1. pc[r] = "idle" /\ UNCHANGED <<models, writer>>
      BY <1>3 DEF Receive
    <2>2. \A q \in Requests \ {r} : pc'[q] = pc[q] /\ command'[q] = command[q]
      BY <1>3 DEF Receive, Goto, Inv, TypeOK
    <2>3. \A q \in Requests : Rebuilding(q, id) => Rebuilding(q, id)'
      BY <2>1, <2>2 DEF Rebuilding
    <2> QED BY <1>1, <2>1, <2>3, RepairedStable
  <1>4. ASSUME NEW r \in Requests,
               CreateSteps(r) \/ SnapshotSteps(r) \/ ReplayNothing(r) \/ ReadReplay(r)
        PROVE  Repaired(id)'
    <2>1. ~Rebuilding(r, id) /\ UNCHANGED <<models, writer>>
      BY <1>4 DEF CreateSteps, SnapshotSteps, RefuseInvalid, RefuseExisting, BuildEvents,
         AppendWins, AppendConflicts, Publish, AnswerCreate, SnapshotNothing,
         ReadForSnapshot, StoreSnapshot, ReplayNothing, ReadReplay, Rebuilding
    <2>2. RequestSteps(r)
      BY <1>4 DEF RequestSteps, ReplaySteps
    <2> QED BY <1>1, <2>1, <2>2, RepairedElsewhere
  <1>5. ASSUME NEW d \in deliveries, DeliverySteps(d) PROVE Repaired(id)'
    <2>1. \A q \in Requests : Rebuilding(q, id) => Rebuilding(q, id)'
      BY <1>5 DEF DeliverySteps, DeliverCreated, CheckVersion, DeliverProcessed, Rebuilding
    <2>2. \/ UNCHANGED <<models, writer>>
          \/ Store(d.event, "PENDING", "live")
          \/ Store(d.event, d.event.status, "live")
      BY <1>5 DEF DeliverySteps, DeliverCreated, CheckVersion, DeliverProcessed,
         SaveCreated, SaveProcessed
    <2>3. \/ models'[id] = models[id] /\ writer'[id] = writer[id]
          \/ writer'[id] = "live"
      <3>1. ASSUME NEW e, NEW status, Store(e, status, "live")
            PROVE  \/ models'[id] = models[id] /\ writer'[id] = writer[id]
                   \/ writer'[id] = "live"
        <4>1. TypeOK
          BY DEF Inv
        <4>2. CASE id = e.id
          <5>1. writer' = [writer EXCEPT ![e.id] = "live"]
            BY <3>1 DEF Store
          <5>2. writer'[id] = "live"
            BY <4>1, <4>2, <5>1 DEF TypeOK
          <5> QED BY <5>2
        <4>3. CASE id # e.id
          BY <3>1, <4>1, <4>3 DEF Store, TypeOK
        <4> QED BY <4>2, <4>3
      <3>2. CASE UNCHANGED <<models, writer>>
        BY <3>2
      <3>3. CASE Store(d.event, "PENDING", "live")
        BY <3>1, <3>3
      <3>4. CASE Store(d.event, d.event.status, "live")
        BY <3>1, <3>4
      <3> QED BY <2>2, <3>2, <3>3, <3>4
    <2>4. CASE writer'[id] = "live"
      BY <2>4 DEF Repaired
    <2> QED BY <1>1, <2>1, <2>3, <2>4, RepairedStable
  <1> QED BY <1>1, <1>2, <1>3, <1>4, <1>5, ReplayRepairsNext
          DEF Next, RequestSteps, ReplaySteps

\* A client is answered with the state of its own transaction, and a replay,
\* from whatever version it reads the stream, leaves the final state once
\* nothing is in flight (ProcessTransaction and ExecuteReplay), for any number
\* of requests.
THEOREM ShownStaysOwnAndFinal == Spec => []ShownIsOwnAndFinal
  <1>1. Init => Inv /\ Decoded /\ ShownInv
    BY InitInv, SentinelAssumption
    DEF Init, Decoded, ShownInv, CreateAnswersOwnState, Repaired
  <1>2. Inv /\ Decoded /\ ShownInv /\ [Next]_vars => Inv' /\ Decoded' /\ ShownInv'
    BY NextInv, DecodedNext, AnswersNext, RepairsNext DEF Inv, ShownInv
  <1>3. Inv /\ Decoded /\ ShownInv => ShownIsOwnAndFinal
    <2> SUFFICES ASSUME Inv, Decoded, ShownInv, NEW id \in TxIds, Quiescent(id),
                        writer[id] = "replay"
                 PROVE  /\ models[id].version = Len(streams[id])
                        /\ models[id].status = streams[id][2].status
      BY DEF ShownInv, ShownIsOwnAndFinal, ReplayRepairs
    <2>1. ASSUME NEW r \in Requests, Rebuilding(r, id) PROVE FALSE
      BY <2>1 DEF Rebuilding, Quiescent, Decoded, Inv, TypeOK
    <2>2. PICK amount \in Amounts : Holds(id, amount) /\ models[id] = Settled(amount)
      BY <2>1 DEF ShownInv, Repaired
    <2> QED BY <2>2, HeldStream DEF Settled
  <1> QED BY <1>1, <1>2, <1>3, PTL DEF Spec

-----------------------------------------------------------------------------
(* The broker *)

\* Where the retry loop stands says what it holds.
LoopShape ==
    /\ loop.at = "sleep" => loop.ready = {}
    /\ loop.at \in {"sleep", "next"} => loop.current = {}
    /\ loop.at \in {"attempt", "route"} => \E r \in Broker!RetryEntry : loop.current = {r}
    /\ loop.at = "attempt" => loop.left # <<>>

\* At most one retry of an event is scheduled at a time.
OnePerEvent == \A r, s \in retryQueue : r.event = s.event => r = s

Reached(e, n) == failures[e] >= n \/ failures[e] >= FailureCap

\* What a dead letter and a scheduled retry stand for was counted.
Earned ==
    \A e \in Events :
        /\ Reached(e, (MaxRetries + 1) * deadLetter[e])
        /\ \A r \in Broker!Scheduled(e) : Reached(e, (MaxRetries + 1) * deadLetter[e] + r.count)

BrokerInv == Broker!TypeOK /\ LoopShape /\ Broker!NoFailureForgotten /\ OnePerEvent /\ Earned

LEMMA BrokerInit == Broker!Init => BrokerInv
  BY BrokerAssumption
     DEF Broker!Init, BrokerInv, Broker!TypeOK, LoopShape, Broker!NoFailureForgotten,
     OnePerEvent,
     Earned, Reached, Broker!Scheduled, Broker!Idle, Broker!ClusterAssumption

LEMMA DelayType == \A count \in 1..MaxRetries : Broker!Delay(count) \in 0..Broker!MaxDelay
  <1> SUFFICES ASSUME NEW count \in 1..MaxRetries
      PROVE Broker!Delay(count) \in 0..Broker!MaxDelay
    OBVIOUS
  <1>1. PICK p, q \in Nat : p = 2 ^ (count - 1) /\ q = 2 ^ MaxRetries /\ 0 <= p /\ p <= q
    BY BrokerAssumption DEF Broker!ClusterAssumption
  <1>2. BackoffBase * p \in Nat /\ BackoffBase * q \in Nat /\ BackoffBase * p <= BackoffBase * q
    BY <1>1, BrokerAssumption DEF Broker!ClusterAssumption
  <1> QED BY <1>1, <1>2 DEF Broker!Delay, Broker!MaxDelay

\* What routing a failed delivery does to the queue, to the dead letters and to the count.
LEMMA Routed ==
    ASSUME BrokerInv, NEW e \in Events, NEW t \in Topics, Broker!RouteToRetry(e, t)
    PROVE  /\ retryQueue' \subseteq Broker!RetryEntry
           /\ deadLetter' \in [Events -> Nat]
           /\ failures' \in [Events -> 0..FailureCap]
           /\ OnePerEvent' /\ Earned'
           /\ \A x \in Events \ {e} : /\ Broker!Scheduled(x)' = Broker!Scheduled(x)
                                      /\ deadLetter'[x] = deadLetter[x]
                                      /\ failures'[x] = failures[x]
           /\ Broker!Scheduled(e)' # {} \/ deadLetter'[e] > 0
  <1>1. Broker!TypeOK /\ OnePerEvent /\ Earned /\ MaxRetries \in Nat /\ FailureCap \in Nat
    BY BrokerAssumption DEF BrokerInv, Broker!ClusterAssumption
  <1>2. failures' = [failures EXCEPT ![e] = IF @ < FailureCap THEN @ + 1 ELSE @]
    BY DEF Broker!RouteToRetry, Broker!Failed
  <1>3. /\ failures' \in [Events -> 0..FailureCap]
        /\ \A x \in Events \ {e} : failures'[x] = failures[x]
    BY <1>1, <1>2 DEF Broker!TypeOK
  <1>4. \A n \in Int : Reached(e, n) => Reached(e, n + 1)'
    BY <1>1, <1>2 DEF Broker!TypeOK, Reached
  <1>5. \A n \in Int : Reached(e, n) => Reached(e, n)'
    BY <1>1, <1>2 DEF Broker!TypeOK, Reached
  <1>6. \A x \in Events \ {e}, n \in Int : Reached(x, n) => Reached(x, n)'
    BY <1>3 DEF Reached
  <1>7. PICK count \in IF Broker!Scheduled(e) = {}
                       THEN {1} ELSE {r.count + 1 : r \in Broker!Scheduled(e)} :
           \/ Broker!Exhausted(count) /\ Broker!Offload(e)
           \/ ~Broker!Exhausted(count) /\ Broker!Reschedule(e, t, count) /\ UNCHANGED deadLetter
    BY DEF Broker!RouteToRetry
  <1>8. deadLetter[e] \in Nat /\ (MaxRetries + 1) * deadLetter[e] \in Int
    BY <1>1 DEF Broker!TypeOK
  <1>9. PICK owed \in Int : owed = (MaxRetries + 1) * deadLetter[e]
    BY <1>8
  <1>10. count \in 1..(MaxRetries + 1) /\ Reached(e, owed + count)'
    <2>1. CASE Broker!Scheduled(e) = {}
      BY <1>1, <1>4, <1>7, <1>9, <2>1 DEF Earned
    <2>2. CASE Broker!Scheduled(e) # {}
      <3>1. PICK r \in Broker!Scheduled(e) : count = r.count + 1
        BY <1>7, <2>2
      <3>2. r.count \in 1..MaxRetries
        BY <1>1, <3>1 DEF Broker!TypeOK, Broker!Scheduled, Broker!RetryEntry
      <3>3. Reached(e, (owed + r.count) + 1)'
        BY <1>1, <1>4, <1>9, <3>1, <3>2 DEF Earned
      <3> QED BY <1>1, <3>1, <3>2, <3>3 DEF Reached
    <2> QED BY <2>1, <2>2
  <1>11. CASE Broker!Exhausted(count) /\ Broker!Offload(e)
    <2>1. count = MaxRetries + 1
      BY <1>1, <1>10, <1>11 DEF Broker!Exhausted
    <2>2. /\ retryQueue' = retryQueue \ Broker!Scheduled(e)
          /\ deadLetter' = [deadLetter EXCEPT ![e] = @ + 1]
      BY <1>11 DEF Broker!Offload
    <2>3. /\ retryQueue' \subseteq Broker!RetryEntry /\ OnePerEvent'
          /\ Broker!Scheduled(e)' = {}
          /\ \A x \in Events \ {e} : Broker!Scheduled(x)' = Broker!Scheduled(x)
      BY <1>1, <2>2 DEF Broker!TypeOK, OnePerEvent, Broker!Scheduled
    <2>4. /\ deadLetter' \in [Events -> Nat] /\ deadLetter'[e] = deadLetter[e] + 1
          /\ \A x \in Events \ {e} : deadLetter'[x] = deadLetter[x]
      BY <1>1, <2>2 DEF Broker!TypeOK
    <2>5. (MaxRetries + 1) * (deadLetter[e] + 1) = owed + (MaxRetries + 1)
      BY <1>1, <1>8, <1>9
    <2>6. Reached(e, (MaxRetries + 1) * deadLetter[e])'
      BY <1>10, <2>1, <2>4, <2>5 DEF Reached
    <2>7. Earned'
      <3> SUFFICES ASSUME NEW x \in Events
                   PROVE  /\ Reached(x, (MaxRetries + 1) * deadLetter[x])'
                          /\ \A r \in Broker!Scheduled(x)' :
                                Reached(x, (MaxRetries + 1) * deadLetter[x] + r.count)'
        BY DEF Earned
      <3>1. CASE x = e
        BY <2>3, <2>6, <3>1
      <3>2. CASE x # e
        <4>1. deadLetter[x] \in Nat /\ (MaxRetries + 1) * deadLetter[x] \in Int
          BY <1>1 DEF Broker!TypeOK
        <4>2. \A r \in Broker!Scheduled(x) : (MaxRetries + 1) * deadLetter[x] + r.count \in Int
          BY <1>1, <4>1 DEF Broker!TypeOK, Broker!Scheduled, Broker!RetryEntry
        <4>3. /\ Reached(x, (MaxRetries + 1) * deadLetter[x])
              /\ \A r \in Broker!Scheduled(x) :
                        Reached(x, (MaxRetries + 1) * deadLetter[x] + r.count)
          BY <1>1 DEF Earned
        <4> QED BY <1>3, <2>3, <2>4, <3>2, <4>1, <4>2, <4>3 DEF Reached
      <3> QED BY <3>1, <3>2
    <2> QED BY <1>1, <1>3, <2>3, <2>4, <2>7 DEF Broker!TypeOK
  <1>12. CASE ~Broker!Exhausted(count) /\ Broker!Reschedule(e, t, count) /\ UNCHANGED deadLetter
    <2>1. count \in 1..MaxRetries
      BY <1>1, <1>10, <1>12 DEF Broker!Exhausted
    <2>2. PICK new : new = [event |-> e, topic |-> t, count |-> count, wait |-> Broker!Delay(count)]
      OBVIOUS
    <2>3. new \in Broker!RetryEntry /\ new.event = e /\ new.count = count
      BY <2>1, <2>2, DelayType DEF Broker!RetryEntry
    <2>4. retryQueue' = (retryQueue \ Broker!Scheduled(e)) \cup {new}
      BY <1>12, <2>2 DEF Broker!Reschedule
    <2>5. /\ retryQueue' \subseteq Broker!RetryEntry /\ OnePerEvent'
          /\ Broker!Scheduled(e)' = {new}
          /\ \A x \in Events \ {e} : Broker!Scheduled(x)' = Broker!Scheduled(x)
      BY <1>1, <2>3, <2>4 DEF Broker!TypeOK, OnePerEvent, Broker!Scheduled
    <2>6. Earned'
      <3> SUFFICES ASSUME NEW x \in Events
                   PROVE  /\ Reached(x, (MaxRetries + 1) * deadLetter[x])'
                          /\ \A r \in Broker!Scheduled(x)' :
                                Reached(x, (MaxRetries + 1) * deadLetter[x] + r.count)'
        BY DEF Earned
      <3>1. CASE x = e
        <4>1. Reached(e, owed)
          BY <1>1, <1>9 DEF Earned
        <4>2. Reached(e, owed)'
          BY <1>5, <4>1
        <4> QED BY <1>9, <1>10, <1>12, <2>3, <2>5, <3>1, <4>2
      <3>2. CASE x # e
        <4>1. deadLetter[x] \in Nat /\ (MaxRetries + 1) * deadLetter[x] \in Int
          BY <1>1 DEF Broker!TypeOK
        <4>2. \A r \in Broker!Scheduled(x) : (MaxRetries + 1) * deadLetter[x] + r.count \in Int
          BY <1>1, <4>1 DEF Broker!TypeOK, Broker!Scheduled, Broker!RetryEntry
        <4>3. /\ Reached(x, (MaxRetries + 1) * deadLetter[x])
              /\ \A r \in Broker!Scheduled(x) :
                        Reached(x, (MaxRetries + 1) * deadLetter[x] + r.count)
          BY <1>1 DEF Earned
        <4> QED BY <1>3, <1>12, <2>5, <3>2, <4>1, <4>2, <4>3 DEF Reached
      <3> QED BY <3>1, <3>2
    <2> QED BY <1>1, <1>3, <1>12, <2>5, <2>6 DEF Broker!TypeOK
  <1> QED BY <1>7, <1>11, <1>12

Handled(e) == \E h \in Handlers : <<e, h>> \in succeeded
Covered(e) == Broker!InFlight(e) \/ deadLetter[e] > 0 \/ Handled(e)

\* A scheduled retry one tick later.
Sooner(r) == [r EXCEPT !.wait = IF @ > 0 THEN @ - 1 ELSE 0]

LEMMA SoonerKeeps ==
    ASSUME NEW r \in Broker!RetryEntry
    PROVE  /\ Sooner(r) \in Broker!RetryEntry
           /\ Sooner(r).event = r.event
           /\ Sooner(r).count = r.count
  <1>1. PICK w \in 0..Broker!MaxDelay : w = (IF r.wait > 0 THEN r.wait - 1 ELSE 0)
    <2>1. r.wait \in 0..Broker!MaxDelay /\ Broker!MaxDelay \in Int
      BY BrokerAssumption DEF Broker!RetryEntry, Broker!MaxDelay, Broker!ClusterAssumption
    <2> QED BY <2>1
  <1>2. Sooner(r) = [r EXCEPT !.wait = w]
    BY <1>1 DEF Sooner
  <1> QED BY <1>2 DEF Broker!RetryEntry

\* A step that routes nothing keeps the queue's entries, the dead letters and
\* the counts.
LEMMA KeptEarned ==
    ASSUME Broker!TypeOK, OnePerEvent, Earned, UNCHANGED <<deadLetter, failures>>,
           \/ retryQueue' \subseteq retryQueue
           \/ Broker!Elapse
    PROVE  OnePerEvent' /\ Earned'
  <1>1. CASE retryQueue' \subseteq retryQueue
    BY <1>1 DEF OnePerEvent, Earned, Broker!Scheduled, Reached
  <1>2. CASE Broker!Elapse
    <2>0. retryQueue' = {Sooner(r) : r \in retryQueue} /\ retryQueue \subseteq Broker!RetryEntry
      BY <1>2 DEF Broker!Elapse, Sooner, Broker!TypeOK
    <2>1. \A r \in retryQueue' : \E s \in retryQueue :
              r = Sooner(s) /\ r.event = s.event /\ r.count = s.count
      BY <2>0, SoonerKeeps
    <2>2. OnePerEvent'
      BY <2>1 DEF OnePerEvent
    <2> QED BY <2>1, <2>2 DEF Earned, Broker!Scheduled, Reached
  <1> QED BY <1>1, <1>2

\* What was covered stays covered unless it leaves the hands of its holder.
LEMMA KeptForgotten ==
    ASSUME Broker!NoFailureForgotten, UNCHANGED failures,
           \A e \in Events : Covered(e) => Covered(e)'
    PROVE  Broker!NoFailureForgotten'
  BY DEF Broker!NoFailureForgotten, Covered, Handled

LEMMA AdminKeeps ==
    ASSUME BrokerInv, Broker!Admin \/ Broker!Publishing PROVE BrokerInv'
  <1>1. /\ UNCHANGED <<retryQueue, deadLetter, loop, succeeded, failures>>
        /\ running \subseteq running'
    BY DEF Broker!Admin, Broker!Publishing, Broker!CreateTopic, Broker!DeleteTopic,
       Broker!Subscribe, Broker!PublishRefused, Broker!PublishEvent
  <1>2. Broker!TypeOK'
    <2>1. ASSUME NEW t \in Topics, Broker!CreateTopic(t) \/ Broker!DeleteTopic(t)
          PROVE Broker!TypeOK'
      BY <2>1 DEF BrokerInv, Broker!TypeOK, Broker!CreateTopic, Broker!DeleteTopic
    <2>2. ASSUME NEW t \in Topics, NEW h \in Handlers, Broker!Subscribe(t, h)
          PROVE Broker!TypeOK'
      <3>1. Append(consumers[t], h) \in Seq(Handlers)
        BY DEF BrokerInv, Broker!TypeOK
      <3> QED BY <2>2, <3>1 DEF BrokerInv, Broker!TypeOK, Broker!Subscribe
    <2>3. ASSUME NEW e \in Events, NEW t \in Topics, Broker!PublishRefused(e, t)
          PROVE Broker!TypeOK'
      BY <2>3 DEF BrokerInv, Broker!TypeOK, Broker!PublishRefused
    <2>4. ASSUME NEW e \in Events, NEW t \in Topics, Broker!PublishEvent(e, t)
          PROVE Broker!TypeOK'
      <3>1. \A i \in DOMAIN consumers[t] : consumers[t][i] \in Handlers
        BY DEF BrokerInv, Broker!TypeOK
      <3> QED BY <2>4, <3>1 DEF BrokerInv, Broker!TypeOK, Broker!PublishEvent, Broker!Delivery
    <2> QED BY <2>1, <2>2, <2>3, <2>4 DEF Broker!Admin, Broker!Publishing
  <1>3. LoopShape' /\ OnePerEvent' /\ Earned'
    BY <1>1, KeptEarned DEF BrokerInv, LoopShape
  <1>4. \A e \in Events : Covered(e) => Covered(e)'
    BY <1>1 DEF Covered, Broker!InFlight, Broker!Scheduled, Broker!InLoop, Handled
  <1> QED BY <1>1, <1>2, <1>3, <1>4, KeptForgotten DEF BrokerInv

LEMMA GoroutinesKeep ==
    ASSUME BrokerInv, NEW d \in running, Broker!GoroutineSteps(d) PROVE BrokerInv'
  <1>1. d \in Broker!Delivery
    BY DEF BrokerInv, Broker!TypeOK
  <1>2. CASE Broker!HandleSucceeds(d)
    <2>1. Broker!TypeOK'
      BY <1>1, <1>2 DEF Broker!HandleSucceeds, BrokerInv, Broker!TypeOK, Broker!Delivery
    <2>2. LoopShape' /\ OnePerEvent' /\ Earned'
      BY <1>2, KeptEarned DEF Broker!HandleSucceeds, BrokerInv, LoopShape
    <2>3. Handled(d.event)'
      BY <1>1, <1>2 DEF Broker!HandleSucceeds, Handled, Broker!Delivery
    <2>4. \A e \in Events : Covered(e) => Covered(e)'
      BY <1>2, <2>3
         DEF Broker!HandleSucceeds, Covered, Broker!InFlight, Broker!Scheduled, Broker!InLoop,
         Handled
    <2> QED BY <1>2, <2>1, <2>2, <2>4, KeptForgotten DEF Broker!HandleSucceeds, BrokerInv
  <1>3. CASE Broker!HandleFails(d)
    <2>1. /\ [d EXCEPT !.at = "route"] \in Broker!Delivery
          /\ [d EXCEPT !.at = "route"].event = d.event
      BY <1>1 DEF Broker!Delivery
    <2>2. Broker!TypeOK'
      BY <1>3, <2>1 DEF Broker!HandleFails, BrokerInv, Broker!TypeOK
    <2>3. LoopShape' /\ OnePerEvent' /\ Earned'
      BY <1>3, KeptEarned DEF Broker!HandleFails, BrokerInv, LoopShape
    <2>4. \A e \in Events : Covered(e) => Covered(e)'
      BY <1>3, <2>1
         DEF Broker!HandleFails, Covered, Broker!InFlight, Broker!Scheduled, Broker!InLoop,
         Handled
    <2> QED BY <1>3, <2>2, <2>3, <2>4, KeptForgotten DEF Broker!HandleFails, BrokerInv
  <1>4. CASE Broker!RouteDelivery(d)
    <2>1. Broker!RouteToRetry(d.event, d.topic) /\ d.event \in Events /\ d.topic \in Topics
      BY <1>1, <1>4 DEF Broker!RouteDelivery, Broker!Delivery
    <2>2. Broker!TypeOK' /\ LoopShape' /\ OnePerEvent' /\ Earned'
      BY <1>4, <2>1, Routed DEF Broker!RouteDelivery, BrokerInv, Broker!TypeOK, LoopShape
    <2>3. \A e \in Events : e = d.event => Covered(e)'
      BY <2>1, Routed DEF Covered, Broker!InFlight
    <2>4. \A e \in Events \ {d.event} : Covered(e) => Covered(e)'
      BY <1>4, <2>1, Routed
         DEF Broker!RouteDelivery, Covered, Broker!InFlight, Broker!InLoop, Handled
    <2>5. \A e \in Events \ {d.event} : failures'[e] = failures[e]
      BY <2>1, Routed
    <2>6. Broker!NoFailureForgotten'
      BY <2>3, <2>4, <2>5 DEF Broker!NoFailureForgotten, Covered, Handled, BrokerInv
    <2> QED BY <2>2, <2>6 DEF BrokerInv
  <1> QED BY <1>2, <1>3, <1>4 DEF Broker!GoroutineSteps

LEMMA ElapseKeeps == ASSUME BrokerInv, Broker!Elapse PROVE BrokerInv'
  <1>1. retryQueue' = {Sooner(r) : r \in retryQueue} /\ retryQueue \subseteq Broker!RetryEntry
    BY DEF Broker!Elapse, Sooner, BrokerInv, Broker!TypeOK
  <1>2. Broker!TypeOK'
    <2>1. retryQueue' \subseteq Broker!RetryEntry
      BY <1>1, SoonerKeeps
    <2> QED BY <2>1 DEF BrokerInv, Broker!TypeOK, Broker!Elapse
  <1>3. LoopShape' /\ OnePerEvent' /\ Earned'
    BY KeptEarned DEF Broker!Elapse, BrokerInv, LoopShape
  <1>4. \A r \in retryQueue : \E s \in retryQueue' : s.event = r.event
    BY <1>1, SoonerKeeps
  <1>5. \A e \in Events : Broker!Scheduled(e) # {} => Broker!Scheduled(e)' # {}
    BY <1>4 DEF Broker!Scheduled
  <1>6. \A e \in Events : Covered(e) => Covered(e)'
    BY <1>5 DEF Broker!Elapse, Covered, Broker!InFlight, Broker!InLoop, Handled
  <1> QED BY <1>2, <1>3, <1>6, KeptForgotten DEF Broker!Elapse, BrokerInv

LEMMA LoopKeeps == ASSUME BrokerInv, Broker!LoopSteps PROVE BrokerInv'
  <1>0. <<>> \in Seq(Handlers)
    OBVIOUS
  <1>1. Broker!TypeOK /\ LoopShape /\ Broker!NoFailureForgotten /\ OnePerEvent /\ Earned
    BY DEF BrokerInv
  <1>2. CASE Broker!Collect
    <2>1. Broker!TypeOK' /\ LoopShape'
      BY <1>1, <1>2 DEF Broker!Collect, Broker!TypeOK, LoopShape, Broker!Due
    <2>2. OnePerEvent' /\ Earned'
      BY <1>1, <1>2, KeptEarned DEF Broker!Collect
    <2>3. loop'.ready = Broker!Due /\ loop.ready = {} /\ loop.current = {}
      BY <1>1, <1>2 DEF Broker!Collect, Broker!TypeOK, LoopShape
    <2>4. \A e \in Events : Covered(e) => Covered(e)'
      BY <1>2, <2>3
         DEF Broker!Collect, Covered, Broker!InFlight, Broker!Scheduled, Broker!InLoop, Handled
    <2> QED BY <1>1, <1>2, <2>1, <2>2, <2>4, KeptForgotten DEF Broker!Collect, BrokerInv
  <1>3. CASE Broker!StartEntry
    <2>1. PICK r \in loop.ready :
           loop' = [at |-> IF consumers[r.topic] = <<>> THEN "route" ELSE "attempt",
                    ready |-> loop.ready \ {r}, current |-> {r},
                    left |-> consumers[r.topic]]
      BY <1>3 DEF Broker!StartEntry
    <2>2. r \in Broker!RetryEntry /\ r.topic \in Topics
      BY <1>1, <2>1 DEF Broker!TypeOK, Broker!RetryEntry
    <2>3. Broker!TypeOK' /\ LoopShape'
      BY <1>1, <1>3, <2>1, <2>2 DEF Broker!StartEntry, Broker!TypeOK, LoopShape
    <2>4. OnePerEvent' /\ Earned'
      BY <1>1, <1>3, KeptEarned DEF Broker!StartEntry
    <2>5. \A e \in Events : Covered(e) => Covered(e)'
      BY <1>1, <1>3, <2>1
         DEF Broker!StartEntry, Covered, Broker!InFlight, Broker!Scheduled, Broker!InLoop,
         Handled, LoopShape
    <2> QED BY <1>1, <1>3, <2>3, <2>4, <2>5, KeptForgotten DEF Broker!StartEntry, BrokerInv
  <1>4. CASE Broker!EndPoll
    <2>1. Broker!TypeOK' /\ LoopShape'
      BY <1>1, <1>4 DEF Broker!EndPoll, Broker!TypeOK, LoopShape, Broker!Idle
    <2>2. OnePerEvent' /\ Earned'
      BY <1>1, <1>4, KeptEarned DEF Broker!EndPoll
    <2>3. \A e \in Events : Covered(e) => Covered(e)'
      BY <1>1, <1>4
         DEF Broker!EndPoll, Covered, Broker!InFlight, Broker!Scheduled, Broker!InLoop, Handled,
         LoopShape, Broker!Idle
    <2> QED BY <1>1, <1>4, <2>1, <2>2, <2>3, KeptForgotten DEF Broker!EndPoll, BrokerInv
  <1>5. CASE Broker!RetrySucceeds
    <2>1. PICK r \in Broker!RetryEntry : loop.current = {r}
      BY <1>1, <1>5 DEF Broker!RetrySucceeds, LoopShape
    <2>2. Head(loop.left) \in Handlers /\ r.event \in Events
      BY <1>1, <1>5, <2>1 DEF Broker!RetrySucceeds, LoopShape, Broker!TypeOK, Broker!RetryEntry
    <2>3. succeeded' = succeeded \cup {<<r.event, Head(loop.left)>>}
      BY <1>5, <2>1 DEF Broker!RetrySucceeds
    <2>4. Broker!TypeOK' /\ LoopShape'
      <3>1. succeeded' \subseteq Events \X Handlers
        BY <1>1, <2>2, <2>3 DEF Broker!TypeOK
      <3>2. LoopShape'
        BY <1>1, <1>5 DEF Broker!RetrySucceeds, Broker!TypeOK, LoopShape
      <3>3. loop' \in [at : {"sleep", "next", "attempt", "route"},
                 ready : SUBSET Broker!RetryEntry, current : SUBSET Broker!RetryEntry,
                 left : Seq(Handlers)]
        BY <1>1, <1>5, <1>0 DEF Broker!RetrySucceeds, Broker!TypeOK
      <3> QED BY <1>1, <1>5, <3>1, <3>2, <3>3 DEF Broker!RetrySucceeds, Broker!TypeOK
    <2>5. OnePerEvent' /\ Earned'
      BY <1>1, <1>5, KeptEarned DEF Broker!RetrySucceeds
    <2>6. Handled(r.event)' /\ loop'.ready = loop.ready
      BY <1>1, <1>5, <2>2, <2>3 DEF Broker!RetrySucceeds, Handled, Broker!TypeOK
    <2>7. \A e \in Events : Covered(e) => Covered(e)'
      BY <1>5, <2>1, <2>3, <2>6
         DEF Broker!RetrySucceeds, Covered, Broker!InFlight, Broker!Scheduled, Broker!InLoop,
         Handled
    <2> QED BY <1>1, <1>5, <2>4, <2>5, <2>7, KeptForgotten DEF Broker!RetrySucceeds, BrokerInv
  <1>6. CASE Broker!RetryFails
    <2>1. loop.left \in Seq(Handlers) /\ loop.left # <<>>
      BY <1>1, <1>6 DEF Broker!RetryFails, Broker!TypeOK, LoopShape
    <2>2. Tail(loop.left) \in Seq(Handlers) /\ (Len(loop.left) > 1 => Tail(loop.left) # <<>>)
      <3>1. PICK left, tail : left = loop.left /\ tail = Tail(loop.left)
        OBVIOUS
      <3>2. tail \in Seq(Handlers) /\ Len(tail) = Len(left) - 1 /\ left \in Seq(Handlers)
        BY <2>1, <3>1, HeadTailProperties
      <3>3. Len(left) > 1 => tail # <<>>
        BY <3>2
      <3> QED BY <3>1, <3>2, <3>3
    <2>3. /\ loop'.ready = loop.ready /\ loop'.current = loop.current
          /\ loop'.left = Tail(loop.left)
          /\ loop'.at = IF Len(loop.left) > 1 THEN "attempt" ELSE "route"
          /\ loop' \in [at : {"sleep", "next", "attempt", "route"},
                 ready : SUBSET Broker!RetryEntry, current : SUBSET Broker!RetryEntry,
                 left : Seq(Handlers)]
      BY <1>1, <1>6, <2>2 DEF Broker!RetryFails, Broker!TypeOK
    <2>4. Broker!TypeOK' /\ LoopShape'
      BY <1>1, <1>6, <2>2, <2>3 DEF Broker!RetryFails, Broker!TypeOK, LoopShape
    <2>5. OnePerEvent' /\ Earned'
      BY <1>1, <1>6, KeptEarned DEF Broker!RetryFails
    <2>6. \A e \in Events : Covered(e) => Covered(e)'
      BY <1>6, <2>3
         DEF Broker!RetryFails, Covered, Broker!InFlight, Broker!Scheduled, Broker!InLoop,
         Handled
    <2> QED BY <1>1, <1>6, <2>4, <2>5, <2>6, KeptForgotten DEF Broker!RetryFails, BrokerInv
  <1>7. CASE Broker!RouteRetry
    <2>1. PICK r \in Broker!RetryEntry : loop.current = {r}
      BY <1>1, <1>7 DEF Broker!RouteRetry, LoopShape
    <2>2. Broker!RouteToRetry(r.event, r.topic) /\ r.event \in Events /\ r.topic \in Topics
      BY <1>7, <2>1 DEF Broker!RouteRetry, Broker!RetryEntry
    <2>3. Broker!TypeOK' /\ LoopShape' /\ OnePerEvent' /\ Earned'
      <3>1. /\ LoopShape'
            /\ loop' \in [at : {"sleep", "next", "attempt", "route"},
                 ready : SUBSET Broker!RetryEntry, current : SUBSET Broker!RetryEntry,
                 left : Seq(Handlers)]
        BY <1>1, <1>7, <1>0 DEF Broker!RouteRetry, Broker!TypeOK, LoopShape
      <3>2. /\ retryQueue' \subseteq Broker!RetryEntry /\ deadLetter' \in [Events -> Nat]
            /\ failures' \in [Events -> 0..FailureCap] /\ OnePerEvent' /\ Earned'
        BY <2>2, Routed
      <3> QED BY <1>1, <1>7, <3>1, <3>2 DEF Broker!RouteRetry, Broker!TypeOK
    <2>4. \A e \in Events : e = r.event => Covered(e)'
      BY <2>2, Routed DEF Covered, Broker!InFlight
    <2>5. loop'.ready = loop.ready
      BY <1>1, <1>7 DEF Broker!RouteRetry, Broker!TypeOK
    <2>6. \A e \in Events \ {r.event} : Covered(e) => Covered(e)'
      BY <1>7, <2>1, <2>2, <2>5, Routed
         DEF Broker!RouteRetry, Covered, Broker!InFlight, Broker!InLoop, Handled
    <2>7. \A e \in Events \ {r.event} : failures'[e] = failures[e]
      BY <2>2, Routed
    <2>8. Broker!NoFailureForgotten'
      BY <1>1, <2>4, <2>6, <2>7 DEF Broker!NoFailureForgotten, Covered, Handled
    <2> QED BY <2>3, <2>8 DEF BrokerInv
  <1> QED BY <1>2, <1>3, <1>4, <1>5, <1>6, <1>7 DEF Broker!LoopSteps

\* Every failed delivery is accounted for (event_driven_impl.go): whatever its
\* subscribers do, in whatever order goroutines and the retry loop take the
\* lock, an event that failed is on its way, handled or dead-lettered, and
\* never dead-lettered before its retries were used.
THEOREM BrokerStaysSound == Broker!Spec => []BrokerIsSound
  <1>1. BrokerInv /\ [Broker!Next]_(Broker!vars) => BrokerInv'
    <2>1. BrokerInv /\ UNCHANGED Broker!vars => BrokerInv'
      BY DEF Broker!vars, BrokerInv, Broker!TypeOK, LoopShape, Broker!NoFailureForgotten,
         OnePerEvent, Earned, Reached,
         Broker!Scheduled, Broker!InFlight, Broker!InLoop
    <2> QED BY <2>1, AdminKeeps, GoroutinesKeep, ElapseKeeps, LoopKeeps
       DEF Broker!Next, Broker!Goroutines
  <1>2. BrokerInv => BrokerIsSound
    <2> SUFFICES ASSUME BrokerInv, NEW e \in Events
                 PROVE  LET owed == (MaxRetries + 1) * deadLetter[e]
                        IN  failures[e] >= IF owed < FailureCap THEN owed ELSE FailureCap
      BY DEF BrokerInv, BrokerIsSound, Broker!DeadLettersAreEarned
    <2>1. PICK owed \in Int : owed = (MaxRetries + 1) * deadLetter[e]
      BY BrokerAssumption DEF BrokerInv, Broker!TypeOK, Broker!ClusterAssumption
    <2>2. failures[e] >= owed \/ failures[e] >= FailureCap
      BY <2>1 DEF BrokerInv, Earned, Reached
    <2>3. failures[e] \in Int /\ FailureCap \in Int
      BY BrokerAssumption DEF BrokerInv, Broker!TypeOK, Broker!ClusterAssumption
    <2> QED BY <2>1, <2>2, <2>3
  <1> QED BY BrokerInit, <1>1, <1>2, PTL DEF Broker!Spec

-----------------------------------------------------------------------------
\* The composition of ComputeEngine runs each part as the part runs alone, so
\* that what is proved of a part holds in every behaviour of the engine.
THEOREM EngineRunsItsParts == EngineSpec => Spec /\ Broker!Spec
  <1>1. EngineInit => Init /\ Broker!Init
    BY DEF EngineInit
  <1>2. [EngineNext]_all => [Next]_vars /\ [Broker!Next]_(Broker!vars)
    BY DEF EngineNext, OfService, OfBroker, Served, all, brokerVars, vars, Broker!vars
  <1> QED BY <1>1, <1>2, PTL DEF EngineSpec, Spec, Broker!Spec

=============================================================================
