------------------------- MODULE EventConsoleProofs -------------------------
(***************************************************************************)
(* Proofs about the event view of Consoles.  Facts speaks of the state one *)
(* queue at a time: what commands, retries, replays and rows say of a      *)
(* transaction is what its stream says.                                    *)
(***************************************************************************)
EXTENDS Consoles, FiniteSetTheorems, TLAPS

LEMMA EA == Events!EventAssumption
BY ConsolesAssumption

LEMMA EventsCounted ==
    ASSUME NEW S
    PROVE  /\ Events!IsFiniteSet(S) <=> IsFiniteSet(S)
           /\ Events!Cardinality(S) = Cardinality(S)
<1>1. Events!IsFiniteSet(S) <=> IsFiniteSet(S)
  BY Zenon DEF Events!IsFiniteSet, IsFiniteSet
<1>2. Events!Cardinality(S) = Cardinality(S)
  BY Zenon DEF Events!Cardinality, Cardinality, Events!IsFiniteSet, IsFiniteSet
<1> QED BY <1>1, <1>2

LEMMA FormTypes ==
    /\ \A f \in Forms : /\ f.schema \in {1, 2} /\ f.blank \subseteq Events!Fields
                        /\ f.high \in BOOLEAN /\ f.fail \in BOOLEAN
    /\ \A f \in Forms : Events!Verdict(f) \in Events!Outcomes
<1>1. Forms \subseteq Events!Form BY EA DEF Events!EventAssumption
<1>2. \A f \in Forms : /\ f.schema \in {1, 2} /\ f.blank \subseteq Events!Fields
                       /\ f.high \in BOOLEAN /\ f.fail \in BOOLEAN
  BY <1>1 DEF Events!Form
<1> QED BY <1>2 DEF Events!Verdict, Events!Outcomes

LEMMA SeedsTyped ==
    /\ SeedOrder \in Seq(Transactions) /\ Len(SeedOrder) \in Nat /\ Len(SeedOrder) > 0
    /\ SeedOrder[1] \in Transactions
    /\ \A i, j \in 1..Len(SeedOrder) : SeedOrder[i] = SeedOrder[j] => i = j
<1>1. /\ SeedOrder \in Seq(Transactions) /\ SeedOrder # <<>>
      /\ \A i, j \in DOMAIN SeedOrder : SeedOrder[i] = SeedOrder[j] => i = j
  BY EA DEF Events!EventAssumption
<1>2. Len(SeedOrder) \in Nat /\ Len(SeedOrder) > 0 BY <1>1
<1> QED BY <1>1, <1>2

LEMMA NoCommandTyped == Events!NoCommand \in Events!Command
<1>1. \E t \in Transactions : TRUE BY SeedsTyped
<1>2. \E f \in Forms : TRUE BY EA DEF Events!EventAssumption
<1>3. (CHOOSE t \in Transactions : TRUE) \in Transactions BY <1>1
<1>4. (CHOOSE f \in Forms : TRUE) \in Forms BY <1>2
<1> QED BY <1>3, <1>4 DEF Events!NoCommand, Events!Command

LEMMA EventsTyped ==
    ASSUME NEW t \in Transactions, NEW s \in Events!Outcomes
    PROVE  /\ Events!Created(t, s) \in Events!EventItem /\ Events!Processed(t, s) \in Events!EventItem
           /\ Events!Row(t, 2, s) \in Events!ProjectionModel /\ Events!Row(t, 2, s) \in Events!SnapshotItem
           /\ Events!Created(t, s).id = t /\ Events!Processed(t, s).id = t
           /\ Events!Row(t, 2, s).id = t
BY DEF Events!Created, Events!Processed, Events!Row, Events!EventItem,
     Events!ProjectionModel, Events!SnapshotItem

LEMMA Halves ==
    /\ \A i \in Nat \ {0} : i % 2 = 1 =>
          (i + 1) \div 2 \in Nat \ {0} /\ i = 2 * ((i + 1) \div 2) - 1
    /\ \A i \in Nat \ {0} : i % 2 # 1 => i \div 2 \in Nat \ {0} /\ i = 2 * (i \div 2)
    /\ \A m \in Nat \ {0} :
          /\ (2 * m - 1) % 2 = 1 /\ ((2 * m - 1) + 1) \div 2 = m
          /\ (2 * m) % 2 = 0 /\ (2 * m) \div 2 = m
<1>1. \A i \in Nat \ {0} : i % 2 = 1 =>
          (i + 1) \div 2 \in Nat \ {0} /\ i = 2 * ((i + 1) \div 2) - 1
  OBVIOUS
<1>2. \A i \in Nat \ {0} : i % 2 # 1 => i \div 2 \in Nat \ {0} /\ i = 2 * (i \div 2)
  OBVIOUS
<1>3. \A m \in Nat \ {0} :
          /\ (2 * m - 1) % 2 = 1 /\ ((2 * m - 1) + 1) \div 2 = m
          /\ (2 * m) % 2 = 0 /\ (2 * m) \div 2 = m
  OBVIOUS
<1> QED BY <1>1, <1>2, <1>3

\* The log of the seeds, an item at a time.
LEMMA SeedLog ==
    /\ Events!SeedEvents \in Seq(Events!EventItem) /\ Len(Events!SeedEvents) = 2 * Len(SeedOrder)
    /\ DOMAIN Events!SeedEvents = 1..(2 * Len(SeedOrder))
    /\ \A m \in 1..Len(SeedOrder) :
          /\ 2 * m - 1 \in DOMAIN Events!SeedEvents /\ 2 * m \in DOMAIN Events!SeedEvents
          /\ Events!SeedEvents[2 * m - 1] = Events!Created(SeedOrder[m], "APPROVED")
          /\ Events!SeedEvents[2 * m] = Events!Processed(SeedOrder[m], "APPROVED")
    /\ \A i \in DOMAIN Events!SeedEvents : \E m \in 1..Len(SeedOrder) : i \in {2 * m - 1, 2 * m}
<1>1. \A i \in 1..(2 * Len(SeedOrder)) : \E m \in 1..Len(SeedOrder) :
         \/ i % 2 = 1 /\ (i + 1) \div 2 = m /\ i = 2 * m - 1
         \/ i % 2 # 1 /\ i \div 2 = m /\ i = 2 * m
  <2> TAKE i \in 1..(2 * Len(SeedOrder))
  <2>0. i \in Nat \ {0} /\ Len(SeedOrder) \in Nat BY SeedsTyped
  <2>1. CASE i % 2 = 1
    <3>1. (i + 1) \div 2 \in Nat \ {0} /\ i = 2 * ((i + 1) \div 2) - 1
      BY <2>0, <2>1, Halves
    <3>2. PICK m \in Nat \ {0} : m = (i + 1) \div 2 BY <3>1
    <3>3. m \in 1..Len(SeedOrder) BY <2>0, <3>1, <3>2
    <3> QED BY <2>1, <3>1, <3>2, <3>3
  <2>2. CASE i % 2 # 1
    <3>1. i \div 2 \in Nat \ {0} /\ i = 2 * (i \div 2) BY <2>0, <2>2, Halves
    <3>2. PICK m \in Nat \ {0} : m = i \div 2 BY <3>1
    <3>3. m \in 1..Len(SeedOrder) BY <2>0, <3>1, <3>2
    <3> QED BY <2>2, <3>1, <3>2, <3>3
  <2> QED BY <2>1, <2>2
<1>2. "APPROVED" \in Events!Outcomes BY DEF Events!Outcomes
<1>3. ASSUME NEW i \in 1..(2 * Len(SeedOrder))
      PROVE  Events!SeedEvents[i] \in Events!EventItem
  <2>1. PICK m \in 1..Len(SeedOrder) :
          \/ i % 2 = 1 /\ (i + 1) \div 2 = m /\ i = 2 * m - 1
          \/ i % 2 # 1 /\ i \div 2 = m /\ i = 2 * m
    BY <1>1
  <2>2. SeedOrder[m] \in Transactions BY SeedsTyped
  <2>3. Events!SeedEvents[i] = IF i % 2 = 1 THEN Events!Created(SeedOrder[(i + 1) \div 2], "APPROVED")
                        ELSE Events!Processed(SeedOrder[i \div 2], "APPROVED")
    BY DEF Events!SeedEvents
  <2>4. Events!SeedEvents[i] \in {Events!Created(SeedOrder[m], "APPROVED"),
                           Events!Processed(SeedOrder[m], "APPROVED")}
    BY <2>1, <2>3
  <2> QED BY <1>2, <2>2, <2>4, EventsTyped
<1>4. 2 * Len(SeedOrder) \in Nat BY SeedsTyped
<1>5. DOMAIN Events!SeedEvents = 1..(2 * Len(SeedOrder)) BY DEF Events!SeedEvents
<1>6. Events!SeedEvents = [i \in 1..(2 * Len(SeedOrder)) |-> Events!SeedEvents[i]]
  BY DEF Events!SeedEvents
<1>7. Events!SeedEvents \in Seq(Events!EventItem) /\ Len(Events!SeedEvents) = 2 * Len(SeedOrder)
  BY <1>3, <1>4, <1>6
<1>8. ASSUME NEW m \in 1..Len(SeedOrder)
      PROVE  /\ 2 * m - 1 \in DOMAIN Events!SeedEvents /\ 2 * m \in DOMAIN Events!SeedEvents
             /\ Events!SeedEvents[2 * m - 1] = Events!Created(SeedOrder[m], "APPROVED")
             /\ Events!SeedEvents[2 * m] = Events!Processed(SeedOrder[m], "APPROVED")
  <2>1. m \in Nat \ {0} /\ Len(SeedOrder) \in Nat /\ m <= Len(SeedOrder) BY SeedsTyped
  <2>2. PICK a \in Nat, b \in Nat : a = 2 * m - 1 /\ b = 2 * m BY <2>1
  <2>3. a \in 1..(2 * Len(SeedOrder)) /\ b \in 1..(2 * Len(SeedOrder)) BY <2>1, <2>2
  <2>4. a % 2 = 1 /\ (a + 1) \div 2 = m /\ b % 2 = 0 /\ b \div 2 = m
    BY <2>1, <2>2, Halves
  <2>5. Events!SeedEvents[a] = Events!Created(SeedOrder[m], "APPROVED")
    BY <2>3, <2>4 DEF Events!SeedEvents
  <2>6. Events!SeedEvents[b] = Events!Processed(SeedOrder[m], "APPROVED")
    BY <2>3, <2>4 DEF Events!SeedEvents
  <2> QED BY <1>5, <2>2, <2>3, <2>5, <2>6
<1> QED BY <1>1, <1>5, <1>7, <1>8

LEMMA SeedTypes ==
    /\ Events!SeedEvents \in Seq(Events!EventItem) /\ Len(Events!SeedEvents) \in Nat
    /\ Events!SeedTopics \in [Events!Topics -> Seq(Events!TopicMetadata)]
    /\ Events!SeedTopics[Events!Main] = <<Len(Events!SeedEvents)>>
    /\ Events!SeedTopics[Events!Retry] = <<0>> /\ Events!SeedTopics[Events!Dead] = <<0>>
    /\ Events!SeedRows \in [Transactions -> Seq(Events!ProjectionModel)]
    /\ Events!SeedSchemas \in Seq(Events!SchemaItem)
    /\ Events!Row(SeedOrder[1], 2, "APPROVED") \in Events!SnapshotItem
<1>1. Events!SeedEvents \in Seq(Events!EventItem) /\ Len(Events!SeedEvents) \in Nat
  BY SeedLog
<1>2. Events!Main # Events!Retry /\ Events!Main # Events!Dead /\ Events!Retry # Events!Dead
  BY DEF Events!Main,
     Events!Retry, Events!Dead
<1>3. Events!CoreTopics \subseteq Events!Topics /\ Events!CoreTopics = {Events!Main, Events!Retry, Events!Dead}
  BY DEF Events!Topics, Events!CoreTopics
<1>4. ASSUME NEW n \in Events!Topics
      PROVE  /\ Events!SeedTopics[n] \in Seq(Nat)
             /\ n = Events!Main => Events!SeedTopics[n] = <<Len(Events!SeedEvents)>>
             /\ n \in {Events!Retry, Events!Dead} => Events!SeedTopics[n] = <<0>>
  <2>1. Events!SeedTopics[n] = CASE n = Events!Main -> <<Len(Events!SeedEvents)>>
                           [] n \in {Events!Retry, Events!Dead} -> <<0>>
                           [] n \notin Events!CoreTopics -> <<>>
    BY DEF Events!SeedTopics
  <2>2. <<Len(Events!SeedEvents)>> \in Seq(Nat) /\ <<0>> \in Seq(Nat) /\ <<>> \in Seq(Nat)
    BY <1>1
  <2> HIDE DEF Events!Main, Events!Retry, Events!Dead, Events!CoreTopics
  <2>3. CASE n = Events!Main
    <3>1. n \notin {Events!Retry, Events!Dead} /\ n \in Events!CoreTopics
      BY <1>2, <1>3, <2>3
    <3>2. Events!SeedTopics[n] = <<Len(Events!SeedEvents)>> BY Zenon, <2>1, <2>3, <3>1
    <3> QED BY <2>2, <3>1, <3>2
  <2>4. CASE n \in {Events!Retry, Events!Dead}
    <3>1. n # Events!Main /\ n \in Events!CoreTopics BY <1>2, <1>3, <2>4
    <3>2. Events!SeedTopics[n] = <<0>> BY Zenon, <2>1, <2>4, <3>1
    <3> QED BY <2>2, <3>1, <3>2
  <2>5. CASE n \notin Events!CoreTopics
    <3>1. n # Events!Main /\ n \notin {Events!Retry, Events!Dead} BY <1>3, <2>5
    <3>2. Events!SeedTopics[n] = <<>> BY Zenon, <2>1, <2>5, <3>1
    <3> QED BY <2>2, <3>1, <3>2
  <2> QED BY <1>3, <2>3, <2>4, <2>5
<1>5. Events!SeedTopics \in [Events!Topics -> Seq(Events!TopicMetadata)]
  BY <1>4 DEF Events!SeedTopics, Events!TopicMetadata
<1>6. Events!Main \in Events!Topics /\ Events!Retry \in Events!Topics /\ Events!Dead \in Events!Topics
  BY <1>3
<1>7. /\ Events!SeedTopics[Events!Main] = <<Len(Events!SeedEvents)>>
      /\ Events!SeedTopics[Events!Retry] = <<0>> /\ Events!SeedTopics[Events!Dead] = <<0>>
  BY <1>4, <1>6
<1>8. ASSUME NEW t \in Transactions
      PROVE (IF t \in Events!Range(SeedOrder) THEN <<Events!Row(t, 2, "APPROVED")>> ELSE <<>>)
              \in Seq(Events!ProjectionModel)
  BY EventsTyped DEF Events!Outcomes
<1>9. Events!SeedRows \in [Transactions -> Seq(Events!ProjectionModel)]
  BY <1>8 DEF Events!SeedRows
<1>10. Events!SeedSchemas \in Seq(Events!SchemaItem)
  <2>0. "TransactionCreated" \in Events!EventTypes BY DEF Events!EventTypes
  <2>1. [eventType |-> "TransactionCreated", version |-> 1,
         fields |-> {"id", "amount", "created_by"}] \in Events!SchemaItem
    BY <2>0 DEF Events!SchemaItem, Events!Fields
  <2>2. [eventType |-> "TransactionCreated", version |-> 2, fields |-> Events!Fields]
          \in Events!SchemaItem
    BY <2>0 DEF Events!SchemaItem
  <2> QED BY <2>1, <2>2 DEF Events!SeedSchemas
<1>11. Events!Row(SeedOrder[1], 2, "APPROVED") \in Events!SnapshotItem
  BY SeedsTyped, EventsTyped DEF Events!Outcomes
<1> QED BY <1>1, <1>5, <1>7, <1>9, <1>10, <1>11

-----------------------------------------------------------------------------
(* The log *)

Ids(log) == {log[i].id : i \in DOMAIN log}

\* The two events of a stream, one after the other, and no others.
Tells(log, t, s) ==
    \E k \in DOMAIN log :
       /\ k + 1 \in DOMAIN log
       /\ log[k] = Events!Created(t, s) /\ log[k + 1] = Events!Processed(t, s)
       /\ \A j \in DOMAIN log : log[j].id = t => j \in {k, k + 1}

FoldedIn(log, id) ==
    LET seen == {i \in DOMAIN log : log[i].id = id}
        processed == {i \in seen : log[i].type = "TransactionProcessed"}
    IN  Events!Row(id, log[Events!Max(seen)].version,
            IF processed = {} THEN "PENDING" ELSE log[Events!Min(processed)].status)

LEMMA MaxOfTwo == ASSUME NEW k \in Nat PROVE Events!Max({k, k + 1}) = k + 1
<1>1. \A y \in {k, k + 1} : k + 1 >= y OBVIOUS
<1>2. \A x \in {k, k + 1} : (\A y \in {k, k + 1} : x >= y) => x = k + 1 OBVIOUS
<1>3. \E x \in {k, k + 1} : \A y \in {k, k + 1} : x >= y BY <1>1
<1> QED BY <1>2, <1>3 DEF Events!Max

LEMMA MinOfOne == ASSUME NEW k \in Nat PROVE Events!Min({k}) = k
BY DEF Events!Min

LEMMA FoldTells ==
    ASSUME NEW log \in Seq(Events!EventItem), NEW t, NEW s, Tells(log, t, s)
    PROVE  FoldedIn(log, t) = Events!Row(t, 2, s)
<1>1. PICK k \in DOMAIN log :
         /\ k + 1 \in DOMAIN log
         /\ log[k] = Events!Created(t, s) /\ log[k + 1] = Events!Processed(t, s)
         /\ \A j \in DOMAIN log : log[j].id = t => j \in {k, k + 1}
  BY DEF Tells
<1>2. k \in Nat OBVIOUS
<1>3. /\ log[k].id = t /\ log[k].type = "TransactionCreated"
      /\ log[k + 1].id = t /\ log[k + 1].type = "TransactionProcessed"
      /\ log[k + 1].version = 2 /\ log[k + 1].status = s
  BY <1>1 DEF Events!Created, Events!Processed
<1> DEFINE seen == {i \in DOMAIN log : log[i].id = t}
           processed == {i \in seen : log[i].type = "TransactionProcessed"}
<1>4. seen = {k, k + 1} BY <1>1, <1>3
<1>5. "TransactionCreated" # "TransactionProcessed" OBVIOUS
<1>6. processed = {k + 1} BY <1>3, <1>4, <1>5
<1>7. Events!Max(seen) = k + 1 BY <1>2, <1>4, MaxOfTwo
<1>8. Events!Min(processed) = k + 1 BY <1>2, <1>6, MinOfOne
<1>9. FoldedIn(log, t) =
        Events!Row(t, log[Events!Max(seen)].version,
            IF processed = {} THEN "PENDING" ELSE log[Events!Min(processed)].status)
  BY DEF FoldedIn
<1> HIDE DEF seen, processed
<1>10. processed # {} BY <1>6
<1> QED BY <1>3, <1>7, <1>8, <1>9, <1>10

Grown(log, more, t, s) ==
    /\ more \in Seq(Events!EventItem) /\ Len(more) = Len(log) + 2
    /\ Ids(more) = Ids(log) \cup {t}
    /\ Tells(more, t, s)
    /\ \A u, z : u \in Ids(log) /\ Tells(log, u, z) => Tells(more, u, z)

\* Both events of a stream are appended together.
LEMMA Appended ==
    ASSUME NEW log \in Seq(Events!EventItem), NEW t \in Transactions,
           NEW s \in Events!Outcomes,
           NEW more, more = log \o <<Events!Created(t, s), Events!Processed(t, s)>>,
           t \notin Ids(log)
    PROVE  Grown(log, more, t, s)
<1>1. /\ Events!Created(t, s) \in Events!EventItem /\ Events!Processed(t, s) \in Events!EventItem
      /\ Events!Created(t, s).id = t /\ Events!Processed(t, s).id = t
  BY EventsTyped
<1>2. PICK a, b : a = Events!Created(t, s) /\ b = Events!Processed(t, s) OBVIOUS
<1>3. a \in Events!EventItem /\ b \in Events!EventItem /\ a.id = t /\ b.id = t
  BY <1>1, <1>2
<1>4. more = log \o <<a, b>> BY <1>2
<1>5. Len(log) \in Nat /\ DOMAIN log = 1..Len(log) OBVIOUS
<1>6. <<a, b>> \in Seq(Events!EventItem) /\ Len(<<a, b>>) = 2 BY <1>3
<1>7. more \in Seq(Events!EventItem) /\ Len(more) = Len(log) + 2 BY <1>4, <1>6
<1>8. DOMAIN more = 1..(Len(log) + 2) BY <1>7
<1>9. /\ \A i \in DOMAIN log : more[i] = log[i]
      /\ more[Len(log) + 1] = a /\ more[Len(log) + 2] = b
  BY <1>4, <1>6
<1>10. \A i \in DOMAIN more : i \in DOMAIN log \/ i = Len(log) + 1 \/ i = Len(log) + 2
  BY <1>5, <1>8
<1>11. \A i \in DOMAIN log : i \in DOMAIN more /\ log[i].id # t
  <2>1. \A i \in DOMAIN log : i \in DOMAIN more BY <1>5, <1>8
  <2> QED BY <2>1 DEF Ids
<1>12. Len(log) + 1 \in DOMAIN more /\ Len(log) + 2 \in DOMAIN more BY <1>5, <1>8
<1> HIDE DEF Ids
<1>13. Ids(more) = Ids(log) \cup {t}
  <2>1. \A x : x \in Ids(more) <=> \E i \in DOMAIN more : x = more[i].id BY DEF Ids
  <2>2. \A x : x \in Ids(log) <=> \E i \in DOMAIN log : x = log[i].id BY DEF Ids
  <2>3. \A x : x \in Ids(more) => x \in Ids(log) \cup {t}
    BY <2>1, <2>2, <1>9, <1>10, <1>3
  <2>4. ASSUME NEW i \in DOMAIN log PROVE log[i].id \in Ids(more)
    <3>1. i \in DOMAIN more /\ more[i] = log[i] BY <1>9, <1>11
    <3> QED BY Zenon, <2>1, <3>1
  <2>5. t \in Ids(more) BY <2>1, <1>9, <1>12, <1>3
  <2>6. \A x : x \in Ids(log) => x \in Ids(more) BY Zenon, <2>2, <2>4
  <2> QED BY <2>3, <2>5, <2>6
<1>14. Tells(more, t, s)
  <2>1. PICK k : k = Len(log) + 1 OBVIOUS
  <2>2. k \in DOMAIN more /\ k + 1 \in DOMAIN more BY <1>5, <1>12, <2>1
  <2>3. more[k] = a /\ more[k + 1] = b BY <1>5, <1>9, <2>1
  <2>4. \A j \in DOMAIN more : more[j].id = t => j \in {k, k + 1}
    BY <1>5, <1>9, <1>10, <1>11, <2>1
  <2> QED BY <1>2, <2>2, <2>3, <2>4 DEF Tells
<1>15. ASSUME NEW u, NEW z, u \in Ids(log), Tells(log, u, z) PROVE Tells(more, u, z)
  <2>1. PICK k \in DOMAIN log :
          /\ k + 1 \in DOMAIN log
          /\ log[k] = Events!Created(u, z) /\ log[k + 1] = Events!Processed(u, z)
          /\ \A j \in DOMAIN log : log[j].id = u => j \in {k, k + 1}
    BY <1>15 DEF Tells
  <2>2. u # t BY <1>15
  <2>3. k \in DOMAIN more /\ k + 1 \in DOMAIN more BY <1>11, <2>1
  <2>4. more[k] = Events!Created(u, z) /\ more[k + 1] = Events!Processed(u, z)
    BY <1>9, <2>1
  <2>5. \A j \in DOMAIN more : more[j].id = u => j \in {k, k + 1}
    BY <1>3, <1>9, <1>10, <2>1, <2>2
  <2> QED BY <2>3, <2>4, <2>5 DEF Tells
<1> QED BY <1>7, <1>13, <1>14, <1>15 DEF Grown

LEMMA SeedTells ==
    /\ Ids(Events!SeedEvents) = Events!Range(SeedOrder)
    /\ \A t \in Events!Range(SeedOrder) : Tells(Events!SeedEvents, t, "APPROVED")
<1>1. Events!Range(SeedOrder) = {SeedOrder[m] : m \in 1..Len(SeedOrder)}
  BY SeedsTyped DEF Events!Range
<1>2. \A m \in 1..Len(SeedOrder) :
         Events!SeedEvents[2 * m - 1].id = SeedOrder[m] /\ Events!SeedEvents[2 * m].id = SeedOrder[m]
  <2> TAKE m \in 1..Len(SeedOrder)
  <2>1. PICK a, b : a = Events!SeedEvents[2 * m - 1] /\ b = Events!SeedEvents[2 * m] OBVIOUS
  <2>2. a = Events!Created(SeedOrder[m], "APPROVED") /\ b = Events!Processed(SeedOrder[m], "APPROVED")
    BY Zenon, <2>1, SeedLog
  <2>3. a.id = SeedOrder[m] /\ b.id = SeedOrder[m] BY <2>2 DEF Events!Created,
       Events!Processed
  <2> QED BY Zenon, <2>1, <2>3
<1>3. Ids(Events!SeedEvents) = Events!Range(SeedOrder)
  <2>1. \A x : x \in Ids(Events!SeedEvents) <=> \E i \in DOMAIN Events!SeedEvents : x = Events!SeedEvents[i].id
    BY DEF Ids
  <2>2. \A x : x \in Events!Range(SeedOrder) <=> \E m \in 1..Len(SeedOrder) : x = SeedOrder[m]
    BY <1>1
  <2>3. ASSUME NEW i \in DOMAIN Events!SeedEvents
        PROVE  Events!SeedEvents[i].id \in Events!Range(SeedOrder)
    <3>1. PICK m \in 1..Len(SeedOrder) : i \in {2 * m - 1, 2 * m} BY SeedLog
    <3>2. CASE i = 2 * m - 1 BY <1>2, <2>2, <3>2
    <3>3. CASE i = 2 * m BY <1>2, <2>2, <3>3
    <3> QED BY <3>1, <3>2, <3>3
  <2>4. ASSUME NEW m \in 1..Len(SeedOrder) PROVE SeedOrder[m] \in Ids(Events!SeedEvents)
    <3>1. 2 * m \in DOMAIN Events!SeedEvents BY SeedLog
    <3> QED BY <1>2, <2>1, <3>1
  <2> QED BY <2>1, <2>2, <2>3, <2>4
<1>4. ASSUME NEW m \in 1..Len(SeedOrder)
      PROVE  Tells(Events!SeedEvents, SeedOrder[m], "APPROVED")
  <2>0. m \in Nat BY SeedsTyped
  <2>1. PICK k : k = 2 * m - 1 OBVIOUS
  <2>2. k + 1 = 2 * m BY <2>0, <2>1
  <2>3. /\ k \in DOMAIN Events!SeedEvents /\ k + 1 \in DOMAIN Events!SeedEvents
        /\ Events!SeedEvents[k] = Events!Created(SeedOrder[m], "APPROVED")
        /\ Events!SeedEvents[k + 1] = Events!Processed(SeedOrder[m], "APPROVED")
    BY <2>1, <2>2, SeedLog
  <2>4. ASSUME NEW j \in DOMAIN Events!SeedEvents, Events!SeedEvents[j].id = SeedOrder[m]
        PROVE  j \in {k, k + 1}
    <3>1. PICK n \in 1..Len(SeedOrder) : j \in {2 * n - 1, 2 * n} BY SeedLog
    <3>2. CASE j = 2 * n - 1
      <4>1. SeedOrder[n] = SeedOrder[m] BY <1>2, <2>4, <3>2
      <4>2. n = m BY <4>1, SeedsTyped
      <4> QED BY <2>1, <3>2, <4>2
    <3>3. CASE j = 2 * n
      <4>1. SeedOrder[n] = SeedOrder[m] BY <1>2, <2>4, <3>3
      <4>2. n = m BY <4>1, SeedsTyped
      <4> QED BY <2>2, <3>3, <4>2
    <3> QED BY <3>1, <3>2, <3>3
  <2> QED BY <2>3, <2>4 DEF Tells
<1> QED BY <1>1, <1>3, <1>4

-----------------------------------------------------------------------------
(* The counts of the topics *)

EventTopics == topics \in [Events!Topics -> Seq(Nat)] /\ \A n \in Events!CoreTopics : topics[n] # <<>>

LEMMA CoreNames ==
    /\ Events!Main \in Events!Topics /\ Events!Retry \in Events!Topics /\ Events!Dead \in Events!Topics
    /\ Events!Main \in Events!CoreTopics /\ Events!Retry \in Events!CoreTopics /\ Events!Dead \in Events!CoreTopics
    /\ Events!Main # Events!Retry /\ Events!Main # Events!Dead /\ Events!Retry # Events!Dead
    /\ \A n \in Events!CoreTopics : n \in {Events!Main, Events!Retry, Events!Dead}
    /\ Events!CoreTopics \subseteq Events!Topics
<1>1. Events!Main # Events!Retry /\ Events!Main # Events!Dead /\ Events!Retry # Events!Dead
  BY DEF Events!Main,
     Events!Retry, Events!Dead
<1> QED BY <1>1 DEF Events!CoreTopics, Events!Topics

LEMMA CountTyped ==
    ASSUME EventTopics, NEW name \in Events!CoreTopics
    PROVE  Events!Count(name) \in Nat
BY CoreNames DEF EventTopics, Events!Count

LEMMA CountedCounts ==
    ASSUME EventTopics, NEW name \in Events!CoreTopics, NEW n \in Nat,
           topics' = Events!Counted(name, n)
    PROVE  /\ EventTopics'
           /\ topics'[name][1] = topics[name][1] + n
           /\ \A m \in Events!CoreTopics \ {name} : topics'[m] = topics[m]
<1>1. name \in Events!Topics /\ topics[name] \in Seq(Nat) /\ topics[name] # <<>>
  BY CoreNames DEF EventTopics
<1>2. PICK c : c = [i \in DOMAIN topics[name] |-> topics[name][i] + n] OBVIOUS
<1>3. c \in Seq(Nat) /\ c # <<>> /\ c[1] = topics[name][1] + n
  <2>1. PICK d \in Seq(Nat) : d = topics[name] /\ d # <<>> BY <1>1
  <2>2. c = [i \in 1..Len(d) |-> d[i] + n] /\ Len(d) \in Nat /\ Len(d) > 0 BY <1>2, <2>1
  <2>3. \A i \in 1..Len(d) : d[i] + n \in Nat BY <2>1
  <2>4. c \in Seq(Nat) /\ DOMAIN c = 1..Len(d) BY <2>2, <2>3
  <2>5. 1 \in 1..Len(d) BY <2>2
  <2>6. c[1] = d[1] + n BY <2>2, <2>5
  <2>7. c # <<>> BY <2>4, <2>5
  <2> QED BY <2>1, <2>4, <2>6, <2>7
<1>4. topics' = [topics EXCEPT ![name] = c] BY <1>2 DEF Events!Counted
<1>5. topics \in [Events!Topics -> Seq(Nat)] /\ \A m \in Events!CoreTopics : m \in Events!Topics /\ topics[m] # <<>>
  BY CoreNames DEF EventTopics
<1>6. topics' \in [Events!Topics -> Seq(Nat)] BY <1>3, <1>4, <1>5
<1>7. topics'[name] = c /\ \A m \in Events!Topics \ {name} : topics'[m] = topics[m]
  BY <1>1, <1>4, <1>5
<1>8. \A m \in Events!CoreTopics : topics'[m] # <<>> BY <1>3, <1>5, <1>7
<1> QED BY <1>3, <1>5, <1>6, <1>7, <1>8 DEF EventTopics

-----------------------------------------------------------------------------
(* Types *)

StreamsTell == \A t \in Events!Streams : \E s \in Events!Outcomes : Tells(events, t, s)

LEMMA LogFacts ==
    /\ Events!Streams = Ids(events) /\ Events!Streams' = Ids(events)'
    /\ \A t : Events!Folded(t) = FoldedIn(events, t)
    /\ \A t : Events!Folded(t)' = FoldedIn(events', t)
BY DEF Events!Streams, Ids, Events!Folded, FoldedIn, Events!StreamEvents

LEMMA StreamTyped ==
    ASSUME Events!TypeOK, NEW t \in Events!Streams PROVE t \in Transactions
<1>1. \A i \in DOMAIN events : events[i] \in Events!EventItem BY DEF Events!TypeOK
<1> QED BY <1>1 DEF Events!Streams, Events!EventItem

LEMMA FoldedRow ==
    ASSUME Events!TypeOK, StreamsTell, NEW t \in Events!Streams
    PROVE  /\ t \in Transactions
           /\ \E s \in Events!Outcomes : Tells(events, t, s) /\ Events!Folded(t) = Events!Row(t, 2, s)
           /\ Events!Folded(t) \in Events!ProjectionModel /\ Events!Folded(t) \in Events!SnapshotItem
           /\ Events!Folded(t).id = t /\ Events!Folded(t).status \in Events!Outcomes
           /\ Events!Row(t, 2, Events!Folded(t).status) = Events!Folded(t)
<1>1. t \in Transactions BY StreamTyped
<1>2. PICK s \in Events!Outcomes : Tells(events, t, s) BY DEF StreamsTell
<1>3. events \in Seq(Events!EventItem) BY DEF Events!TypeOK
<1>4. Events!Folded(t) = Events!Row(t, 2, s) BY <1>2, <1>3, FoldTells, LogFacts
<1>5. Events!Row(t, 2, s).status = s BY DEF Events!Row
<1> QED BY <1>1, <1>2, <1>4, <1>5, EventsTyped

LEMMA InsertedTyped ==
    ASSUME Events!TypeOK, NEW r \in Events!ProjectionModel
    PROVE  Events!Inserted(r) \in [Transactions -> Seq(Events!ProjectionModel)]
<1>1. r.id \in Transactions BY DEF Events!ProjectionModel
<1>2. readModel[r.id] \in Seq(Events!ProjectionModel) BY <1>1 DEF Events!TypeOK
<1>3. <<r>> \o readModel[r.id] \in Seq(Events!ProjectionModel) BY <1>2
<1> QED BY <1>3 DEF Events!Inserted, Events!TypeOK

LEMMA EventTypeInit == ASSUME Events!Init PROVE Events!TypeOK
<1>1. /\ topics[Events!Main] # <<>> /\ topics[Events!Retry] # <<>> /\ topics[Events!Dead] # <<>>
  BY SeedTypes DEF Events!Init
<1>2. \A n \in Events!CoreTopics : topics[n] # <<>>
  <2> HIDE DEF Events!Main, Events!Retry, Events!Dead
  <2> QED BY <1>1, CoreNames
<1>3. replays \in Seq(Events!ProjectionModel) BY DEF Events!Init
<1> QED BY <1>2, <1>3, SeedTypes, NoCommandTyped DEF Events!Init, Events!TypeOK,
     Events!Stages

LEMMA TypeTopics ==
    ASSUME Events!TypeOK, NEW n \in Events!Topics,
           (\E p : Events!HandleCreateTopic(n, p)) \/ Events!HandleDeleteTopic(n)
    PROVE  Events!TypeOK' /\ \A m \in Events!CoreTopics : topics'[m][1] = topics[m][1]
<1>1. PICK c \in Seq(Nat) :
        /\ topics' = [topics EXCEPT ![n] = c]
        /\ n \in Events!CoreTopics => c # <<>> /\ c[1] = topics[n][1]
  <2>1. topics[n] \in Seq(Nat) BY DEF Events!TypeOK, Events!TopicMetadata
  <2>2. CASE \E p : Events!HandleCreateTopic(n, p)
    <3>1. PICK c : c = Append(topics[n], 0) OBVIOUS
    <3>2. c \in Seq(Nat) /\ c # <<>> BY <2>1, <3>1
    <3>3. topics[n] # <<>> => c[1] = topics[n][1] BY <2>1, <3>1
    <3>4. n \in Events!CoreTopics => topics[n] # <<>> BY DEF Events!TypeOK
    <3> QED BY <2>2, <3>1, <3>2, <3>3, <3>4 DEF Events!HandleCreateTopic
  <2>3. CASE Events!HandleDeleteTopic(n)
    <3>1. <<>> \in Seq(Nat) OBVIOUS
    <3> QED BY <2>3, <3>1 DEF Events!HandleDeleteTopic
  <2> QED BY <2>2, <2>3
<1>2. topics \in [Events!Topics -> Seq(Nat)] /\ Events!CoreTopics \subseteq Events!Topics
      /\ \A m \in Events!CoreTopics : topics[m] # <<>>
  BY CoreNames DEF Events!TypeOK, Events!TopicMetadata
<1>3. topics' \in [Events!Topics -> Seq(Nat)] BY <1>1, <1>2
<1>4. \A m \in Events!CoreTopics : topics'[m] # <<>> /\ topics'[m][1] = topics[m][1]
  BY <1>1, <1>2
<1>5. UNCHANGED <<events, snapshots, schemas, retryQueue, dlq, purged, readModel,
                  processingState, command, replays, rebuilt>>
  BY DEF Events!HandleCreateTopic, Events!HandleDeleteTopic, Events!queues,
       Events!commands
<1> QED BY <1>3, <1>4, <1>5 DEF Events!TypeOK, Events!TopicMetadata

LEMMA TypeCounted ==
    ASSUME Events!TypeOK, NEW name \in Events!CoreTopics,
           NEW n \in Nat, topics' = Events!Counted(name, n)
    PROVE  /\ topics' \in [Events!Topics -> Seq(Events!TopicMetadata)]
           /\ \A m \in Events!CoreTopics : topics'[m] # <<>>
           /\ topics'[name][1] = topics[name][1] + n
           /\ \A m \in Events!CoreTopics \ {name} : topics'[m] = topics[m]
<1>1. EventTopics BY DEF Events!TypeOK, EventTopics, Events!TopicMetadata
<1>2. EventTopics' /\ topics'[name][1] = topics[name][1] + n
      /\ \A m \in Events!CoreTopics \ {name} : topics'[m] = topics[m]
  BY <1>1, CountedCounts
<1> QED BY <1>2 DEF EventTopics, Events!TopicMetadata

LEMMA TypeCommands ==
    ASSUME Events!TypeOK,
           \/ \E s \in NewSchemas : Events!HandleRegisterSchema(s)
           \/ \E t \in Transactions, f \in Forms : Events!HandleDispatchCommand(t, f)
           \/ Events!Validate \/ Events!RefuseDuplicate \/ Events!Publish
    PROVE  Events!TypeOK'
<1>1. ASSUME NEW s \in NewSchemas, Events!HandleRegisterSchema(s) PROVE Events!TypeOK'
  <2>1. s \in Events!SchemaItem BY EA DEF Events!EventAssumption
  <2>2. schemas' \in Seq(Events!SchemaItem) BY <1>1, <2>1 DEF Events!HandleRegisterSchema,
       Events!TypeOK
  <2> QED BY <1>1, <2>2 DEF Events!HandleRegisterSchema, Events!TypeOK, Events!queues,
       Events!commands
<1>2. ASSUME NEW t \in Transactions, NEW f \in Forms, Events!HandleDispatchCommand(t, f)
      PROVE  Events!TypeOK'
  <2>1. Events!Streams \subseteq Transactions BY StreamTyped
  <2>2. command' \in Events!Command BY <1>2, <2>1 DEF Events!HandleDispatchCommand,
       Events!Command
  <2>3. processingState' \in Events!Stages BY <1>2 DEF Events!HandleDispatchCommand,
       Events!Stages
  <2> QED BY <1>2, <2>2, <2>3 DEF Events!HandleDispatchCommand, Events!TypeOK,
       Events!queues
<1>3. CASE Events!Validate \/ Events!RefuseDuplicate \/ Events!Publish
  <2>1. processingState' \in Events!Stages BY <1>3 DEF Events!Validate,
       Events!RefuseDuplicate, Events!Publish, Events!Stages
  <2> QED BY <1>3, <2>1 DEF Events!Validate, Events!RefuseDuplicate, Events!Publish,
       Events!TypeOK, Events!queues
<1> QED BY <1>1, <1>2, <1>3

LEMMA CommandFields ==
    ASSUME Events!TypeOK
    PROVE  /\ command.id \in Transactions /\ command.form \in Forms
           /\ Events!Verdict(command.form) \in Events!Outcomes
BY FormTypes DEF Events!TypeOK, Events!Command

LEMMA AppendFacts ==
    ASSUME Events!TypeOK, Events!AppendEvents, processingState = "appending" => command.known = Events!Streams
    PROVE  /\ events' \in Seq(Events!EventItem) /\ Len(events') = Len(events) + 2
           /\ command.id \notin Events!Streams /\ Events!Streams' = Events!Streams \cup {command.id}
           /\ Tells(events', command.id, Events!Verdict(command.form))
           /\ \A u, z : u \in Events!Streams /\ Tells(events, u, z) => Tells(events', u, z)
<1>1. PICK t, s : t = command.id /\ s = Events!Verdict(command.form) OBVIOUS
<1>2. t \in Transactions /\ s \in Events!Outcomes BY <1>1, CommandFields
<1>3. command.id \notin Events!Streams BY DEF Events!AppendEvents
<1>4. events' = events \o <<Events!Created(t, s), Events!Processed(t, s)>>
  BY <1>1 DEF Events!AppendEvents
<1>5. events \in Seq(Events!EventItem) /\ t \notin Ids(events)
  BY <1>1, <1>3, LogFacts DEF Events!TypeOK
<1>6. PICK log, more : log = events /\ more = events' OBVIOUS
<1>8. log \in Seq(Events!EventItem) /\ t \notin Ids(log)
      /\ more = log \o <<Events!Created(t, s), Events!Processed(t, s)>>
  BY <1>4, <1>5, <1>6
<1>9. Grown(log, more, t, s) BY <1>2, <1>8, Appended
<1>7. Events!Streams = Ids(events) /\ Events!Streams' = Ids(events') BY LogFacts DEF Ids
<1>10. Events!Streams' = Events!Streams \cup {t} /\ Events!Streams = Ids(log)
  BY <1>6, <1>7, <1>9 DEF Grown
<1>11. events' \in Seq(Events!EventItem) /\ Len(events') = Len(events) + 2
  BY <1>6, <1>9 DEF Grown
<1>12. Tells(events', t, s) BY <1>6, <1>9 DEF Grown
<1>13. \A u, z : u \in Events!Streams /\ Tells(events, u, z) => Tells(events', u, z)
  BY <1>6, <1>9, <1>10 DEF Grown
<1> QED BY <1>1, <1>3, <1>10, <1>11, <1>12, <1>13

LEMMA TypePipeline ==
    ASSUME Events!TypeOK, processingState = "appending" => command.known = Events!Streams,
           Events!AppendEvents \/ Events!RouteToRetry \/ Events!Project
    PROVE  Events!TypeOK'
<1>1. CASE Events!AppendEvents
  <2>1. topics' = Events!Counted(Events!Main, 2) /\ Events!Main \in Events!CoreTopics
    BY <1>1, CoreNames DEF Events!AppendEvents
  <2>2. topics' \in [Events!Topics -> Seq(Events!TopicMetadata)] /\ \A m \in Events!CoreTopics : topics'[m] # <<>>
    BY <2>1, TypeCounted
  <2>3. events' \in Seq(Events!EventItem) BY <1>1, AppendFacts
  <2>4. processingState' \in Events!Stages BY <1>1 DEF Events!AppendEvents, Events!Stages
  <2> QED BY <1>1, <2>2, <2>3, <2>4 DEF Events!AppendEvents, Events!TypeOK, Events!queues
<1>2. CASE Events!RouteToRetry
  <2>1. topics' = Events!Counted(Events!Retry, 1) /\ Events!Retry \in Events!CoreTopics
    BY <1>2, CoreNames DEF Events!RouteToRetry
  <2>2. topics' \in [Events!Topics -> Seq(Events!TopicMetadata)] /\ \A m \in Events!CoreTopics : topics'[m] # <<>>
    BY <2>1, TypeCounted
  <2>3. [id |-> command.id, retryCount |-> 1] \in Events!RetryItem
    BY CommandFields DEF Events!RetryItem
  <2>4. retryQueue' \subseteq Events!RetryItem BY <1>2, <2>3 DEF Events!RouteToRetry,
       Events!TypeOK
  <2>5. processingState' \in Events!Stages BY <1>2 DEF Events!RouteToRetry, Events!Stages
  <2> QED BY <1>2, <2>2, <2>4, <2>5 DEF Events!RouteToRetry, Events!TypeOK
<1>3. CASE Events!Project
  <2>1. Events!Row(command.id, 2, Events!Verdict(command.form)) \in Events!ProjectionModel
    BY CommandFields, EventsTyped
  <2>2. readModel' \in [Transactions -> Seq(Events!ProjectionModel)]
    BY <1>3, <2>1, InsertedTyped DEF Events!Project
  <2>3. processingState' \in Events!Stages BY <1>3 DEF Events!Project, Events!Stages
  <2> QED BY <1>3, <2>2, <2>3 DEF Events!Project, Events!TypeOK, Events!queues
<1> QED BY <1>1, <1>2, <1>3

LEMMA RetryFacts ==
    /\ \A r \in Events!RetryItem : r.id \in Transactions /\ r.retryCount \in 1..3
    /\ \A r \in Events!RetryItem : Events!Rescheduled(r).id = r.id
    /\ \A r \in Events!RetryItem : ~Events!Exhausted(r) => Events!Rescheduled(r) \in Events!RetryItem
<1>1. \A r \in Events!RetryItem : r.id \in Transactions /\ r.retryCount \in 1..3
  BY DEF Events!RetryItem
<1>2. ASSUME NEW r \in Events!RetryItem
      PROVE  Events!Rescheduled(r) = [id |-> r.id, retryCount |-> r.retryCount + 1]
  BY <1>2 DEF Events!RetryItem, Events!Rescheduled
<1>3. ASSUME NEW r \in Events!RetryItem PROVE Events!Rescheduled(r).id = r.id BY <1>2
<1>4. ASSUME NEW r \in Events!RetryItem, ~Events!Exhausted(r)
      PROVE  Events!Rescheduled(r) \in Events!RetryItem
  <2>1. r.retryCount \in 1..3 /\ r.retryCount < 3
    BY <1>1, <1>4 DEF Events!Exhausted, Events!MaxRetries
  <2>2. r.retryCount + 1 \in 1..3 BY <2>1
  <2> QED BY <1>1, <1>2, <2>2 DEF Events!RetryItem
<1> QED BY <1>1, <1>3, <1>4

-----------------------------------------------------------------------------
(* The inductive invariant *)

\* Every row, snapshot and rebuild is of a stream and says what it folds to.
RowsTell ==
    /\ \A t \in Transactions : \A i \in DOMAIN readModel[t] :
          t \in Events!Streams /\ readModel[t][i] = Events!Folded(t)
    /\ \A s \in snapshots : s.id \in Events!Streams /\ s = Events!Folded(s.id)
    /\ \A i \in DOMAIN replays : replays[i].id \in Events!Streams
    /\ \A i \in DOMAIN replays : \A t \in Events!Streams :
          replays[i].id = t => replays[i] = Events!Folded(t)

\* What makes a second row is known before it is made.
CrossingsTold ==
    /\ \A t \in Transactions : Len(readModel[t]) > 1 => t \in rebuilt
    /\ \A t \in Transactions : Events!Shown(t) /\ Events!Rebuilding(t) => t \in rebuilt
    /\ \A i, j \in DOMAIN replays :
          i # j /\ replays[i].id = replays[j].id => replays[i].id \in rebuilt
    /\ \A t \in Transactions :
          Events!Projecting(t) /\ (Events!Shown(t) \/ Events!Rebuilding(t)) => t \in rebuilt

\* Before it appends, the command knows every stream; once it appended, its
\* stream is complete and in neither queue.
CommandTells ==
    /\ processingState \in {"validating", "appending"} => command.known = Events!Streams
    /\ \A t : Events!Projecting(t) =>
          /\ t \in Events!Streams /\ t \notin dlq /\ \A r \in retryQueue : r.id # t
          /\ Tells(events, t, Events!Verdict(command.form))

\* An event is in one queue, and there once.
QueuesTell ==
    /\ \A r \in retryQueue :
          /\ r.id \in Events!Streams /\ r.id \notin dlq
          /\ \A q \in retryQueue : q.id = r.id => q = r
    /\ dlq \subseteq Events!Streams
    /\ IsFiniteSet(retryQueue)

\* The counters of the topics account for every event and failure.
CountsTell ==
    /\ IsFiniteSet(dlq) /\ IsFiniteSet(purged)
    /\ Events!Count(Events!Main) = Len(events)
    /\ Events!Count(Events!Retry) = Cardinality(retryQueue) + Events!Count(Events!Dead)
    /\ Events!Count(Events!Dead) >= Cardinality(dlq) + Cardinality(purged)

\* What was appended is shown, under way, queued or purged.
NoneLost ==
    \A t \in Events!Streams :
       \/ Events!Shown(t) \/ Events!Rebuilding(t) \/ Events!Projecting(t)
       \/ t \in dlq \/ t \in purged \/ \E r \in retryQueue : r.id = t

\* Facts is inductive alone; the other three parts are shown from it.
Facts == Events!TypeOK /\ StreamsTell /\ RowsTell /\ CommandTells /\ QueuesTell
EventInv == Facts /\ CrossingsTold /\ CountsTell /\ NoneLost

-----------------------------------------------------------------------------
(* The start, and coming back to the view *)

LEMMA InitFacts ==
    ASSUME Events!Init
    PROVE  /\ events \in Seq(Events!EventItem) /\ Events!Streams = Events!Range(SeedOrder)
           /\ \A t \in Events!Streams : /\ Tells(events, t, "APPROVED")
                                 /\ Events!Folded(t) = Events!Row(t, 2, "APPROVED")
           /\ \A t \in Transactions :
                 /\ t \in Events!Streams => readModel[t] = <<Events!Row(t, 2, "APPROVED")>>
                 /\ t \notin Events!Streams => readModel[t] = <<>>
           /\ SeedOrder[1] \in Events!Streams
<1>1. events = Events!SeedEvents BY DEF Events!Init
<1>2. events \in Seq(Events!EventItem) BY <1>1, SeedTypes
<1>3. Events!Streams = Events!Range(SeedOrder) BY <1>1, LogFacts, SeedTells
<1>4. \A t \in Events!Streams : Tells(events, t, "APPROVED") BY <1>1, <1>3, SeedTells
<1>5. \A t \in Events!Streams : Events!Folded(t) = Events!Row(t, 2, "APPROVED")
  BY <1>2, <1>4, FoldTells, LogFacts
<1>6. readModel = Events!SeedRows BY DEF Events!Init
<1>7. SeedOrder[1] \in Events!Range(SeedOrder) BY SeedsTyped DEF Events!Range
<1>8. \A t \in Transactions :
         /\ t \in Events!Streams => readModel[t] = <<Events!Row(t, 2, "APPROVED")>>
         /\ t \notin Events!Streams => readModel[t] = <<>>
  BY <1>3, <1>6 DEF Events!SeedRows
<1> QED BY <1>2, <1>3, <1>4, <1>5, <1>7, <1>8

LEMMA EventInitInv == Events!Init => EventInv
<1> SUFFICES ASSUME Events!Init PROVE EventInv OBVIOUS
<1>0. Events!TypeOK BY EventTypeInit
<1>1. StreamsTell BY InitFacts DEF StreamsTell, Events!Outcomes
<1>2. RowsTell
  <2>1. \A t \in Transactions : \A i \in DOMAIN readModel[t] :
          t \in Events!Streams /\ readModel[t][i] = Events!Folded(t)
    <3> TAKE t \in Transactions
    <3>1. CASE t \in Events!Streams
      <4>1. readModel[t] = <<Events!Row(t, 2, "APPROVED")>> BY Zenon, <3>1, InitFacts
      <4>2. Events!Folded(t) = Events!Row(t, 2, "APPROVED") BY Zenon, <3>1, InitFacts
      <4>3. PICK row : row = Events!Row(t, 2, "APPROVED") OBVIOUS
      <4>4. readModel[t] = <<row>> /\ Events!Folded(t) = row BY <4>1, <4>2, <4>3
      <4> QED BY <3>1, <4>4
    <3>2. CASE t \notin Events!Streams
      <4>1. readModel[t] = <<>> BY Zenon, <3>2, InitFacts
      <4> QED BY <4>1
    <3> QED BY <3>1, <3>2
  <2>2. \A s \in snapshots : s.id \in Events!Streams /\ s = Events!Folded(s.id)
    <3>1. snapshots = {Events!Row(SeedOrder[1], 2, "APPROVED")} BY DEF Events!Init
    <3>2. Events!Row(SeedOrder[1], 2, "APPROVED").id = SeedOrder[1] BY DEF Events!Row
    <3> QED BY <3>1, <3>2, InitFacts
  <2>3. DOMAIN replays = {} BY DEF Events!Init
  <2> QED BY <2>1, <2>2, <2>3 DEF RowsTell
<1>3. \A t : ~Events!Projecting(t) BY DEF Events!Projecting, Events!Init
<1>4. CommandTells BY <1>3 DEF CommandTells, Events!Init
<1>5. QueuesTell BY FS_EmptySet DEF QueuesTell, Events!Init
<1>6. CrossingsTold
  <2>1. \A t \in Transactions : ~(Len(readModel[t]) > 1)
    <3> TAKE t \in Transactions
    <3>1. PICK row : row = Events!Row(t, 2, "APPROVED") OBVIOUS
    <3>2. readModel[t] = <<row>> \/ readModel[t] = <<>> BY Zenon, <3>1, InitFacts
    <3>3. Len(<<row>>) = 1 /\ Len(<<>>) = 0 OBVIOUS
    <3>4. Len(readModel[t]) = 1 \/ Len(readModel[t]) = 0 BY Zenon, <3>2, <3>3
    <3>5. \A n : n = 1 \/ n = 0 => ~(n > 1) OBVIOUS
    <3> QED BY Zenon, <3>4, <3>5
  <2>2. \A t : ~Events!Rebuilding(t) /\ DOMAIN replays = {} BY DEF Events!Rebuilding,
       Events!Init
  <2> QED BY <1>3, <2>1, <2>2 DEF CrossingsTold
<1>7. CountsTell
  <2>1. /\ topics[Events!Main][1] = Len(events) /\ topics[Events!Retry][1] = 0 /\ topics[Events!Dead][1] = 0
        /\ retryQueue = {} /\ dlq = {} /\ purged = {}
    BY SeedTypes DEF Events!Init
  <2> QED BY <2>1, FS_EmptySet DEF CountsTell, Events!Count
<1>8. NoneLost
  <2>1. \A t \in Events!Streams : t \in Transactions BY <1>0, StreamTyped
  <2>2. ASSUME NEW t \in Events!Streams PROVE readModel[t] # <<>>
    <3>1. PICK row : row = Events!Row(t, 2, "APPROVED") OBVIOUS
    <3>2. readModel[t] = <<row>> BY Zenon, <2>1, <3>1, InitFacts
    <3> QED BY <3>2
  <2> QED BY <2>2 DEF NoneLost, Events!Shown
<1> QED BY <1>0, <1>1, <1>2, <1>4, <1>5, <1>6, <1>7, <1>8 DEF EventInv, Facts

LEMMA BackInv == Events!Init' => EventInv'
BY EventInitInv, PTL

LEMMA RemountInv == ASSUME Events!Remount PROVE EventInv'
<1>1. Events!Init' BY DEF Events!Remount, Events!Init
<1> QED BY <1>1, BackInv

-----------------------------------------------------------------------------
(* What stays *)

EventSteps == Events!Next /\ ~Events!Remount

LEMMA EventsStep ==
    ASSUME Events!Next \/ UNCHANGED Events!vars
    PROVE  Events!AppendEvents \/ Events!Remount \/ UNCHANGED events
BY DEF Events!Next, Events!vars, Events!HandleCreateTopic, Events!HandleDeleteTopic,
     Events!HandleRegisterSchema,
       Events!HandleDispatchCommand, Events!Validate, Events!RefuseDuplicate,
       Events!Publish, Events!RouteToRetry,
       Events!Project, Events!RetryTick, Events!HandleRedeliverDLQ,
       Events!HandlePurgeDLQ, Events!HandleTakeSnapshot,
       Events!HandleReplayEvents, Events!ReplayEnds

LEMMA StreamsStay ==
    ASSUME Events!TypeOK, CommandTells, [Events!Next]_(Events!vars), ~Events!Remount
    PROVE  /\ events' \in Seq(Events!EventItem)
           /\ Events!Streams \subseteq Events!Streams'
           /\ \A t \in Events!Streams : \A z : Tells(events, t, z) => Tells(events', t, z)
           /\ Events!AppendEvents \/ Events!Streams' = Events!Streams
<1>1. CASE Events!AppendEvents
  <2>1. processingState = "appending" => command.known = Events!Streams
    BY DEF CommandTells
  <2> QED BY <1>1, <2>1, AppendFacts
<1>2. CASE UNCHANGED events BY <1>2 DEF Events!Streams, Events!TypeOK
<1> QED BY <1>1, <1>2, EventsStep

LEMMA FoldedStays ==
    ASSUME Events!TypeOK, StreamsTell, CommandTells, [Events!Next]_(Events!vars), ~Events!Remount, NEW t \in Events!Streams
    PROVE  Events!Folded(t)' = Events!Folded(t)
<1>1. PICK s \in Events!Outcomes : Tells(events, t, s) /\ Events!Folded(t) = Events!Row(t, 2, s)
  BY FoldedRow
<1>2. Tells(events', t, s) /\ events' \in Seq(Events!EventItem) BY <1>1, StreamsStay
<1>3. FoldedIn(events', t) = Events!Row(t, 2, s) BY <1>2, FoldTells
<1> QED BY <1>1, <1>3, LogFacts

LEMMA StreamsStep ==
    ASSUME Events!TypeOK, StreamsTell, CommandTells, [Events!Next]_(Events!vars), ~Events!Remount
    PROVE  StreamsTell'
<1>1. CASE Events!AppendEvents
  <2>1. /\ Events!Streams' = Events!Streams \cup {command.id}
        /\ Tells(events', command.id, Events!Verdict(command.form))
    BY <1>1, AppendFacts DEF CommandTells
  <2>2. Events!Verdict(command.form) \in Events!Outcomes BY CommandFields
  <2>3. \A t \in Events!Streams : \E s \in Events!Outcomes : Tells(events', t, s)
    BY StreamsStay DEF StreamsTell
  <2>4. \A t \in Events!Streams' : \E s \in Events!Outcomes : Tells(events', t, s)
    BY <2>1, <2>2, <2>3
  <2> QED BY <2>4 DEF StreamsTell
<1>2. CASE Events!Streams' = Events!Streams
  <2>1. \A t \in Events!Streams' : \E s \in Events!Outcomes : Tells(events', t, s)
    BY <1>2, StreamsStay DEF StreamsTell
  <2> QED BY <2>1 DEF StreamsTell
<1> QED BY <1>1, <1>2, StreamsStay

\* What a second of the loop does to the sizes of the queues.
LEMMA TickCounts ==
    ASSUME Events!TypeOK, QueuesTell, NEW expired \in SUBSET retryQueue,
           NEW dead, dead = {r \in expired : Events!Exhausted(r)}
    PROVE  IsFiniteSet(dead) /\ Cardinality(dead) \in Nat
<1>1. dead \in SUBSET retryQueue OBVIOUS
<1>2. IsFiniteSet(dead) BY <1>1, FS_Subset DEF QueuesTell
<1> QED BY <1>2, FS_CardinalityType

LEMMA TickSizes ==
    ASSUME Events!TypeOK, QueuesTell, NEW expired \in SUBSET retryQueue,
           NEW dead, dead = {r \in expired : Events!Exhausted(r)},
           NEW left, left = (retryQueue \ expired)
                            \cup {Events!Rescheduled(r) : r \in expired \ dead}
    PROVE  /\ IsFiniteSet(left)
           /\ Cardinality(left) = Cardinality(retryQueue) - Cardinality(dead)
           /\ IsFiniteSet({r.id : r \in dead})
           /\ Cardinality({r.id : r \in dead}) <= Cardinality(dead)
<1>0. IsFiniteSet(retryQueue) /\ retryQueue \subseteq Events!RetryItem BY DEF QueuesTell,
     Events!TypeOK
<1>1. IsFiniteSet(dead) /\ Cardinality(dead) \in Nat BY TickCounts
<1>2. \A r, q \in retryQueue : q.id = r.id => q = r BY DEF QueuesTell
<1> DEFINE stay == retryQueue \ dead
           f == [r \in stay |-> IF r \in expired THEN Events!Rescheduled(r) ELSE r]
<1>3. \A r \in stay : f[r].id = r.id /\ f[r] \in left
  <2> TAKE r \in stay
  <2>1. r \in Events!RetryItem /\ r \in retryQueue BY <1>0
  <2>2. CASE r \in expired
    <3>1. f[r] = Events!Rescheduled(r) BY <2>2
    <3>2. Events!Rescheduled(r) \in left BY <2>2
    <3> QED BY <2>1, <3>1, <3>2, RetryFacts
  <2>3. CASE r \notin expired
    <3>1. f[r] = r BY <2>3
    <3> QED BY <2>1, <2>3, <3>1
  <2> QED BY <2>2, <2>3
<1>4. \A x \in left : \E r \in stay : f[r] = x
  <2> TAKE x \in left
  <2>1. CASE x \in retryQueue \ expired
    <3>1. x \in stay BY <2>1
    <3>2. f[x] = x BY <2>1, <3>1
    <3> QED BY <3>1, <3>2
  <2>2. ASSUME NEW r \in expired \ dead, x = Events!Rescheduled(r)
        PROVE  \E q \in stay : f[q] = x
    <3>1. r \in stay OBVIOUS
    <3>2. f[r] = x BY <2>2, <3>1
    <3> QED BY <3>1, <3>2
  <2> QED BY <2>1, <2>2
<1>5. DOMAIN f = stay OBVIOUS
<1>6. \A a, b \in stay : f[a] = f[b] => a = b
  <2> SUFFICES ASSUME NEW a \in stay, NEW b \in stay, f[a] = f[b] PROVE a = b
    BY Zenon
  <2>1. f[a].id = a.id /\ f[b].id = b.id BY <1>3
  <2>2. a.id = b.id BY <2>1
  <2> QED BY <2>2, <1>2
<1>7. f \in [stay -> left]
  <2> HIDE DEF stay
  <2> QED BY <1>3
<1>8. f \in Bijection(stay, left)
  <2> HIDE DEF f, stay
  <2> QED BY <1>4, <1>5, <1>6, <1>7 DEF Bijection, Injection, IsInjective, Surjection
<1>9. IsFiniteSet(stay) /\ Cardinality(stay) = Cardinality(retryQueue) - Cardinality(dead)
  <2>1. retryQueue \cap dead = dead OBVIOUS
  <2>2. /\ IsFiniteSet(retryQueue \ dead)
        /\ Cardinality(retryQueue \ dead)
             = Cardinality(retryQueue) - Cardinality(retryQueue \cap dead)
    BY <1>0, FS_Difference
  <2> QED BY Zenon, <2>1, <2>2
<1>10. IsFiniteSet(left) /\ Cardinality(left) = Cardinality(stay)
  <2> HIDE DEF f, stay
  <2> QED BY <1>8, <1>9, FS_Bijection DEF ExistsBijection
<1> DEFINE ids == {r.id : r \in dead}
           g == [r \in dead |-> r.id]
<1>11. g \in Surjection(dead, ids) BY DEF Surjection
<1>12. IsFiniteSet(ids) /\ Cardinality(ids) <= Cardinality(dead)
  <2> HIDE DEF g, ids
  <2> QED BY <1>1, <1>11, FS_Surjection
<1> QED BY <1>9, <1>10, <1>12

LEMMA TypeQueues ==
    ASSUME Facts,
           \/ \E expired \in SUBSET retryQueue : Events!RetryTick(expired)
           \/ \E t \in dlq : Events!HandleRedeliverDLQ(t) \/ Events!HandlePurgeDLQ(t)
           \/ \E t \in Events!Streams : Events!HandleTakeSnapshot(t) \/ Events!HandleReplayEvents(t)
           \/ Events!ReplayEnds
    PROVE  Events!TypeOK'
<1>0. Events!TypeOK /\ StreamsTell /\ RowsTell /\ QueuesTell BY DEF Facts
<1>1. ASSUME NEW expired \in SUBSET retryQueue, Events!RetryTick(expired)
      PROVE  Events!TypeOK'
  <2>1. PICK dead : dead = {r \in expired : Events!Exhausted(r)} OBVIOUS
  <2>2. /\ retryQueue' = (retryQueue \ expired)
                          \cup {Events!Rescheduled(r) : r \in expired \ dead}
        /\ dlq' = dlq \cup {r.id : r \in dead}
        /\ topics' = Events!Counted(Events!Dead, Cardinality(dead))
    BY <1>1, <2>1, EventsCounted DEF Events!RetryTick
  <2>3. retryQueue \subseteq Events!RetryItem /\ dlq \subseteq Transactions
    BY <1>0 DEF Events!TypeOK
  <2>4. retryQueue' \subseteq Events!RetryItem
    <3>1. \A r \in expired \ dead : Events!Rescheduled(r) \in Events!RetryItem
      BY <2>1, <2>3, RetryFacts
    <3> QED BY <2>2, <2>3, <3>1
  <2>5. dlq' \subseteq Transactions
    <3>1. \A r \in dead : r.id \in Transactions BY <2>1, <2>3, RetryFacts
    <3> QED BY <2>2, <2>3, <3>1
  <2>6. UNCHANGED <<events, snapshots, schemas, readModel, Events!commands, replays, purged,
                    rebuilt>>
    BY <1>1 DEF Events!RetryTick
  <2>7. topics' \in [Events!Topics -> Seq(Events!TopicMetadata)] /\ \A m \in Events!CoreTopics : topics'[m] # <<>>
    BY <1>0, <2>1, <2>2, CoreNames, TypeCounted, TickCounts
  <2> QED BY <1>0, <2>4, <2>5, <2>6, <2>7 DEF Events!TypeOK, Events!commands
<1>2. ASSUME NEW t \in dlq, Events!HandleRedeliverDLQ(t) PROVE Events!TypeOK'
  <2>1. t \in Events!Streams BY <1>0 DEF QueuesTell
  <2>2. PICK p : p = Events!Row(t, 2, Events!Folded(t).status) OBVIOUS
  <2>3. p = Events!Folded(t) /\ p \in Events!ProjectionModel /\ t \in Transactions
    BY <1>0, <2>1, <2>2, FoldedRow
  <2>4. readModel' \in [Transactions -> Seq(Events!ProjectionModel)]
    <3>1. CASE Events!Shown(t)
      <4>1. PICK c : c = [i \in DOMAIN readModel[t] |-> p] OBVIOUS
      <4>2. readModel[t] \in Seq(Events!ProjectionModel) BY <1>0, <2>3 DEF Events!TypeOK
      <4>3. c \in Seq(Events!ProjectionModel) BY <2>3, <4>1, <4>2
      <4>4. readModel' = [readModel EXCEPT ![t] = c]
        BY <1>2, <2>2, <3>1, <4>1 DEF Events!HandleRedeliverDLQ
      <4> QED BY <1>0, <4>3, <4>4 DEF Events!TypeOK
    <3>2. CASE ~Events!Shown(t)
      <4>1. readModel' = Events!Inserted(p)
        BY <1>2, <2>2, <3>2 DEF Events!HandleRedeliverDLQ
      <4> QED BY <1>0, <2>3, <4>1, InsertedTyped
    <3> QED BY <3>1, <3>2
  <2>5. dlq' \subseteq Transactions /\ rebuilt' \subseteq Transactions
    BY <1>0, <1>2, <2>3 DEF Events!HandleRedeliverDLQ, Events!TypeOK
  <2>6. UNCHANGED <<events, snapshots, schemas, topics, retryQueue, purged,
                    Events!commands, replays>>
    BY <1>2 DEF Events!HandleRedeliverDLQ
  <2> QED BY <1>0, <2>4, <2>5, <2>6 DEF Events!TypeOK, Events!commands
<1>3. ASSUME NEW t \in dlq, Events!HandlePurgeDLQ(t) PROVE Events!TypeOK'
  BY <1>0, <1>3 DEF Events!HandlePurgeDLQ, Events!TypeOK, Events!commands
<1>4. ASSUME NEW t \in Events!Streams, Events!HandleTakeSnapshot(t) PROVE Events!TypeOK'
  <2>1. Events!Folded(t) \in Events!SnapshotItem BY <1>0, FoldedRow
  <2> QED BY <1>0, <1>4, <2>1 DEF Events!HandleTakeSnapshot, Events!TypeOK,
       Events!queues, Events!commands
<1>5. ASSUME NEW t \in Events!Streams, Events!HandleReplayEvents(t) PROVE Events!TypeOK'
  <2>1. Events!Folded(t) \in Events!ProjectionModel /\ t \in Transactions
    BY <1>0, FoldedRow
  <2>2. <<>> \in Seq(Events!ProjectionModel) OBVIOUS
  <2>3. readModel' \in [Transactions -> Seq(Events!ProjectionModel)]
    BY <1>0, <1>5, <2>1, <2>2 DEF Events!HandleReplayEvents, Events!TypeOK
  <2>4. replays' \in Seq(Events!ProjectionModel)
    BY <1>0, <1>5, <2>1 DEF Events!HandleReplayEvents,
       Events!TypeOK
  <2>5. rebuilt' \subseteq Transactions BY <1>0, <1>5, <2>1 DEF Events!HandleReplayEvents,
       Events!TypeOK
  <2> QED BY <1>0, <1>5, <2>3, <2>4, <2>5 DEF Events!HandleReplayEvents, Events!TypeOK,
       Events!queues, Events!commands
<1>6. CASE Events!ReplayEnds
  <2>1. replays \in Seq(Events!ProjectionModel) /\ replays # <<>>
    BY <1>0, <1>6 DEF Events!TypeOK,
       Events!ReplayEnds
  <2>2. Head(replays) \in Events!ProjectionModel /\ Tail(replays) \in Seq(Events!ProjectionModel)
    BY <2>1
  <2>3. readModel' \in [Transactions -> Seq(Events!ProjectionModel)]
    BY <1>0, <1>6, <2>2, InsertedTyped DEF Events!ReplayEnds
  <2> QED BY <1>0, <1>6, <2>2, <2>3 DEF Events!ReplayEnds, Events!TypeOK,
       Events!queues, Events!commands
<1> QED BY <1>1, <1>2, <1>3, <1>4, <1>5, <1>6

LEMMA EventTypeStep ==
    ASSUME Facts, [Events!Next]_(Events!vars), ~Events!Remount PROVE Events!TypeOK'
<1>1. Events!TypeOK /\ (processingState = "appending" => command.known = Events!Streams)
  BY DEF Facts, CommandTells
<1>2. CASE UNCHANGED Events!vars BY <1>1, <1>2 DEF Events!vars, Events!TypeOK,
     Events!queues, Events!commands
<1>3. \A n \in NewTopics : n \in Events!Topics BY DEF Events!Topics
<1>4. CASE Events!Next
  BY <1>1, <1>3, <1>4, TypeTopics, TypeCommands, TypePipeline, TypeQueues DEF Events!Next
<1> QED BY <1>2, <1>4

-----------------------------------------------------------------------------
(* Rows, snapshots and rebuilds *)

LEMMA InsertedRows ==
    ASSUME Events!TypeOK, NEW t \in Transactions,
           NEW r \in Events!ProjectionModel, r.id = t
    PROVE  /\ \A u \in Transactions \ {t} : Events!Inserted(r)[u] = readModel[u]
           /\ Len(Events!Inserted(r)[t]) = Len(readModel[t]) + 1 /\ Events!Inserted(r)[t] # <<>>
           /\ \A i \in DOMAIN Events!Inserted(r)[t] :
                 \/ Events!Inserted(r)[t][i] = r
                 \/ \E j \in DOMAIN readModel[t] : Events!Inserted(r)[t][i] = readModel[t][j]
<1>1. readModel[t] \in Seq(Events!ProjectionModel) BY DEF Events!TypeOK
<1>2. PICK old \in Seq(Events!ProjectionModel) : old = readModel[t] BY <1>1
<1>3. PICK c : c = <<r>> \o old OBVIOUS
<1>4. Events!Inserted(r) = [readModel EXCEPT ![t] = c] BY <1>2, <1>3 DEF Events!Inserted
<1>5. readModel \in [Transactions -> Seq(Events!ProjectionModel)] BY DEF Events!TypeOK
<1>6. Events!Inserted(r)[t] = c /\ \A u \in Transactions \ {t} : Events!Inserted(r)[u] = readModel[u]
  BY <1>4, <1>5
<1>7. Len(c) = Len(old) + 1 /\ c # <<>> /\ c \in Seq(Events!ProjectionModel) BY <1>3
<1>8. c[1] = r /\ \A i \in 1..Len(old) : c[i + 1] = old[i] BY <1>3
<1>9. ASSUME NEW i \in DOMAIN c PROVE c[i] = r \/ \E j \in DOMAIN old : c[i] = old[j]
  <2>1. CASE i = 1 BY <1>8, <2>1
  <2>2. CASE i # 1
    <3>1. Len(old) \in Nat /\ DOMAIN c = 1..(Len(old) + 1) BY <1>7
    <3>2. i - 1 \in 1..Len(old) /\ i = (i - 1) + 1 BY <2>2, <3>1
    <3>3. c[i] = old[i - 1] BY <1>8, <3>2
    <3> QED BY <3>2, <3>3
  <2> QED BY <2>1, <2>2
<1>10. \A i \in DOMAIN c : c[i] = r \/ \E j \in DOMAIN old : c[i] = old[j] BY <1>9
<1>11. Len(Events!Inserted(r)[t]) = Len(readModel[t]) + 1 /\ Events!Inserted(r)[t] # <<>>
  BY <1>2, <1>6, <1>7
<1>12. \A i \in DOMAIN Events!Inserted(r)[t] :
          \/ Events!Inserted(r)[t][i] = r
          \/ \E j \in DOMAIN readModel[t] : Events!Inserted(r)[t][i] = readModel[t][j]
  BY Zenon, <1>2, <1>6, <1>10
<1> QED BY <1>6, <1>11, <1>12

\* What is inserted is what the stream of the row says.
LEMMA ProjectInserts ==
    ASSUME Facts, Events!Project
    PROVE  /\ command.id \in Events!Streams /\ command.id \in Transactions
           /\ readModel' = Events!Inserted(Events!Folded(command.id))
           /\ Events!Projecting(command.id)
<1>1. Events!TypeOK /\ CommandTells BY DEF Facts
<1>2. Events!Projecting(command.id) BY DEF Events!Project, Events!Projecting
<1>3. command.id \in Events!Streams /\ Tells(events, command.id, Events!Verdict(command.form))
  BY <1>1, <1>2 DEF CommandTells
<1>4. events \in Seq(Events!EventItem) BY <1>1 DEF Events!TypeOK
<1>5. Events!Folded(command.id) = Events!Row(command.id, 2, Events!Verdict(command.form))
  BY <1>3, <1>4, FoldTells, LogFacts
<1> QED BY <1>1, <1>2, <1>3, <1>5, CommandFields DEF Events!Project

LEMMA ReplayEndsInserts ==
    ASSUME Facts, Events!ReplayEnds
    PROVE  /\ replays \in Seq(Events!ProjectionModel) /\ 1 \in DOMAIN replays
           /\ replays[1].id \in Events!Streams /\ replays[1].id \in Transactions
           /\ replays[1] = Events!Folded(replays[1].id)
           /\ readModel' = Events!Inserted(Events!Folded(replays[1].id))
           /\ Events!Rebuilding(replays[1].id)
<1>1. Events!TypeOK /\ RowsTell BY DEF Facts
<1>2. replays \in Seq(Events!ProjectionModel) /\ replays # <<>> BY <1>1 DEF Events!TypeOK,
     Events!ReplayEnds
<1>3. 1 \in DOMAIN replays /\ Head(replays) = replays[1] BY <1>2
<1>4. replays[1].id \in Events!Streams BY <1>1, <1>3 DEF RowsTell
<1>5. PICK t \in Events!Streams : t = replays[1].id BY <1>4
<1>6. replays[1] = Events!Folded(t) BY <1>1, <1>3, <1>5 DEF RowsTell
<1>7. t \in Transactions BY <1>1, StreamTyped
<1>8. Events!Rebuilding(t) BY <1>3, <1>5 DEF Events!Rebuilding
<1>9. readModel' = Events!Inserted(Events!Folded(t)) BY <1>3, <1>6 DEF Events!ReplayEnds
<1> QED BY <1>2, <1>3, <1>5, <1>6, <1>7, <1>8, <1>9

LEMMA RedeliverInserts ==
    ASSUME Facts, NEW t \in dlq, Events!HandleRedeliverDLQ(t)
    PROVE  /\ t \in Events!Streams /\ t \in Transactions
           /\ ~Events!Shown(t) => readModel' = Events!Inserted(Events!Folded(t))
           /\ Events!Shown(t) => /\ \A u \in Transactions \ {t} : readModel'[u] = readModel[u]
                          /\ Len(readModel'[t]) = Len(readModel[t])
                          /\ readModel'[t] # <<>>
                          /\ \A i \in DOMAIN readModel'[t] : readModel'[t][i] = Events!Folded(t)
<1>1. Events!TypeOK /\ QueuesTell /\ StreamsTell BY DEF Facts
<1>2. t \in Events!Streams BY <1>1 DEF QueuesTell
<1>3. t \in Transactions /\ Events!Row(t, 2, Events!Folded(t).status) = Events!Folded(t)
  BY <1>1, <1>2, FoldedRow
<1>4. ~Events!Shown(t) => readModel' = Events!Inserted(Events!Folded(t))
  BY <1>3 DEF Events!HandleRedeliverDLQ
<1>5. ASSUME Events!Shown(t)
      PROVE  /\ \A u \in Transactions \ {t} : readModel'[u] = readModel[u]
             /\ Len(readModel'[t]) = Len(readModel[t]) /\ readModel'[t] # <<>>
             /\ \A i \in DOMAIN readModel'[t] : readModel'[t][i] = Events!Folded(t)
  <2>1. PICK old, p : old = readModel[t] /\ p = Events!Folded(t) OBVIOUS
  <2>2. old \in Seq(Events!ProjectionModel) /\ old # <<>>
    BY <1>1, <1>3, <1>5, <2>1 DEF Events!TypeOK, Events!Shown
  <2>3. PICK c : c = [i \in DOMAIN old |-> p] OBVIOUS
  <2>4. readModel' = [readModel EXCEPT ![t] = c]
    BY <1>3, <1>5, <2>1, <2>3 DEF Events!HandleRedeliverDLQ
  <2>5. readModel \in [Transactions -> Seq(Events!ProjectionModel)]
    BY <1>1 DEF Events!TypeOK
  <2>6. readModel'[t] = c /\ \A u \in Transactions \ {t} : readModel'[u] = readModel[u]
    BY <1>3, <2>4, <2>5
  <2>7. Len(old) \in Nat /\ Len(old) > 0 /\ c = [i \in 1..Len(old) |-> p] BY <2>2, <2>3
  <2>8. Len(c) = Len(old) /\ c # <<>> BY <2>7
  <2>9. \A i \in DOMAIN c : c[i] = p BY <2>7
  <2> QED BY <2>1, <2>6, <2>8, <2>9
<1> QED BY Zenon, <1>2, <1>3, <1>4, <1>5

LEMMA ModelStep ==
    ASSUME [Events!Next]_(Events!vars), ~Events!Remount
    PROVE  \/ Events!Project \/ Events!ReplayEnds \/ \E t \in dlq : Events!HandleRedeliverDLQ(t)
           \/ \E t \in Events!Streams : Events!HandleReplayEvents(t)
           \/ UNCHANGED readModel
BY DEF Events!Next, Events!vars, Events!HandleCreateTopic, Events!HandleDeleteTopic,
     Events!HandleRegisterSchema,
       Events!HandleDispatchCommand, Events!Validate, Events!RefuseDuplicate,
       Events!AppendEvents, Events!Publish,
       Events!RouteToRetry, Events!RetryTick, Events!HandlePurgeDLQ,
       Events!HandleTakeSnapshot

RowsKept(new) ==
    \A t \in Transactions : \A i \in DOMAIN new[t] :
       \/ \E j \in DOMAIN readModel[t] : new[t][i] = readModel[t][j]
       \/ t \in Events!Streams /\ new[t][i] = Events!Folded(t)

LEMMA InsertedKeeps ==
    ASSUME Facts, NEW t \in Events!Streams
    PROVE  RowsKept(Events!Inserted(Events!Folded(t)))
<1>1. Events!TypeOK /\ StreamsTell BY DEF Facts
<1>2. t \in Transactions /\ Events!Folded(t) \in Events!ProjectionModel /\ Events!Folded(t).id = t
  BY <1>1, FoldedRow
<1>3. PICK new : new = Events!Inserted(Events!Folded(t)) OBVIOUS
<1>4. /\ \A u \in Transactions \ {t} : new[u] = readModel[u]
      /\ \A i \in DOMAIN new[t] :
            \/ new[t][i] = Events!Folded(t)
            \/ \E j \in DOMAIN readModel[t] : new[t][i] = readModel[t][j]
  BY <1>1, <1>2, <1>3, InsertedRows
<1>5. RowsKept(new)
  <2> SUFFICES ASSUME NEW u \in Transactions, NEW i \in DOMAIN new[u]
               PROVE  \/ \E j \in DOMAIN readModel[u] : new[u][i] = readModel[u][j]
                      \/ u \in Events!Streams /\ new[u][i] = Events!Folded(u)
    BY DEF RowsKept
  <2>1. CASE u = t BY <1>4, <2>1
  <2>2. CASE u # t BY <1>4, <2>2
  <2> QED BY <2>1, <2>2
<1> QED BY <1>3, <1>5

LEMMA RowsKeep ==
    ASSUME Facts, [Events!Next]_(Events!vars), ~Events!Remount
    PROVE  RowsKept(readModel')
<1>0. Events!TypeOK BY DEF Facts
<1>1. CASE Events!Project BY <1>1, ProjectInserts, InsertedKeeps
<1>2. CASE Events!ReplayEnds BY <1>2, ReplayEndsInserts, InsertedKeeps
<1>3. ASSUME NEW t \in dlq, Events!HandleRedeliverDLQ(t) PROVE RowsKept(readModel')
  <2>1. CASE ~Events!Shown(t) BY <1>3, <2>1, RedeliverInserts, InsertedKeeps
  <2>2. CASE Events!Shown(t)
    <3> SUFFICES ASSUME NEW u \in Transactions, NEW i \in DOMAIN readModel'[u]
                 PROVE  \/ \E j \in DOMAIN readModel[u] : readModel'[u][i] = readModel[u][j]
                        \/ u \in Events!Streams /\ readModel'[u][i] = Events!Folded(u)
      BY DEF RowsKept
    <3>1. /\ t \in Events!Streams
          /\ \A v \in Transactions \ {t} : readModel'[v] = readModel[v]
          /\ \A k \in DOMAIN readModel'[t] : readModel'[t][k] = Events!Folded(t)
      BY <1>3, <2>2, RedeliverInserts
    <3> QED BY <3>1
  <2> QED BY <2>1, <2>2
<1>4. ASSUME NEW t \in Events!Streams, Events!HandleReplayEvents(t)
      PROVE  RowsKept(readModel')
  <2>1. readModel' = [readModel EXCEPT ![t] = <<>>] BY <1>4 DEF Events!HandleReplayEvents
  <2>2. readModel \in [Transactions -> Seq(Events!ProjectionModel)]
    BY <1>0 DEF Events!TypeOK
  <2>3. \A u \in Transactions : u # t => readModel'[u] = readModel[u] BY <2>1, <2>2
  <2>4. t \in Transactions => readModel'[t] = <<>> BY <2>1, <2>2
  <2>5. DOMAIN <<>> = {} OBVIOUS
  <2> QED BY <2>3, <2>4, <2>5 DEF RowsKept
<1>5. CASE UNCHANGED readModel BY <1>5 DEF RowsKept
<1> QED BY <1>1, <1>2, <1>3, <1>4, <1>5, ModelStep

LEMMA ReplaysStep ==
    ASSUME [Events!Next]_(Events!vars), ~Events!Remount
    PROVE  Events!ReplayEnds \/ (\E t \in Events!Streams : Events!HandleReplayEvents(t)) \/ UNCHANGED replays
BY DEF Events!Next, Events!vars, Events!HandleCreateTopic, Events!HandleDeleteTopic,
     Events!HandleRegisterSchema,
       Events!HandleDispatchCommand, Events!Validate, Events!RefuseDuplicate,
       Events!AppendEvents, Events!Publish,
       Events!RouteToRetry, Events!Project, Events!RetryTick,
       Events!HandleRedeliverDLQ, Events!HandlePurgeDLQ,
       Events!HandleTakeSnapshot

LEMMA ReplaysKeep ==
    ASSUME Facts, [Events!Next]_(Events!vars), ~Events!Remount
    PROVE  \A i \in DOMAIN replays' :
              \/ \E j \in DOMAIN replays : replays'[i] = replays[j]
              \/ \E t \in Events!Streams : replays'[i] = Events!Folded(t)
<1>0. replays \in Seq(Events!ProjectionModel) BY DEF Facts, Events!TypeOK
<1>1. CASE Events!ReplayEnds
  <2>1. replays # <<>> /\ replays' = Tail(replays) BY <1>1 DEF Events!ReplayEnds
  <2>2. ASSUME NEW i \in DOMAIN replays'
        PROVE  i + 1 \in DOMAIN replays /\ replays'[i] = replays[i + 1]
    BY <1>0, <2>1
  <2> QED BY <2>2
<1>2. ASSUME NEW t \in Events!Streams, Events!HandleReplayEvents(t)
      PROVE  \A i \in DOMAIN replays' :
                \/ \E j \in DOMAIN replays : replays'[i] = replays[j]
                \/ replays'[i] = Events!Folded(t)
  <2>1. PICK f : f = Events!Folded(t) OBVIOUS
  <2>2. replays' = Append(replays, f) BY <1>2, <2>1 DEF Events!HandleReplayEvents
  <2>3. ASSUME NEW i \in DOMAIN replays', i \notin DOMAIN replays PROVE replays'[i] = f
    BY <1>0, <2>2, <2>3
  <2>4. ASSUME NEW i \in DOMAIN replays', i \in DOMAIN replays
        PROVE replays'[i] = replays[i]
    BY <1>0, <2>2, <2>4
  <2> QED BY <2>1, <2>3, <2>4
<1>3. CASE UNCHANGED replays BY <1>3
<1> QED BY <1>1, <1>2, <1>3, ReplaysStep

LEMMA SnapshotsKeep ==
    ASSUME [Events!Next]_(Events!vars), ~Events!Remount
    PROVE  \A s \in snapshots' : s \in snapshots \/ \E t \in Events!Streams : s = Events!Folded(t)
<1>1. ASSUME NEW t \in Events!Streams, Events!HandleTakeSnapshot(t)
      PROVE  \A s \in snapshots' : s \in snapshots \/ s = Events!Folded(t)
  BY <1>1 DEF Events!HandleTakeSnapshot
<1>2. (\E t \in Events!Streams : Events!HandleTakeSnapshot(t)) \/ UNCHANGED snapshots
  BY DEF Events!Next, Events!vars, Events!HandleCreateTopic, Events!HandleDeleteTopic,
       Events!HandleRegisterSchema,
         Events!HandleDispatchCommand, Events!Validate, Events!RefuseDuplicate,
         Events!AppendEvents, Events!Publish,
         Events!RouteToRetry, Events!Project, Events!RetryTick,
         Events!HandleRedeliverDLQ, Events!HandlePurgeDLQ,
         Events!HandleReplayEvents, Events!ReplayEnds
<1> QED BY <1>1, <1>2

LEMMA RowsStep ==
    ASSUME Facts, [Events!Next]_(Events!vars), ~Events!Remount
    PROVE  RowsTell'
<1>0. Events!TypeOK /\ StreamsTell /\ CommandTells /\ RowsTell BY DEF Facts
<1>1. \A t \in Events!Streams : t \in Events!Streams' /\ Events!Folded(t)' = Events!Folded(t)
  BY <1>0, StreamsStay, FoldedStays
<1>2. \A t \in Events!Streams : Events!Folded(t).id = t BY <1>0, FoldedRow
<1>3. \A t \in Transactions : \A i \in DOMAIN readModel'[t] :
         t \in Events!Streams' /\ readModel'[t][i] = Events!Folded(t)'
  <2>1. \A t \in Transactions : \A j \in DOMAIN readModel[t] :
           t \in Events!Streams /\ readModel[t][j] = Events!Folded(t)
    BY <1>0 DEF RowsTell
  <2>2. \A t \in Transactions : \A i \in DOMAIN readModel'[t] :
           \/ \E j \in DOMAIN readModel[t] : readModel'[t][i] = readModel[t][j]
           \/ t \in Events!Streams /\ readModel'[t][i] = Events!Folded(t)
    BY RowsKeep DEF RowsKept
  <2>3. \A t \in Transactions : \A i \in DOMAIN readModel'[t] :
           t \in Events!Streams /\ readModel'[t][i] = Events!Folded(t)
    BY Zenon, <2>1, <2>2
  <2> QED BY Zenon, <1>1, <2>3
<1>4. \A s \in snapshots' : s.id \in Events!Streams' /\ s = Events!Folded(s.id)'
  <2> TAKE s \in snapshots'
  <2>1. s.id \in Events!Streams /\ s = Events!Folded(s.id)
    <3>1. CASE s \in snapshots BY <1>0, <3>1 DEF RowsTell
    <3>2. ASSUME NEW t \in Events!Streams, s = Events!Folded(t)
          PROVE  s.id \in Events!Streams /\ s = Events!Folded(s.id)
      <4>1. s.id = t BY <1>2, <3>2
      <4> QED BY <3>2, <4>1
    <3> QED BY <3>1, <3>2, SnapshotsKeep
  <2>2. PICK t \in Events!Streams : t = s.id BY <2>1
  <2> QED BY <1>1, <2>1, <2>2
<1>5. \A i \in DOMAIN replays' :
         /\ replays'[i].id \in Events!Streams'
         /\ \A t \in Events!Streams' : replays'[i].id = t => replays'[i] = Events!Folded(t)'
  <2> TAKE i \in DOMAIN replays'
  <2>1. PICK t \in Events!Streams : replays'[i] = Events!Folded(t)
    <3>1. ASSUME NEW j \in DOMAIN replays
          PROVE  \E t \in Events!Streams : replays[j] = Events!Folded(t)
      BY <1>0 DEF RowsTell
    <3> QED BY <3>1, ReplaysKeep
  <2>2. replays'[i].id = t BY <1>2, <2>1
  <2> QED BY <1>1, <2>1, <2>2
<1>6. \A i \in DOMAIN replays' : replays'[i].id \in Events!Streams' BY <1>5
<1>7. \A i \in DOMAIN replays' : \A t \in Events!Streams' :
         replays'[i].id = t => replays'[i] = Events!Folded(t)'
  BY <1>5
<1> QED BY <1>3, <1>4, <1>6, <1>7 DEF RowsTell

-----------------------------------------------------------------------------
(* The command and the queues *)

LEMMA StageStep ==
    ASSUME [Events!Next]_(Events!vars), ~Events!Remount
    PROVE  \/ UNCHANGED Events!commands
           \/ processingState' = "validating" /\ command'.known = Events!Streams
              /\ UNCHANGED <<events, retryQueue, dlq, readModel, replays, purged, rebuilt>>
           \/ processingState = "validating" /\ processingState' \in {"appending", "idle"}
              /\ UNCHANGED <<command, events, retryQueue, dlq, readModel, replays, purged,
                             rebuilt>>
           \/ processingState' = "idle" /\ processingState \in {"appending", "success"}
              /\ UNCHANGED <<command, events, retryQueue, dlq>>
           \/ Events!AppendEvents
           \/ Events!Publish
           \/ Events!RouteToRetry
<1>1. ASSUME NEW t, NEW f, Events!HandleDispatchCommand(t, f)
      PROVE  processingState' = "validating" /\ command'.known = Events!Streams
             /\ UNCHANGED <<events, retryQueue, dlq, readModel, replays, purged, rebuilt>>
  BY <1>1 DEF Events!HandleDispatchCommand, Events!queues
<1>2. Events!Validate => processingState = "validating" /\ processingState' \in {"appending", "idle"}
                  /\ UNCHANGED <<command, events, retryQueue, dlq, readModel, replays,
                                 purged, rebuilt>>
  BY DEF Events!Validate, Events!queues
<1>3. Events!RefuseDuplicate \/ Events!Project =>
        processingState' = "idle" /\ processingState \in {"appending", "success"}
        /\ UNCHANGED <<command, events, retryQueue, dlq>>
  BY DEF Events!RefuseDuplicate, Events!Project, Events!queues
<1> QED
  BY <1>1, <1>2, <1>3
  DEF Events!Next, Events!vars, Events!HandleCreateTopic, Events!HandleDeleteTopic,
       Events!HandleRegisterSchema, Events!RetryTick,
      Events!HandleRedeliverDLQ, Events!HandlePurgeDLQ, Events!HandleTakeSnapshot,
      Events!HandleReplayEvents,
      Events!ReplayEnds

\* The queues when no command puts an event into one.
LEMMA QueueStep ==
    ASSUME [Events!Next]_(Events!vars), ~Events!Remount
    PROVE  \/ UNCHANGED <<retryQueue, dlq, purged>>
           \/ Events!RouteToRetry
           \/ (\E expired \in SUBSET retryQueue : Events!RetryTick(expired))
           \/ (\E t \in dlq : Events!HandleRedeliverDLQ(t) \/ Events!HandlePurgeDLQ(t))
BY DEF Events!Next, Events!vars, Events!queues, Events!HandleCreateTopic,
     Events!HandleDeleteTopic, Events!HandleRegisterSchema,
       Events!HandleDispatchCommand, Events!Validate, Events!RefuseDuplicate,
       Events!AppendEvents, Events!Publish, Events!Project,
       Events!HandleTakeSnapshot, Events!HandleReplayEvents, Events!ReplayEnds

\* What is in the queues afterwards was in the retry queue or the same one.
LEMMA QueuesKeep ==
    ASSUME Facts, [Events!Next]_(Events!vars), ~Events!Remount
    PROVE  /\ \A r \in retryQueue' :
                 \/ \E q \in retryQueue : q.id = r.id
                 \/ Events!RouteToRetry /\ r = [id |-> command.id, retryCount |-> 1]
           /\ \A t \in dlq' : t \in dlq \/ \E q \in retryQueue : q.id = t
<1>0. retryQueue \subseteq Events!RetryItem BY DEF Facts, Events!TypeOK
<1>1. ASSUME NEW expired \in SUBSET retryQueue, Events!RetryTick(expired)
      PROVE  /\ \A r \in retryQueue' : \E q \in retryQueue : q.id = r.id
             /\ \A t \in dlq' : t \in dlq \/ \E q \in retryQueue : q.id = t
  <2>1. PICK dead : dead = {r \in expired : Events!Exhausted(r)} OBVIOUS
  <2>2. /\ retryQueue' = (retryQueue \ expired)
                          \cup {Events!Rescheduled(r) : r \in expired \ dead}
        /\ dlq' = dlq \cup {r.id : r \in dead}
    BY <1>1, <2>1, EventsCounted DEF Events!RetryTick
  <2>3. \A r \in expired : r \in retryQueue /\ Events!Rescheduled(r).id = r.id
    BY <1>0, RetryFacts
  <2>4. \A r \in retryQueue' : \E q \in retryQueue : q.id = r.id BY <2>2, <2>3
  <2>5. \A t \in dlq' : t \in dlq \/ \E q \in retryQueue : q.id = t BY <2>1, <2>2
  <2> QED BY <2>4, <2>5
<1>2. ASSUME NEW t \in dlq, Events!HandleRedeliverDLQ(t) \/ Events!HandlePurgeDLQ(t)
      PROVE  retryQueue' = retryQueue /\ dlq' \subseteq dlq
  BY <1>2 DEF Events!HandleRedeliverDLQ, Events!HandlePurgeDLQ
<1>3. CASE Events!RouteToRetry BY <1>3 DEF Events!RouteToRetry
<1> QED BY <1>1, <1>2, <1>3, QueueStep

LEMMA CommandStep ==
    ASSUME Facts, [Events!Next]_(Events!vars), ~Events!Remount
    PROVE  CommandTells'
<1>0. Events!TypeOK /\ CommandTells /\ QueuesTell /\ RowsTell BY DEF Facts
<1>1. /\ Events!Streams \subseteq Events!Streams'
      /\ \A t \in Events!Streams : \A z : Tells(events, t, z) => Tells(events', t, z)
      /\ Events!AppendEvents \/ Events!Streams' = Events!Streams
  BY <1>0, StreamsStay
<1>2. ASSUME processingState' \in {"validating", "appending"}
      PROVE  command'.known = Events!Streams'
  <2>1. ~Events!AppendEvents /\ ~Events!Publish /\ ~Events!RouteToRetry
    BY <1>2 DEF Events!AppendEvents, Events!Publish, Events!RouteToRetry
  <2>2. Events!Streams' = Events!Streams BY <1>1, <2>1
  <2>3. processingState \in {"validating", "appending"} => command.known = Events!Streams
    BY <1>0 DEF CommandTells
  <2> QED BY <1>2, <2>1, <2>2, <2>3, StageStep DEF Events!commands
<1>3. ASSUME NEW t, Events!Projecting(t)'
      PROVE  /\ t \in Events!Streams' /\ t \notin dlq' /\ \A r \in retryQueue' : r.id # t
             /\ Tells(events', t, Events!Verdict(command'.form))
  <2>0. processingState' \in {"publishing", "routing", "success"} /\ command'.id = t
    BY <1>3 DEF Events!Projecting
  <2>1. ~Events!RouteToRetry BY <2>0 DEF Events!RouteToRetry
  <2>2. CASE Events!AppendEvents
    <3>1. command' = command BY <2>2 DEF Events!AppendEvents
    <3>2. t \notin Events!Streams /\ t \in Events!Streams' /\ Tells(events', t, Events!Verdict(command'.form))
      BY <1>0, <2>0, <2>2, <3>1, AppendFacts DEF CommandTells
    <3>3. retryQueue' = retryQueue /\ dlq' = dlq BY <2>2 DEF Events!AppendEvents,
         Events!queues
    <3>4. t \notin dlq /\ \A r \in retryQueue : r.id # t
      BY <1>0, <3>2 DEF QueuesTell
    <3> QED BY <3>2, <3>3, <3>4
  <2>3. CASE ~Events!AppendEvents
    <3>1. Events!Projecting(t) /\ command' = command
      <4>1. CASE UNCHANGED Events!commands BY <2>0, <4>1 DEF Events!commands,
           Events!Projecting
      <4>2. CASE Events!Publish BY <2>0, <4>2 DEF Events!Publish, Events!Projecting
      <4> QED BY <2>0, <2>1, <2>3, <4>1, <4>2, StageStep
    <3>2. /\ t \in Events!Streams /\ t \notin dlq /\ \A r \in retryQueue : r.id # t
          /\ Tells(events, t, Events!Verdict(command.form))
      BY <1>0, <3>1 DEF CommandTells
    <3>3. \A r \in retryQueue' : \E q \in retryQueue : q.id = r.id
      BY <2>1, QueuesKeep
    <3>4. \A r \in retryQueue' : r.id # t BY <3>2, <3>3
    <3>5. t \notin dlq' BY <3>2, QueuesKeep
    <3> QED BY <1>1, <3>1, <3>2, <3>4, <3>5
  <2> QED BY <2>2, <2>3
<1> QED BY <1>2, <1>3 DEF CommandTells

LEMMA QueuesStep ==
    ASSUME Facts, [Events!Next]_(Events!vars), ~Events!Remount
    PROVE  QueuesTell'
<1>0. Events!TypeOK /\ CommandTells /\ QueuesTell BY DEF Facts
<1>1. Events!Streams \subseteq Events!Streams' BY <1>0, StreamsStay
<1>2. CASE UNCHANGED <<retryQueue, dlq, purged>> BY <1>0, <1>1, <1>2 DEF QueuesTell
<1>3. CASE Events!RouteToRetry
  <2>1. PICK item : item = [id |-> command.id, retryCount |-> 1] OBVIOUS
  <2>2. retryQueue' = retryQueue \cup {item} /\ dlq' = dlq
    BY <1>3, <2>1 DEF Events!RouteToRetry
  <2>3. Events!Projecting(command.id) BY <1>3 DEF Events!RouteToRetry, Events!Projecting
  <2>4. /\ command.id \in Events!Streams /\ command.id \notin dlq
        /\ \A r \in retryQueue : r.id # command.id
    BY <1>0, <2>3 DEF CommandTells
  <2>5. item.id = command.id BY <2>1
  <2>6. IsFiniteSet(retryQueue') BY <1>0, <2>2, FS_AddElement DEF QueuesTell
  <2> QED BY <1>0, <1>1, <2>2, <2>4, <2>5, <2>6 DEF QueuesTell
<1>4. ASSUME NEW expired \in SUBSET retryQueue, Events!RetryTick(expired)
      PROVE  QueuesTell'
  <2>1. PICK dead : dead = {r \in expired : Events!Exhausted(r)} OBVIOUS
  <2>2. /\ retryQueue' = (retryQueue \ expired)
                          \cup {Events!Rescheduled(r) : r \in expired \ dead}
        /\ dlq' = dlq \cup {r.id : r \in dead}
    BY <1>4, <2>1 DEF Events!RetryTick
  <2>3. retryQueue \subseteq Events!RetryItem BY <1>0 DEF Events!TypeOK
  <2>4. \A r \in retryQueue : Events!Rescheduled(r).id = r.id BY <2>3, RetryFacts
  <2>5. \A r \in retryQueue' : \E q \in retryQueue \ dead :
           q.id = r.id /\ r = IF q \in expired THEN Events!Rescheduled(q) ELSE q
    BY <2>1, <2>2, <2>4
  <2>6. \A r, q \in retryQueue : q.id = r.id => q = r BY <1>0 DEF QueuesTell
  <2>7. \A r \in retryQueue : r.id \in Events!Streams /\ r.id \notin dlq
    BY <1>0 DEF QueuesTell
  <2>8. IsFiniteSet(retryQueue') BY <1>0, <2>1, <2>2, TickSizes
  <2>9. ASSUME NEW r \in retryQueue'
        PROVE  /\ r.id \in Events!Streams' /\ r.id \notin dlq'
               /\ \A q \in retryQueue' : q.id = r.id => q = r
    <3>1. PICK a \in retryQueue \ dead :
            a.id = r.id /\ r = IF a \in expired THEN Events!Rescheduled(a) ELSE a
      BY <2>5
    <3>2. r.id \in Events!Streams' BY <1>1, <2>7, <3>1
    <3>3. ASSUME NEW d \in dead PROVE d.id # r.id
      <4>1. d \in retryQueue BY <2>1
      <4> QED BY <2>6, <3>1, <4>1
    <3>4. r.id \notin dlq' BY <2>2, <2>7, <3>1, <3>3
    <3>5. ASSUME NEW q \in retryQueue', q.id = r.id PROVE q = r
      <4>1. PICK b \in retryQueue \ dead :
              b.id = q.id /\ q = IF b \in expired THEN Events!Rescheduled(b) ELSE b
        BY <2>5
      <4>2. a = b BY <2>6, <3>1, <3>5, <4>1
      <4> QED BY <3>1, <4>1, <4>2
    <3> QED BY <3>2, <3>4, <3>5
  <2>10. dlq' \subseteq Events!Streams'
    <3>1. \A d \in dead : d.id \in Events!Streams BY <2>1, <2>7
    <3> QED BY <1>0, <1>1, <2>2, <3>1 DEF QueuesTell
  <2> QED BY <2>8, <2>9, <2>10 DEF QueuesTell
<1>5. ASSUME NEW t \in dlq, Events!HandleRedeliverDLQ(t) \/ Events!HandlePurgeDLQ(t)
      PROVE  QueuesTell'
  <2>1. retryQueue' = retryQueue /\ dlq' = dlq \ {t}
    BY <1>5 DEF Events!HandleRedeliverDLQ, Events!HandlePurgeDLQ
  <2> QED BY <1>0, <1>1, <2>1 DEF QueuesTell
<1> QED BY <1>2, <1>3, <1>4, <1>5, QueueStep

LEMMA FactsStep == ASSUME Facts, [Events!Next]_(Events!vars), ~Events!Remount PROVE Facts'
<1>1. Events!TypeOK' BY EventTypeStep
<1>2. StreamsTell' BY StreamsStep DEF Facts
<1> QED BY <1>1, <1>2, RowsStep, CommandStep, QueuesStep DEF Facts

-----------------------------------------------------------------------------
(* The counts *)

\* The steps that count, add to the log or move what is queued.
LEMMA CountStep ==
    ASSUME [Events!Next]_(Events!vars), ~Events!Remount
    PROVE  \/ UNCHANGED <<events, topics, retryQueue, dlq, purged>>
           \/ (\E n \in Events!Topics : (\E p : Events!HandleCreateTopic(n, p)) \/ Events!HandleDeleteTopic(n))
           \/ Events!AppendEvents \/ Events!RouteToRetry
           \/ (\E expired \in SUBSET retryQueue : Events!RetryTick(expired))
           \/ (\E t \in dlq : Events!HandleRedeliverDLQ(t) \/ Events!HandlePurgeDLQ(t))
<1>1. \A n \in NewTopics : n \in Events!Topics BY DEF Events!Topics
<1> QED BY <1>1
        DEF Events!Next, Events!vars, Events!queues, Events!HandleRegisterSchema,
             Events!HandleDispatchCommand, Events!Validate,
            Events!RefuseDuplicate, Events!Publish, Events!Project,
            Events!HandleTakeSnapshot, Events!HandleReplayEvents,
            Events!ReplayEnds

LEMMA Sizes ==
    ASSUME Facts, CountsTell
    PROVE  /\ Events!Count(Events!Main) \in Nat /\ Events!Count(Events!Retry) \in Nat /\ Events!Count(Events!Dead) \in Nat
           /\ Len(events) \in Nat
           /\ IsFiniteSet(retryQueue) /\ Cardinality(retryQueue) \in Nat
           /\ IsFiniteSet(dlq) /\ Cardinality(dlq) \in Nat
           /\ IsFiniteSet(purged) /\ Cardinality(purged) \in Nat
<1>1. EventTopics BY DEF Facts, Events!TypeOK, EventTopics, Events!TopicMetadata
<1>2. Events!Count(Events!Main) \in Nat /\ Events!Count(Events!Retry) \in Nat /\ Events!Count(Events!Dead) \in Nat
  BY <1>1, CountTyped, CoreNames
<1>3. events \in Seq(Events!EventItem) BY DEF Facts, Events!TypeOK
<1>4. IsFiniteSet(retryQueue) /\ IsFiniteSet(dlq) /\ IsFiniteSet(purged)
  BY DEF Facts, QueuesTell, CountsTell
<1> QED BY <1>2, <1>3, <1>4, FS_CardinalityType

LEMMA CountsStep ==
    ASSUME Facts, CountsTell, [Events!Next]_(Events!vars), ~Events!Remount
    PROVE  CountsTell'
<1>0. Events!TypeOK /\ CommandTells /\ QueuesTell BY DEF Facts
<1>1. CASE UNCHANGED <<events, topics, retryQueue, dlq, purged>>
  BY <1>1 DEF CountsTell, Events!Count
<1>2. ASSUME NEW n \in Events!Topics, (\E p : Events!HandleCreateTopic(n, p)) \/ Events!HandleDeleteTopic(n)
      PROVE  CountsTell'
  <2>1. \A m \in Events!CoreTopics : topics'[m][1] = topics[m][1]
    BY <1>0, <1>2, TypeTopics
  <2>2. UNCHANGED <<events, retryQueue, dlq, purged>>
    BY <1>2 DEF Events!HandleCreateTopic, Events!HandleDeleteTopic, Events!queues
  <2>3. /\ topics'[Events!Main][1] = topics[Events!Main][1] /\ topics'[Events!Retry][1] = topics[Events!Retry][1]
        /\ topics'[Events!Dead][1] = topics[Events!Dead][1]
    BY <2>1, CoreNames
  <2> QED BY <2>2, <2>3 DEF CountsTell, Events!Count
<1>3. ASSUME Events!AppendEvents PROVE CountsTell'
  <2>1. topics' = Events!Counted(Events!Main, 2) /\ UNCHANGED <<retryQueue, dlq, purged>>
    BY <1>3 DEF Events!AppendEvents, Events!queues
  <2>2. Len(events') = Len(events) + 2 BY <1>0, <1>3, AppendFacts DEF CommandTells
  <2>3. topics'[Events!Main][1] = topics[Events!Main][1] + 2 /\ topics'[Events!Retry] = topics[Events!Retry]
        /\ topics'[Events!Dead] = topics[Events!Dead]
    BY <1>0, <2>1, TypeCounted, CoreNames
  <2>4. topics[Events!Main][1] = Len(events) BY DEF CountsTell, Events!Count
  <2> QED BY <2>1, <2>2, <2>3, <2>4 DEF CountsTell, Events!Count
<1>4. ASSUME Events!RouteToRetry PROVE CountsTell'
  <2>1. PICK item : item = [id |-> command.id, retryCount |-> 1] OBVIOUS
  <2>2. retryQueue' = retryQueue \cup {item} /\ topics' = Events!Counted(Events!Retry, 1)
        /\ UNCHANGED <<events, dlq, purged>>
    BY <1>4, <2>1 DEF Events!RouteToRetry
  <2>3. Events!Projecting(command.id) BY <1>4 DEF Events!RouteToRetry, Events!Projecting
  <2>4. item.id = command.id /\ \A r \in retryQueue : r.id # command.id
    BY <1>0, <2>1, <2>3 DEF CommandTells
  <2>5. Cardinality(retryQueue') = Cardinality(retryQueue) + 1
    <3>1. item \notin retryQueue BY <2>4
    <3> QED BY <2>2, <3>1, Sizes, FS_AddElement
  <2>6. topics'[Events!Retry][1] = topics[Events!Retry][1] + 1 /\ topics'[Events!Main] = topics[Events!Main]
        /\ topics'[Events!Dead] = topics[Events!Dead]
    BY <1>0, <2>2, TypeCounted, CoreNames
  <2>7. /\ topics[Events!Retry][1] = Cardinality(retryQueue) + topics[Events!Dead][1]
        /\ topics[Events!Dead][1] \in Nat /\ Cardinality(retryQueue) \in Nat
    BY Sizes DEF CountsTell, Events!Count
  <2>8. topics'[Events!Retry][1] = Cardinality(retryQueue') + topics'[Events!Dead][1]
    BY <2>5, <2>6, <2>7
  <2> QED BY <2>2, <2>6, <2>8 DEF CountsTell, Events!Count
<1>5. ASSUME NEW expired \in SUBSET retryQueue, Events!RetryTick(expired)
      PROVE  CountsTell'
  <2>1. PICK dead : dead = {r \in expired : Events!Exhausted(r)} OBVIOUS
  <2>2. PICK left, ids : /\ left = (retryQueue \ expired)
                                   \cup {Events!Rescheduled(r) : r \in expired \ dead}
                         /\ ids = {r.id : r \in dead}
    OBVIOUS
  <2>3. /\ retryQueue' = left /\ dlq' = dlq \cup ids
        /\ topics' = Events!Counted(Events!Dead, Cardinality(dead))
        /\ UNCHANGED <<events, purged>>
    BY <1>5, <2>1, <2>2, EventsCounted DEF Events!RetryTick
  <2>4. IsFiniteSet(dead) /\ Cardinality(dead) \in Nat BY <1>0, <2>1, TickCounts
  <2>5. /\ Cardinality(left) = Cardinality(retryQueue) - Cardinality(dead)
        /\ IsFiniteSet(ids) /\ Cardinality(ids) <= Cardinality(dead)
    BY <1>0, <2>1, <2>2, TickSizes
  <2>6. /\ topics'[Events!Dead][1] = topics[Events!Dead][1] + Cardinality(dead)
        /\ topics'[Events!Main] = topics[Events!Main] /\ topics'[Events!Retry] = topics[Events!Retry]
    BY <1>0, <2>3, <2>4, TypeCounted, CoreNames
  <2>7. IsFiniteSet(dlq \cup ids)
        /\ Cardinality(dlq \cup ids) <= Cardinality(dlq) + Cardinality(dead)
    <3>1. /\ IsFiniteSet(dlq \cup ids)
          /\ Cardinality(dlq \cup ids)
               = Cardinality(dlq) + Cardinality(ids) - Cardinality(dlq \cap ids)
      BY <2>5, Sizes, FS_Union
    <3>2. IsFiniteSet(dlq \cap ids)
      <4>1. dlq \cap ids \in SUBSET dlq OBVIOUS
      <4> QED BY <4>1, Sizes, FS_Subset
    <3>3. Cardinality(dlq \cap ids) \in Nat /\ Cardinality(ids) \in Nat
      BY <2>5, <3>2, FS_CardinalityType
    <3> QED BY <2>4, <2>5, <3>1, <3>3, Sizes
  <2>8. /\ topics[Events!Retry][1] = Cardinality(retryQueue) + topics[Events!Dead][1]
        /\ topics[Events!Dead][1] >= Cardinality(dlq) + Cardinality(purged)
        /\ topics[Events!Main][1] = Len(events)
        /\ topics[Events!Dead][1] \in Nat
        /\ Cardinality(retryQueue) \in Nat /\ Cardinality(dlq) \in Nat
        /\ Cardinality(purged) \in Nat
    BY Sizes DEF CountsTell, Events!Count
  <2>9. topics'[Events!Retry][1] = Cardinality(left) + topics'[Events!Dead][1]
    BY <2>4, <2>5, <2>6, <2>8
  <2>10. IsFiniteSet(dlq \cup ids) => Cardinality(dlq \cup ids) \in Nat
    BY FS_CardinalityType
  <2>11. topics'[Events!Dead][1] >= Cardinality(dlq \cup ids) + Cardinality(purged)
    BY <2>4, <2>6, <2>7, <2>8, <2>10
  <2> QED BY <2>3, <2>6, <2>7, <2>8, <2>9, <2>11 DEF CountsTell, Events!Count
<1>6. ASSUME NEW t \in dlq, Events!HandleRedeliverDLQ(t) \/ Events!HandlePurgeDLQ(t)
      PROVE  CountsTell'
  <2>1. dlq' = dlq \ {t} /\ (purged' = purged \/ purged' = purged \cup {t})
        /\ UNCHANGED <<events, topics, retryQueue>>
    BY <1>6 DEF Events!HandleRedeliverDLQ, Events!HandlePurgeDLQ
  <2>2. IsFiniteSet(dlq') /\ Cardinality(dlq') = Cardinality(dlq) - 1
    BY <2>1, Sizes, FS_RemoveElement
  <2>3. IsFiniteSet(purged') /\ Cardinality(purged') <= Cardinality(purged) + 1
    <3>1. CASE purged' = purged BY <3>1, Sizes
    <3>2. CASE purged' = purged \cup {t}
      <4>1. /\ IsFiniteSet(purged \cup {t})
            /\ Cardinality(purged \cup {t}) =
                 IF t \in purged THEN Cardinality(purged) ELSE Cardinality(purged) + 1
        BY Sizes, FS_AddElement
      <4> QED BY <3>2, <4>1, Sizes
    <3> QED BY <2>1, <3>1, <3>2
  <2>4. Cardinality(purged') \in Nat BY <2>3, FS_CardinalityType
  <2>5. /\ topics[Events!Dead][1] >= Cardinality(dlq) + Cardinality(purged)
        /\ topics[Events!Dead][1] \in Nat /\ Cardinality(dlq) \in Nat
        /\ Cardinality(purged) \in Nat
    BY Sizes DEF CountsTell, Events!Count
  <2>6. topics[Events!Dead][1] >= Cardinality(dlq') + Cardinality(purged')
    BY <2>2, <2>3, <2>4, <2>5
  <2> QED BY <2>1, <2>2, <2>3, <2>6 DEF CountsTell, Events!Count
<1> QED BY <1>1, <1>2, <1>3, <1>4, <1>5, <1>6, CountStep

-----------------------------------------------------------------------------
(* Second rows *)

LEMMA RebuildsAfter ==
    ASSUME Facts, [Events!Next]_(Events!vars), ~Events!Remount
    PROVE  /\ Events!ReplayEnds =>
                /\ \A i \in DOMAIN replays' :
                      i + 1 \in DOMAIN replays /\ i + 1 # 1 /\ replays'[i] = replays[i + 1]
                /\ \A i \in DOMAIN replays : i # 1 =>
                      i - 1 \in DOMAIN replays' /\ replays'[i - 1] = replays[i]
           /\ \A t \in Events!Streams : Events!HandleReplayEvents(t) =>
                /\ \A i \in DOMAIN replays :
                      i \in DOMAIN replays' /\ replays'[i] = replays[i]
                /\ \A i \in DOMAIN replays' :
                      i \in DOMAIN replays \/ i = Len(replays) + 1
                /\ Len(replays) + 1 \in DOMAIN replays'
                /\ replays'[Len(replays) + 1].id = t
<1>0. replays \in Seq(Events!ProjectionModel) BY DEF Facts, Events!TypeOK
<1>1. ASSUME Events!ReplayEnds
      PROVE  /\ \A i \in DOMAIN replays' :
                   i + 1 \in DOMAIN replays /\ i + 1 # 1 /\ replays'[i] = replays[i + 1]
             /\ \A i \in DOMAIN replays : i # 1 =>
                   i - 1 \in DOMAIN replays' /\ replays'[i - 1] = replays[i]
  <2>1. replays # <<>> /\ replays' = Tail(replays) BY <1>1 DEF Events!ReplayEnds
  <2>2. Len(replays) \in Nat /\ Len(replays) > 0 /\ DOMAIN replays = 1..Len(replays)
        /\ DOMAIN replays' = 1..(Len(replays) - 1)
        /\ \A i \in 1..(Len(replays) - 1) : replays'[i] = replays[i + 1]
    BY <1>0, <2>1
  <2>3. \A i \in DOMAIN replays' :
           i + 1 \in DOMAIN replays /\ i + 1 # 1 /\ replays'[i] = replays[i + 1]
    BY <2>2
  <2>4. \A i \in DOMAIN replays : i # 1 =>
           i - 1 \in DOMAIN replays' /\ replays'[i - 1] = replays[i]
    BY <2>2
  <2> QED BY <2>3, <2>4
<1>2. ASSUME NEW t \in Events!Streams, Events!HandleReplayEvents(t)
      PROVE  /\ \A i \in DOMAIN replays : i \in DOMAIN replays' /\ replays'[i] = replays[i]
             /\ \A i \in DOMAIN replays' : i \in DOMAIN replays \/ i = Len(replays) + 1
             /\ Len(replays) + 1 \in DOMAIN replays'
             /\ replays'[Len(replays) + 1].id = t
  <2>1. PICK f : f = Events!Folded(t) OBVIOUS
  <2>2. replays' = Append(replays, f) BY <1>2, <2>1 DEF Events!HandleReplayEvents
  <2>3. f.id = t BY <2>1, FoldedRow DEF Facts
  <2>4. \A i \in DOMAIN replays : i \in DOMAIN replays' /\ replays'[i] = replays[i]
    BY <1>0, <2>2
  <2>5. \A i \in DOMAIN replays' : i \in DOMAIN replays \/ i = Len(replays) + 1
    BY <1>0, <2>2
  <2>6. Len(replays) + 1 \in DOMAIN replays' /\ replays'[Len(replays) + 1] = f
    BY <1>0, <2>2
  <2> QED BY <2>3, <2>4, <2>5, <2>6
<1> QED BY <1>1, <1>2

LEMMA LenFacts ==
    ASSUME Events!TypeOK
    PROVE  \A t \in Transactions :
              Len(readModel[t]) \in Nat /\ (Events!Shown(t) <=> Len(readModel[t]) > 0)
BY DEF Events!TypeOK, Events!Shown

\* A row that is inserted where a second one is accounted for.
LEMMA InsertedCrossings ==
    ASSUME Facts, NEW t \in Events!Streams, readModel' = Events!Inserted(Events!Folded(t))
    PROVE  /\ t \in Transactions
           /\ \A u \in Transactions \ {t} :
                 readModel'[u] = readModel[u] /\ (Events!Shown(u)' <=> Events!Shown(u))
           /\ Len(readModel'[t]) > 1 <=> Events!Shown(t)
           /\ Events!Shown(t)'
<1>1. Events!TypeOK /\ StreamsTell BY DEF Facts
<1>2. t \in Transactions /\ Events!Folded(t) \in Events!ProjectionModel /\ Events!Folded(t).id = t
  BY <1>1, FoldedRow
<1>3. /\ \A u \in Transactions \ {t} : readModel'[u] = readModel[u]
      /\ Len(readModel'[t]) = Len(readModel[t]) + 1 /\ readModel'[t] # <<>>
  BY <1>1, <1>2, InsertedRows
<1>4. Len(readModel[t]) \in Nat /\ (Events!Shown(t) <=> Len(readModel[t]) > 0)
  BY <1>1, <1>2, LenFacts
<1>5. Len(readModel'[t]) > 1 <=> Events!Shown(t) BY <1>3, <1>4
<1> QED BY <1>2, <1>3, <1>5 DEF Events!Shown

LEMMA CrossingsStep ==
    ASSUME Facts, CrossingsTold, [Events!Next]_(Events!vars), ~Events!Remount
    PROVE  CrossingsTold'
<1>0. Events!TypeOK /\ CommandTells BY DEF Facts
<1> DEFINE T1 == \A t \in Transactions : Len(readModel[t]) > 1 => t \in rebuilt
           T2 == \A t \in Transactions : Events!Shown(t) /\ Events!Rebuilding(t) => t \in rebuilt
           T3 == \A i, j \in DOMAIN replays :
                   i # j /\ replays[i].id = replays[j].id => replays[i].id \in rebuilt
           T4 == \A t \in Transactions :
                   Events!Projecting(t) /\ (Events!Shown(t) \/ Events!Rebuilding(t)) => t \in rebuilt
<1>t. T1 /\ T2 /\ T3 /\ T4 BY DEF CrossingsTold
<1>1. CASE Events!Project
  <2>1. PICK t \in Events!Streams : t = command.id /\ readModel' = Events!Inserted(Events!Folded(t)) /\ Events!Projecting(t)
    BY <1>1, ProjectInserts
  <2>2. /\ t \in Transactions
        /\ \A u \in Transactions \ {t} : readModel'[u] = readModel[u] /\ (Events!Shown(u)' <=> Events!Shown(u))
        /\ Len(readModel'[t]) > 1 <=> Events!Shown(t)
        /\ Events!Shown(t)'
    BY <2>1, InsertedCrossings
  <2>3. replays' = replays /\ rebuilt' = rebuilt /\ processingState' = "idle"
    BY <1>1 DEF Events!Project
  <2>4. \A u : Events!Rebuilding(u)' <=> Events!Rebuilding(u)
    BY <2>3 DEF Events!Rebuilding
  <2>5. \A u : ~Events!Projecting(u)' BY <2>3 DEF Events!Projecting
  <2>6. Events!Shown(t) \/ Events!Rebuilding(t) => t \in rebuilt BY <1>t, <2>1, <2>2
  <2>7. T1' BY <1>t, <2>2, <2>3, <2>6
  <2>8. T2' BY <1>t, <2>2, <2>3, <2>4, <2>6
  <2>9. T3' BY <1>t, <2>3
  <2>10. T4' BY <2>5
  <2> QED BY <2>7, <2>8, <2>9, <2>10 DEF CrossingsTold
<1>2. CASE Events!ReplayEnds
  <2>1. PICK t \in Events!Streams :
          /\ t = replays[1].id /\ readModel' = Events!Inserted(Events!Folded(t)) /\ Events!Rebuilding(t)
          /\ 1 \in DOMAIN replays
    BY <1>2, ReplayEndsInserts
  <2>2. /\ t \in Transactions
        /\ \A u \in Transactions \ {t} : readModel'[u] = readModel[u] /\ (Events!Shown(u)' <=> Events!Shown(u))
        /\ Len(readModel'[t]) > 1 <=> Events!Shown(t)
        /\ Events!Shown(t)'
    BY <2>1, InsertedCrossings
  <2>3. rebuilt' = rebuilt /\ UNCHANGED Events!commands BY <1>2 DEF Events!ReplayEnds
  <2>4. \A i \in DOMAIN replays' :
           i + 1 \in DOMAIN replays /\ i + 1 # 1 /\ replays'[i] = replays[i + 1]
    BY <1>2, RebuildsAfter
  <2>5. \A u : Events!Rebuilding(u)' => Events!Rebuilding(u) BY <2>4 DEF Events!Rebuilding
  <2>6. \A u : Events!Projecting(u)' <=> Events!Projecting(u)
    BY <2>3 DEF Events!Projecting,
       Events!commands
  <2>7. T1' BY <1>t, <2>1, <2>2, <2>3
  <2>8. T2'
    <3>1. ASSUME Events!Rebuilding(t)' PROVE t \in rebuilt
      <4>1. PICK i \in DOMAIN replays' : replays'[i].id = t BY <3>1 DEF Events!Rebuilding
      <4>2. i + 1 \in DOMAIN replays /\ i + 1 # 1 /\ replays[i + 1].id = t BY <2>4, <4>1
      <4> QED BY <1>t, <2>1, <4>2
    <3> QED BY <1>t, <2>2, <2>3, <2>5, <3>1
  <2>9. T3'
    <3> SUFFICES ASSUME NEW i \in DOMAIN replays', NEW j \in DOMAIN replays', i # j,
                        replays'[i].id = replays'[j].id
                 PROVE  replays'[i].id \in rebuilt'
      OBVIOUS
    <3>1. /\ i + 1 \in DOMAIN replays /\ replays'[i] = replays[i + 1]
          /\ j + 1 \in DOMAIN replays /\ replays'[j] = replays[j + 1]
      BY <2>4
    <3>2. i + 1 # j + 1
      <4>1. replays' \in Seq(Events!ProjectionModel) BY FactsStep DEF Facts, Events!TypeOK
      <4>2. i \in Int /\ j \in Int BY <4>1
      <4> QED BY <4>2
    <3> QED BY <1>t, <2>3, <3>1, <3>2
  <2>10. T4' BY <1>t, <2>1, <2>2, <2>3, <2>5, <2>6
  <2> QED BY <2>7, <2>8, <2>9, <2>10 DEF CrossingsTold
<1>3. ASSUME NEW t \in dlq, Events!HandleRedeliverDLQ(t) PROVE CrossingsTold'
  <2>0. t \in Events!Streams /\ t \in Transactions BY <1>3, RedeliverInserts
  <2>1. /\ replays' = replays /\ UNCHANGED Events!commands
        /\ rebuilt \subseteq rebuilt' /\ (Events!Rebuilding(t) => t \in rebuilt')
    BY <1>3 DEF Events!HandleRedeliverDLQ
  <2>2. \A u \in Transactions \ {t} : readModel'[u] = readModel[u] /\ (Events!Shown(u)' <=> Events!Shown(u))
    <3>1. CASE ~Events!Shown(t)
      <4>1. readModel' = Events!Inserted(Events!Folded(t)) BY <1>3, <3>1, RedeliverInserts
      <4> QED BY <2>0, <4>1, InsertedCrossings
    <3>2. CASE Events!Shown(t)
      <4>1. \A u \in Transactions \ {t} : readModel'[u] = readModel[u]
        BY <1>3, <3>2, RedeliverInserts
      <4> QED BY <4>1 DEF Events!Shown
    <3> QED BY <3>1, <3>2
  <2>3. Len(readModel'[t]) > 1 => Len(readModel[t]) > 1
    <3>1. CASE ~Events!Shown(t)
      <4>1. readModel' = Events!Inserted(Events!Folded(t)) BY <1>3, <3>1, RedeliverInserts
      <4> QED BY <2>0, <3>1, <4>1, InsertedCrossings
    <3>2. CASE Events!Shown(t)
      <4>1. Len(readModel'[t]) = Len(readModel[t]) BY <1>3, <3>2, RedeliverInserts
      <4> QED BY <4>1
    <3> QED BY <3>1, <3>2
  <2>4. ~Events!Projecting(t) BY <1>0 DEF CommandTells
  <2>5. \A u : Events!Rebuilding(u)' <=> Events!Rebuilding(u)
    BY <2>1 DEF Events!Rebuilding
  <2>6. \A u : Events!Projecting(u)' <=> Events!Projecting(u)
    BY <2>1 DEF Events!Projecting,
       Events!commands
  <2>7. T1' BY <1>t, <2>0, <2>1, <2>2, <2>3
  <2>8. T2' BY <1>t, <2>1, <2>2, <2>5
  <2>9. T3' BY <1>t, <2>1
  <2>10. T4' BY <1>t, <2>1, <2>2, <2>4, <2>5, <2>6
  <2> QED BY <2>7, <2>8, <2>9, <2>10 DEF CrossingsTold
<1>4. ASSUME NEW t \in Events!Streams, Events!HandleReplayEvents(t) PROVE CrossingsTold'
  <2>0. t \in Transactions BY <1>0, StreamTyped
  <2>1. /\ UNCHANGED Events!commands
        /\ \A u : u # t => (u \in rebuilt' <=> u \in rebuilt)
        /\ Events!Rebuilding(t) \/ Events!Projecting(t) => t \in rebuilt'
    BY <1>4 DEF Events!HandleReplayEvents
  <2>2. readModel' = [readModel EXCEPT ![t] = <<>>] BY <1>4 DEF Events!HandleReplayEvents
  <2>3. readModel'[t] = <<>> /\ \A u \in Transactions \ {t} : readModel'[u] = readModel[u]
    BY <1>0, <2>0, <2>2 DEF Events!TypeOK
  <2>4. \A u \in Transactions \ {t} : Events!Shown(u)' <=> Events!Shown(u)
    BY <2>3 DEF Events!Shown
  <2>5. ~Events!Shown(t)' /\ ~(Len(readModel'[t]) > 1)
    <3>1. Len(<<>>) = 0 /\ ~(0 > 1) OBVIOUS
    <3> QED BY Zenon, <2>3, <3>1 DEF Events!Shown
  <2>6. /\ \A i \in DOMAIN replays : i \in DOMAIN replays' /\ replays'[i] = replays[i]
        /\ \A i \in DOMAIN replays' : i \in DOMAIN replays \/ i = Len(replays) + 1
        /\ Len(replays) + 1 \in DOMAIN replays' /\ replays'[Len(replays) + 1].id = t
    BY <1>4, RebuildsAfter
  <2>7. \A u : u # t => (Events!Rebuilding(u)' <=> Events!Rebuilding(u))
    BY <2>6 DEF Events!Rebuilding
  <2>8. \A u : Events!Projecting(u)' <=> Events!Projecting(u)
    BY <2>1 DEF Events!Projecting,
       Events!commands
  <2>9. T1' BY <1>t, <2>1, <2>3, <2>5
  <2>10. T2' BY <1>t, <2>1, <2>4, <2>5, <2>7
  <2>11. T3'
    <3> SUFFICES ASSUME NEW i \in DOMAIN replays', NEW j \in DOMAIN replays', i # j,
                        replays'[i].id = replays'[j].id
                 PROVE  replays'[i].id \in rebuilt'
      OBVIOUS
    <3>1. CASE replays'[i].id = t
      <4>1. i \in DOMAIN replays \/ j \in DOMAIN replays BY <2>6
      <4>2. Events!Rebuilding(t) BY <2>6, <3>1, <4>1 DEF Events!Rebuilding
      <4> QED BY <2>1, <3>1, <4>2
    <3>2. CASE replays'[i].id # t
      <4>1. i \in DOMAIN replays /\ j \in DOMAIN replays BY <2>6, <3>2
      <4>2. replays'[i] = replays[i] /\ replays'[j] = replays[j] BY <2>6, <4>1
      <4> QED BY <1>t, <2>1, <3>2, <4>1, <4>2
    <3> QED BY <3>1, <3>2
  <2>12. T4' BY <1>t, <2>1, <2>4, <2>7, <2>8
  <2> QED BY <2>9, <2>10, <2>11, <2>12 DEF CrossingsTold
<1>5. CASE UNCHANGED readModel /\ ~Events!Project /\ ~Events!ReplayEnds
           /\ ~(\E t \in dlq : Events!HandleRedeliverDLQ(t))
           /\ ~(\E t \in Events!Streams : Events!HandleReplayEvents(t))
  <2>1. UNCHANGED <<readModel, replays, rebuilt>>
    BY <1>5
    DEF Events!Next, Events!vars, Events!HandleCreateTopic, Events!HandleDeleteTopic,
         Events!HandleRegisterSchema,
        Events!HandleDispatchCommand, Events!Validate, Events!RefuseDuplicate,
        Events!AppendEvents, Events!Publish,
        Events!RouteToRetry, Events!RetryTick, Events!HandlePurgeDLQ,
        Events!HandleTakeSnapshot
  <2>2. \A u : (Events!Rebuilding(u)' <=> Events!Rebuilding(u)) /\ (Events!Shown(u)' <=> Events!Shown(u))
    BY <2>1 DEF Events!Rebuilding, Events!Shown
  <2>3. ASSUME NEW u \in Transactions, Events!Projecting(u)'
        PROVE  Events!Projecting(u) \/ (~Events!Shown(u) /\ ~Events!Rebuilding(u))
    <3>1. processingState' \in {"publishing", "routing", "success"} /\ command'.id = u
      BY <2>3 DEF Events!Projecting
    <3>2. CASE Events!AppendEvents
      <4>1. command' = command BY <3>2 DEF Events!AppendEvents
      <4>2. u \notin Events!Streams
        BY <1>0, <3>1, <3>2, <4>1, AppendFacts DEF CommandTells
      <4>3. ~Events!Rebuilding(u) BY <4>2 DEF Events!Rebuilding, Facts, RowsTell
      <4>4. \A i \in DOMAIN readModel[u] : FALSE BY <4>2 DEF Facts, RowsTell
      <4>5. readModel[u] \in Seq(Events!ProjectionModel) BY <1>0 DEF Events!TypeOK
      <4>6. readModel[u] = <<>>
        <5>1. PICK old \in Seq(Events!ProjectionModel) : old = readModel[u] BY <4>5
        <5>2. old # <<>> => 1 \in DOMAIN old OBVIOUS
        <5> QED BY Zenon, <4>4, <5>1, <5>2
      <4> QED BY <4>3, <4>6 DEF Events!Shown
    <3>3. CASE ~Events!AppendEvents
      <4>1. ~Events!RouteToRetry BY <3>1 DEF Events!RouteToRetry
      <4>2. CASE UNCHANGED Events!commands BY <3>1, <4>2 DEF Events!commands,
           Events!Projecting
      <4>3. CASE Events!Publish BY <3>1, <4>3 DEF Events!Publish, Events!Projecting
      <4> QED BY <3>1, <3>3, <4>1, <4>2, <4>3, StageStep
    <3> QED BY <3>2, <3>3
  <2>4. T1' BY <1>t, <2>1
  <2>5. T2' BY <1>t, <2>1, <2>2
  <2>6. T3' BY <1>t, <2>1
  <2>7. T4' BY <1>t, <2>1, <2>2, <2>3
  <2> QED BY <2>4, <2>5, <2>6, <2>7 DEF CrossingsTold
<1> QED BY <1>1, <1>2, <1>3, <1>4, <1>5, ModelStep

-----------------------------------------------------------------------------
(* Nothing is lost *)

LEMMA ShownStays ==
    ASSUME Facts, [Events!Next]_(Events!vars), ~Events!Remount,
           NEW t \in Events!Streams, Events!Shown(t)
    PROVE  Events!Shown(t)' \/ Events!Rebuilding(t)'
<1>0. Events!TypeOK BY DEF Facts
<1>1. t \in Transactions BY <1>0, StreamTyped
<1>2. ASSUME NEW u \in Events!Streams, readModel' = Events!Inserted(Events!Folded(u))
      PROVE  Events!Shown(t)'
  BY <1>1, <1>2, InsertedCrossings
<1>3. CASE Events!Project BY <1>2, <1>3, ProjectInserts
<1>4. CASE Events!ReplayEnds BY <1>2, <1>4, ReplayEndsInserts
<1>5. ASSUME NEW u \in dlq, Events!HandleRedeliverDLQ(u) PROVE Events!Shown(t)'
  <2>1. u \in Events!Streams BY <1>5, RedeliverInserts
  <2>2. CASE ~Events!Shown(u) BY <1>2, <1>5, <2>1, <2>2, RedeliverInserts
  <2>3. CASE Events!Shown(u)
    <3>1. readModel'[u] # <<>> /\ \A v \in Transactions \ {u} : readModel'[v] = readModel[v]
      BY <1>5, <2>3, RedeliverInserts
    <3> QED BY <1>1, <3>1 DEF Events!Shown
  <2> QED BY <2>2, <2>3
<1>6. ASSUME NEW u \in Events!Streams, Events!HandleReplayEvents(u)
      PROVE  Events!Shown(t)' \/ Events!Rebuilding(t)'
  <2>1. CASE u = t
    <3>1. Len(replays) + 1 \in DOMAIN replays' /\ replays'[Len(replays) + 1].id = t
      BY <1>6, <2>1, RebuildsAfter
    <3> QED BY <3>1 DEF Events!Rebuilding
  <2>2. CASE u # t
    <3>1. readModel' = [readModel EXCEPT ![u] = <<>>]
      BY <1>6 DEF Events!HandleReplayEvents
    <3>2. readModel'[t] = readModel[t] BY <1>0, <1>1, <2>2, <3>1 DEF Events!TypeOK
    <3> QED BY <3>2 DEF Events!Shown
  <2> QED BY <2>1, <2>2
<1>7. CASE UNCHANGED readModel BY <1>7 DEF Events!Shown
<1> QED BY <1>3, <1>4, <1>5, <1>6, <1>7, ModelStep

LEMMA RebuildStays ==
    ASSUME Facts, [Events!Next]_(Events!vars), ~Events!Remount,
           NEW t \in Events!Streams, Events!Rebuilding(t)
    PROVE  Events!Shown(t)' \/ Events!Rebuilding(t)'
<1>1. PICK i \in DOMAIN replays : replays[i].id = t BY DEF Events!Rebuilding
<1>2. CASE Events!ReplayEnds
  <2>1. CASE i = 1
    <3>1. readModel' = Events!Inserted(Events!Folded(t))
      BY <1>1, <1>2, <2>1, ReplayEndsInserts
    <3> QED BY <3>1, InsertedCrossings
  <2>2. CASE i # 1
    <3>1. i - 1 \in DOMAIN replays' /\ replays'[i - 1] = replays[i]
      BY <1>2, <2>2, RebuildsAfter
    <3> QED BY <1>1, <3>1 DEF Events!Rebuilding
  <2> QED BY <2>1, <2>2
<1>3. ASSUME NEW u \in Events!Streams, Events!HandleReplayEvents(u)
      PROVE  Events!Rebuilding(t)'
  <2>1. i \in DOMAIN replays' /\ replays'[i] = replays[i] BY <1>3, RebuildsAfter
  <2> QED BY <1>1, <2>1 DEF Events!Rebuilding
<1>4. CASE UNCHANGED replays BY <1>1, <1>4 DEF Events!Rebuilding
<1> QED BY <1>2, <1>3, <1>4, ReplaysStep

LEMMA ProjectingStays ==
    ASSUME Facts, [Events!Next]_(Events!vars), ~Events!Remount,
           NEW t \in Events!Streams, Events!Projecting(t)
    PROVE  Events!Shown(t)' \/ Events!Projecting(t)' \/ \E r \in retryQueue' : r.id = t
<1>1. processingState \in {"publishing", "routing", "success"} /\ command.id = t
  BY DEF Events!Projecting
<1>2. CASE Events!Project
  <2>1. readModel' = Events!Inserted(Events!Folded(t)) BY <1>1, <1>2, ProjectInserts
  <2> QED BY <2>1, InsertedCrossings
<1>3. CASE Events!RouteToRetry
  <2>1. PICK item : item = [id |-> command.id, retryCount |-> 1] OBVIOUS
  <2>2. item \in retryQueue' /\ item.id = t BY <1>1, <1>3, <2>1 DEF Events!RouteToRetry
  <2> QED BY <2>2
<1>4. CASE Events!Publish BY <1>1, <1>4 DEF Events!Publish, Events!Projecting
<1>5. CASE UNCHANGED Events!commands BY <1>1, <1>5 DEF Events!commands, Events!Projecting
<1>6. Events!Project \/ Events!RouteToRetry \/ Events!Publish \/ UNCHANGED Events!commands
  BY <1>1 DEF Events!Next, Events!vars, Events!HandleCreateTopic,
       Events!HandleDeleteTopic, Events!HandleRegisterSchema,
      Events!HandleDispatchCommand, Events!DispatchEnabled, Events!Validate,
      Events!RefuseDuplicate, Events!AppendEvents,
      Events!RetryTick, Events!HandleRedeliverDLQ, Events!HandlePurgeDLQ,
      Events!HandleTakeSnapshot,
      Events!HandleReplayEvents, Events!ReplayEnds
<1> QED BY <1>2, <1>3, <1>4, <1>5, <1>6

LEMMA QueuedStays ==
    ASSUME Facts, [Events!Next]_(Events!vars), ~Events!Remount, NEW t \in Events!Streams,
           t \in dlq \/ t \in purged \/ \E r \in retryQueue : r.id = t
    PROVE  Events!Shown(t)' \/ t \in dlq' \/ t \in purged' \/ \E r \in retryQueue' : r.id = t
<1>1. CASE UNCHANGED <<retryQueue, dlq, purged>> BY <1>1
<1>2. CASE Events!RouteToRetry
  <2>1. retryQueue \subseteq retryQueue' /\ dlq' = dlq /\ purged' = purged
    BY <1>2 DEF Events!RouteToRetry
  <2> QED BY <2>1
<1>3. ASSUME NEW expired \in SUBSET retryQueue, Events!RetryTick(expired)
      PROVE  t \in dlq' \/ t \in purged' \/ \E r \in retryQueue' : r.id = t
  <2>1. PICK dead : dead = {r \in expired : Events!Exhausted(r)} OBVIOUS
  <2>2. /\ retryQueue' = (retryQueue \ expired)
                          \cup {Events!Rescheduled(r) : r \in expired \ dead}
        /\ dlq' = dlq \cup {r.id : r \in dead} /\ purged' = purged
    BY <1>3, <2>1 DEF Events!RetryTick
  <2>3. \A r \in retryQueue : Events!Rescheduled(r).id = r.id BY RetryFacts DEF Facts,
       Events!TypeOK
  <2>4. ASSUME NEW r \in retryQueue, r.id = t
        PROVE  t \in dlq' \/ \E q \in retryQueue' : q.id = t
    <3>1. CASE r \in dead BY <2>2, <2>4, <3>1
    <3>2. CASE r \in expired \ dead
      <4>1. Events!Rescheduled(r) \in retryQueue' BY <2>2, <3>2
      <4> QED BY <2>3, <2>4, <4>1
    <3>3. CASE r \notin expired BY <2>2, <2>4, <3>3
    <3> QED BY <3>1, <3>2, <3>3
  <2> QED BY <2>2, <2>4
<1>4. ASSUME NEW u \in dlq, Events!HandleRedeliverDLQ(u)
      PROVE  Events!Shown(t)' \/ t \in dlq' \/ t \in purged' \/ \E r \in retryQueue' : r.id = t
  <2>1. retryQueue' = retryQueue /\ dlq' = dlq \ {u} /\ purged' = purged
    BY <1>4 DEF Events!HandleRedeliverDLQ
  <2>2. Events!Shown(u)'
    <3>1. CASE Events!Shown(u) BY <1>4, <3>1, RedeliverInserts DEF Events!Shown
    <3>2. CASE ~Events!Shown(u)
      <4>1. u \in Events!Streams /\ readModel' = Events!Inserted(Events!Folded(u))
        BY <1>4, <3>2, RedeliverInserts
      <4> QED BY <4>1, InsertedCrossings
    <3> QED BY <3>1, <3>2
  <2>3. CASE u = t BY <2>2, <2>3
  <2>4. CASE u # t BY <2>1, <2>4
  <2> QED BY <2>3, <2>4
<1>5. ASSUME NEW u \in dlq, Events!HandlePurgeDLQ(u)
      PROVE  t \in dlq' \/ t \in purged' \/ \E r \in retryQueue' : r.id = t
  BY <1>5 DEF Events!HandlePurgeDLQ
<1> QED BY <1>1, <1>2, <1>3, <1>4, <1>5, QueueStep

LEMMA NoneLostStep ==
    ASSUME Facts, NoneLost, [Events!Next]_(Events!vars), ~Events!Remount PROVE NoneLost'
<1>0. Events!TypeOK /\ CommandTells BY DEF Facts
<1>1. ASSUME NEW t \in Events!Streams
      PROVE  \/ Events!Shown(t)' \/ Events!Rebuilding(t)' \/ Events!Projecting(t)'
             \/ t \in dlq' \/ t \in purged' \/ \E r \in retryQueue' : r.id = t
  <2>1. \/ Events!Shown(t) \/ Events!Rebuilding(t) \/ Events!Projecting(t)
        \/ t \in dlq \/ t \in purged \/ \E r \in retryQueue : r.id = t
    BY DEF NoneLost
  <2> QED BY <2>1, ShownStays, RebuildStays, ProjectingStays, QueuedStays
<1>2. ASSUME NEW t \in Events!Streams', t \notin Events!Streams
      PROVE  Events!Projecting(t)'
  <2>1. Events!AppendEvents BY <1>0, <1>2, StreamsStay
  <2>2. t = command.id BY <1>0, <1>2, <2>1, AppendFacts DEF CommandTells
  <2>3. command' = command /\ processingState' = "publishing"
    BY <2>1 DEF Events!AppendEvents
  <2> QED BY <2>2, <2>3 DEF Events!Projecting
<1>3. \A t \in Events!Streams' :
         \/ Events!Shown(t)' \/ Events!Rebuilding(t)' \/ Events!Projecting(t)'
         \/ t \in dlq' \/ t \in purged' \/ \E r \in retryQueue' : r.id = t
  BY <1>1, <1>2
<1> QED BY <1>3 DEF NoneLost

-----------------------------------------------------------------------------

LEMMA EventStep == EventInv /\ [Events!Next]_(Events!vars) => EventInv'
<1> SUFFICES ASSUME EventInv, [Events!Next]_(Events!vars) PROVE EventInv' OBVIOUS
<1>1. CASE Events!Remount BY <1>1, RemountInv
<1>2. CASE ~Events!Remount
  <2>1. Facts /\ CrossingsTold /\ CountsTell /\ NoneLost BY DEF EventInv
  <2> QED BY <1>2, <2>1, FactsStep, CrossingsStep, CountsStep, NoneLostStep DEF EventInv
<1> QED BY <1>1, <1>2

LEMMA EventInvTells ==
    EventInv => Events!TypeOK /\ Events!RowsTellStreams /\ Events!NothingIsLost
<1> SUFFICES ASSUME EventInv PROVE Events!TypeOK /\ Events!RowsTellStreams /\ Events!NothingIsLost OBVIOUS
<1>1. Events!TypeOK /\ RowsTell /\ QueuesTell /\ CrossingsTold /\ CountsTell /\ NoneLost
  BY DEF EventInv, Facts
<1>2. Events!RowsTellStreams BY <1>1 DEF RowsTell, CrossingsTold, Events!RowsTellStreams
<1>3. Events!NothingIsLost BY <1>1, EventsCounted DEF QueuesTell, CountsTell, NoneLost,
     Events!NothingIsLost
<1> QED BY <1>1, <1>2, <1>3

LEMMA StreamsHold ==
    Events!Spec => [](Events!TypeOK /\ Events!RowsTellStreams /\ Events!NothingIsLost)
<1>1. Events!Spec => []EventInv
  BY EventInitInv, EventStep, PTL DEF Events!Spec
<1> QED BY <1>1, EventInvTells, PTL

\* However commands, retries, redeliveries and rebuilds interleave: rows, snapshots
\* and rebuilds say what the streams say, a second row was crossed, and no event,
\* failure or count is lost (EventDrivenDashboard.tsx:132-413).
THEOREM StreamsStayTold == Events!Spec => []StreamsAreTold
BY StreamsHold, PTL DEF StreamsAreTold
=============================================================================
