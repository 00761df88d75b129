---------------------------- MODULE AccessProofs ----------------------------
(***************************************************************************)
(* Proofs about RateLimiter.  Everything rests on what each step does to   *)
(* Level, the number of units Allow would find: the map, the timestamps    *)
(* and the clean-up only matter through it.                                *)
(***************************************************************************)
EXTENDS Access, FiniteSetTheorems, TLAPS

\* RateBounded speaks of a window that may be none; while one is open, what
\* was granted and what is still in the bucket come from the same supply.
Supply ==
    /\ window.client = NoClient => window = NoWindow
    /\ window.client \in Clients =>
           window.granted * Unit + Level(window.client)
               <= Capacity + window.span * Rate

\* What was promised is in the bucket or still to be waited for.
Promise == \A c \in Clients : due[c] # NotDue => Level(c) + due[c] >= Unit

Inv == TypeOK /\ Supply /\ Promise

LEMMA CapacityType == Capacity \in Nat /\ Unit <= Capacity /\ Unit \in Nat /\ Unit > 0
BY LimiterAssumption DEF Capacity

\* The product in Level is a number; the solvers need to be told.
LEMMA LevelType ==
    ASSUME TypeOK, NEW c \in Clients
    PROVE  /\ Level(c) \in 0..Capacity
           /\ tokens[c] \in 0..Capacity
           /\ idle[c] \in 0..IdleCap
           /\ idle[c] * Rate \in Nat
<1>1. tokens[c] \in 0..Capacity /\ idle[c] \in 0..IdleCap
  BY DEF TypeOK
<1>2. idle[c] * Rate \in Nat
  BY <1>1, LimiterAssumption
<1> QED BY <1>1, <1>2, CapacityType DEF Level

\* A whole tick's refill arrives in every bucket, whether it is there or not.
LEMMA LevelTick ==
    ASSUME TypeOK, Tick, NEW c \in Clients
    PROVE  Level(c)' = IF Level(c) + Rate > Capacity THEN Capacity
                       ELSE Level(c) + Rate
<1>1. /\ tokens[c] \in Nat /\ idle[c] \in 0..IdleCap
      /\ idle[c] * Rate \in Nat /\ Rate \in Nat /\ Capacity \in Nat
      /\ IdleCap \in Nat
  BY LevelType, LimiterAssumption, CapacityType
<1>2. /\ tokens' = tokens /\ buckets' = buckets
      /\ idle'[c] = IF idle[c] < IdleCap THEN idle[c] + 1 ELSE idle[c]
      /\ Capacity' = Capacity
  BY DEF Tick, Capacity
<1>3. CASE c \notin buckets
  <2>1. Level(c) = Capacity /\ Level(c)' = Capacity
    BY <1>2, <1>3 DEF Level
  <2> QED BY <1>1, <2>1
<1>4. CASE c \in buckets /\ idle[c] < IdleCap
  <2>1. idle'[c] * Rate = idle[c] * Rate + Rate
    BY <1>1, <1>2, <1>4
  <2>2. /\ tokens'[c] = tokens[c] /\ c \in buckets'
        /\ Level(c) = IF tokens[c] + idle[c] * Rate > Capacity THEN Capacity
                      ELSE tokens[c] + idle[c] * Rate
    BY <1>2, <1>4 DEF Level
  <2>3. Level(c)' = IF tokens[c] + idle'[c] * Rate > Capacity THEN Capacity
                    ELSE tokens[c] + idle'[c] * Rate
    BY <1>2, <2>2 DEF Level
  <2>4. PICK x \in Nat, y \in Nat : x = tokens[c] + idle[c] * Rate /\ y = x + Rate
                                  /\ y = tokens[c] + idle'[c] * Rate
    BY <1>1, <2>1
  <2>5. /\ Level(c) = IF x > Capacity THEN Capacity ELSE x
        /\ Level(c)' = IF y > Capacity THEN Capacity ELSE y
    BY <2>2, <2>3, <2>4
  <2>6. CASE x > Capacity
    <3>1. Level(c) = Capacity /\ Level(c)' = Capacity
      BY <1>1, <2>4, <2>5, <2>6
    <3> QED BY <1>1, <3>1
  <2>7. CASE x <= Capacity
    <3>1. Level(c) = x
      BY <1>1, <2>4, <2>5, <2>7
    <3> QED BY <1>1, <2>4, <2>5, <3>1
  <2> QED BY <1>1, <2>4, <2>6, <2>7
<1>5. CASE c \in buckets /\ idle[c] = IdleCap
  <2>1. IdleCap * Rate >= Capacity
    <3>1. IdleLimit * Rate >= Capacity /\ IdleCap >= IdleLimit
          /\ IdleLimit \in Nat /\ IdleCap \in Nat
      BY LimiterAssumption
    <3>2. IdleCap * Rate >= IdleLimit * Rate
      BY <1>1, <3>1
    <3>3. IdleCap * Rate \in Nat /\ IdleLimit * Rate \in Nat
      BY <1>1, <3>1
    <3> QED BY <1>1, <3>1, <3>2, <3>3
  <2>2. PICK x \in Nat : x = tokens[c] + idle[c] * Rate /\ x >= Capacity
    BY <1>1, <1>5, <2>1
  <2>3. Level(c) = Capacity
    BY <1>1, <2>2, <1>5 DEF Level
  <2>4. Level(c)' = Capacity
    <3>1. /\ tokens'[c] = tokens[c] /\ c \in buckets' /\ idle'[c] = idle[c]
      BY <1>1, <1>2, <1>5
    <3> QED BY <1>1, <1>2, <2>2, <3>1 DEF Level
  <2> QED BY <1>1, <2>3, <2>4
<1> QED BY <1>1, <1>3, <1>4, <1>5

\* What the clean-up deletes was full.
LEMMA LevelSweep ==
    ASSUME TypeOK, Sweep, NEW c \in Clients
    PROVE  Level(c)' = Level(c)
<1>1. /\ tokens[c] \in Nat /\ idle[c] \in 0..IdleCap
      /\ idle[c] * Rate \in Nat /\ Rate \in Nat /\ Capacity \in Nat
  BY LevelType, LimiterAssumption, CapacityType
<1>2. tokens' = tokens /\ idle' = idle /\ buckets' = {d \in buckets : ~Stale(d)}
  BY DEF Sweep
<1>3. CASE ~Stale(c)
  <2>1. c \in buckets' <=> c \in buckets
    BY <1>2, <1>3
  <2> QED BY <1>2, <2>1 DEF Level
<1>4. CASE Stale(c)
  <2>1. c \in buckets /\ idle[c] > IdleLimit /\ c \notin buckets'
    BY <1>2, <1>4 DEF Stale
  <2>2. idle[c] * Rate >= Capacity
    <3>1. IdleLimit * Rate >= Capacity /\ IdleLimit \in Nat
      BY LimiterAssumption
    <3>2. idle[c] * Rate >= IdleLimit * Rate /\ IdleLimit * Rate \in Nat
      BY <1>1, <2>1, <3>1
    <3> QED BY <1>1, <3>1, <3>2
  <2>3. Level(c) = Capacity
    BY <1>1, <2>1, <2>2 DEF Level
  <2>4. Level(c)' = Capacity
    BY <2>1 DEF Level, Capacity
  <2> QED BY <2>3, <2>4
<1> QED BY <1>3, <1>4

\* Allow takes its cost out of one bucket and touches no other.
LEMMA LevelReplenish ==
    ASSUME TypeOK, NEW c \in Clients, NEW cost \in 0..Level(c),
           Replenish(c, cost)
    PROVE  /\ Level(c)' = Level(c) - cost
           /\ \A d \in Clients \ {c} : Level(d)' = Level(d)
           /\ buckets' \subseteq Clients
           /\ tokens' \in [Clients -> 0..Capacity]
           /\ idle' \in [Clients -> 0..IdleCap]
<1>1. Level(c) \in 0..Capacity /\ Capacity \in Nat /\ Rate \in Nat
      /\ IdleCap \in Nat
  BY LevelType, CapacityType, LimiterAssumption
<1>2. /\ buckets' = buckets \cup {c}
      /\ tokens' = [tokens EXCEPT ![c] = Level(c) - cost]
      /\ idle' = [idle EXCEPT ![c] = 0]
  BY DEF Replenish
<1>3. /\ buckets \subseteq Clients /\ tokens \in [Clients -> 0..Capacity]
      /\ idle \in [Clients -> 0..IdleCap]
  BY DEF TypeOK
<1>4. cost \in Nat /\ Level(c) - cost \in 0..Capacity
  BY <1>1
<1>5. Level(c)' = Level(c) - cost
  <2>1. c \in buckets' /\ tokens'[c] = Level(c) - cost /\ idle'[c] = 0
    BY <1>2, <1>3
  <2>2. idle'[c] * Rate = 0
    BY <1>1, <2>1
  <2> QED BY <1>1, <1>4, <2>1, <2>2 DEF Level
<1>6. ASSUME NEW d \in Clients \ {c}
      PROVE  Level(d)' = Level(d)
  <2>1. /\ d \in buckets' <=> d \in buckets
        /\ tokens'[d] = tokens[d] /\ idle'[d] = idle[d]
    BY <1>2, <1>3
  <2> QED BY <2>1 DEF Level, Capacity
<1>7. /\ buckets' \subseteq Clients /\ tokens' \in [Clients -> 0..Capacity]
      /\ idle' \in [Clients -> 0..IdleCap]
  BY <1>1, <1>2, <1>3, <1>4
<1> QED BY <1>5, <1>6, <1>7

-----------------------------------------------------------------------------
LEMMA InitInv == Init => Inv
<1> SUFFICES ASSUME Init PROVE Inv
  OBVIOUS
<1>1. TypeOK
  BY LimiterAssumption, CapacityType DEF Init, TypeOK, NoWindow, NotDue
<1>2. Supply
  BY LimiterAssumption DEF Init, Supply, NoWindow
<1>3. Promise
  BY DEF Init, Promise
<1> QED BY <1>1, <1>2, <1>3 DEF Inv

\* One more grant is one more Unit on the left and one less in the bucket.
LEMMA GrantedInv ==
    ASSUME Inv, NEW c \in Clients, AllowGranted(c)
    PROVE  Inv'
<1> USE DEF Inv
<1>1. /\ Level(c) \in 0..Capacity /\ Level(c) >= Unit /\ Unit \in Nat
      /\ Unit > 0 /\ Replenish(c, Unit) /\ Capacity \in Nat /\ Rate \in Nat
  BY LevelType, CapacityType, LimiterAssumption DEF AllowGranted
<1>2. /\ Level(c)' = Level(c) - Unit
      /\ \A d \in Clients \ {c} : Level(d)' = Level(d)
      /\ buckets' \subseteq Clients
      /\ tokens' \in [Clients -> 0..Capacity]
      /\ idle' \in [Clients -> 0..IdleCap]
  BY <1>1, LevelReplenish
<1>3. /\ answer' = [answer EXCEPT ![c] = "allowed"]
      /\ due' = [due EXCEPT ![c] = NotDue]
      /\ window' = IF window.client = c
                   THEN [window EXCEPT !.granted = @ + 1] ELSE window
  BY DEF AllowGranted
<1>4. window \in [client : Clients \cup {NoClient}, span : 0..MaxSpan,
                  granted : Nat]
  BY DEF TypeOK
<1>5. /\ answer' \in [Clients -> {"none", "allowed", "denied"}]
      /\ due' \in [Clients -> {NotDue} \cup 0..Unit]
  BY <1>3 DEF TypeOK
<1>6. window' \in [client : Clients \cup {NoClient}, span : 0..MaxSpan,
                   granted : Nat]
  BY <1>3, <1>4
<1>7. TypeOK'
  BY <1>2, <1>5, <1>6 DEF TypeOK, Capacity, NotDue
<1>8. Supply'
  <2>1. CASE window.client = c
    <3>1. /\ window'.client = c /\ window'.span = window.span
          /\ window'.granted = window.granted + 1
      BY <1>3, <1>4, <2>1
    <3>2. window.granted * Unit + Level(c) <= Capacity + window.span * Rate
      BY <2>1 DEF Supply
    <3>3. (window.granted + 1) * Unit = window.granted * Unit + Unit
          /\ window.granted * Unit \in Nat
      BY <1>1, <1>4
    <3>4. window'.granted * Unit + Level(c)' = window.granted * Unit + Level(c)
      BY <1>1, <1>2, <3>1, <3>3
    <3>5. c # NoClient
      BY LimiterAssumption
    <3> QED BY <3>1, <3>2, <3>4, <3>5 DEF Supply, Capacity
  <2>2. CASE window.client # c
    <3>1. window' = window
      BY <1>3, <2>2
    <3>2. CASE window.client \in Clients
      <4>1. PICK w \in Clients : w = window.client
        BY <3>2
      <4>2. Level(w)' = Level(w)
        BY <1>2, <2>2, <4>1
      <4> QED BY <3>1, <4>1, <4>2 DEF Supply, Capacity, NoWindow
    <3>3. CASE window.client \notin Clients
      BY <3>1, <3>3 DEF Supply, NoWindow
    <3> QED BY <3>2, <3>3
  <2> QED BY <2>1, <2>2
<1>9. Promise'
  <2> SUFFICES ASSUME NEW d \in Clients, due'[d] # NotDue
               PROVE  Level(d)' + due'[d] >= Unit
    BY DEF Promise, NotDue
  <2>1. d # c /\ due'[d] = due[d]
    BY <1>3 DEF TypeOK
  <2>2. Level(d) + due[d] >= Unit
    BY <2>1 DEF Promise
  <2> QED BY <1>2, <2>1, <2>2
<1> QED BY <1>7, <1>8, <1>9

LEMMA DeniedInv ==
    ASSUME Inv, NEW c \in Clients, AllowDenied(c)
    PROVE  Inv'
<1> USE DEF Inv
<1>1. /\ Level(c) \in 0..Capacity /\ Level(c) < Unit /\ Unit \in Nat
      /\ Replenish(c, 0) /\ Capacity \in Nat
  BY LevelType, CapacityType, LimiterAssumption DEF AllowDenied
<1>2. /\ Level(c)' = Level(c) - 0
      /\ \A d \in Clients \ {c} : Level(d)' = Level(d)
      /\ buckets' \subseteq Clients
      /\ tokens' \in [Clients -> 0..Capacity]
      /\ idle' \in [Clients -> 0..IdleCap]
  <2>1. 0 \in 0..Level(c)
    BY <1>1
  <2> QED BY <1>1, <2>1, LevelReplenish
<1>3. \A d \in Clients : Level(d)' = Level(d)
  BY <1>1, <1>2
<1>4. /\ answer' = [answer EXCEPT ![c] = "denied"]
      /\ due' = [due EXCEPT ![c] = Unit - Level(c)]
      /\ window' = window
  BY DEF AllowDenied, RetryAfter
<1>5. Unit - Level(c) \in 0..Unit
  BY <1>1
<1>6. TypeOK'
  <2>1. /\ answer' \in [Clients -> {"none", "allowed", "denied"}]
        /\ due' \in [Clients -> {NotDue} \cup 0..Unit]
    BY <1>4, <1>5 DEF TypeOK
  <2> QED BY <1>2, <1>4, <2>1 DEF TypeOK, Capacity, NotDue
<1>7. Supply'
  BY <1>3, <1>4 DEF Supply, Capacity, NoWindow
<1>8. Promise'
  <2> SUFFICES ASSUME NEW d \in Clients, due'[d] # NotDue
               PROVE  Level(d)' + due'[d] >= Unit
    BY DEF Promise, NotDue
  <2>1. CASE d = c
    <3>1. due'[d] = Unit - Level(d)
      BY <1>4, <2>1 DEF TypeOK
    <3> QED BY <1>1, <1>3, <2>1, <3>1
  <2>2. CASE d # c
    <3>1. due'[d] = due[d]
      BY <1>4, <2>2 DEF TypeOK
    <3>2. Level(d) + due[d] >= Unit
      BY <3>1 DEF Promise
    <3> QED BY <1>3, <3>1, <3>2
  <2> QED BY <2>1, <2>2
<1> QED BY <1>6, <1>7, <1>8

LEMMA SweepInv == Inv /\ Sweep => Inv'
<1> SUFFICES ASSUME Inv, Sweep PROVE Inv'
  OBVIOUS
<1> USE DEF Inv
<1>1. \A d \in Clients : Level(d)' = Level(d)
  BY LevelSweep
<1>2. UNCHANGED <<tokens, idle, answer, due, window>> /\ buckets' \subseteq buckets
  BY DEF Sweep
<1>3. TypeOK'
  BY <1>2 DEF TypeOK, Capacity, NotDue
<1>4. Supply'
  BY <1>1, <1>2 DEF Supply, Capacity, NoWindow
<1>5. Promise'
  BY <1>1, <1>2 DEF Promise, NotDue
<1> QED BY <1>3, <1>4, <1>5

\* A tick puts at most Rate on the left of Supply and Rate on its right.
LEMMA TickInv == Inv /\ Tick => Inv'
<1> SUFFICES ASSUME Inv, Tick PROVE Inv'
  OBVIOUS
<1> USE DEF Inv
<1>1. /\ Rate \in Nat /\ Unit \in Nat /\ Capacity \in Nat /\ Unit <= Capacity
      /\ MaxSpan \in Nat /\ NoClient \notin Clients /\ IdleCap \in Nat
  BY LimiterAssumption, CapacityType
<1>2. \A d \in Clients :
          /\ Level(d) \in 0..Capacity
          /\ Level(d)' = IF Level(d) + Rate > Capacity THEN Capacity
                         ELSE Level(d) + Rate
  BY LevelType, LevelTick
<1>3. window \in [client : Clients \cup {NoClient}, span : 0..MaxSpan,
                  granted : Nat]
  BY DEF TypeOK
<1>4. window' = IF window.client \in Clients /\ window.span < MaxSpan
                THEN [window EXCEPT !.span = @ + 1] ELSE NoWindow
  BY DEF Tick
<1>5. TypeOK'
  <2>1. idle' \in [Clients -> 0..IdleCap]
    BY <1>1 DEF Tick, TypeOK
  <2>2. answer' \in [Clients -> {"none", "allowed", "denied"}]
    BY DEF Tick
  <2>3. due' \in [Clients -> {NotDue} \cup 0..Unit]
    <3> SUFFICES ASSUME NEW d \in Clients
                 PROVE  (IF due[d] > Rate THEN due[d] - Rate
                         ELSE IF due[d] = NotDue THEN NotDue ELSE 0)
                            \in {NotDue} \cup 0..Unit
      BY DEF Tick
    <3>1. due[d] \in {NotDue} \cup 0..Unit
      BY DEF TypeOK
    <3> QED BY <1>1, <3>1 DEF NotDue
  <2>4. window' \in [client : Clients \cup {NoClient}, span : 0..MaxSpan,
                     granted : Nat]
    BY <1>1, <1>3, <1>4 DEF NoWindow
  <2>5. buckets' = buckets /\ tokens' = tokens
    BY DEF Tick
  <2> QED BY <2>1, <2>2, <2>3, <2>4, <2>5 DEF TypeOK, Capacity, NotDue
<1>6. Supply'
  <2>1. CASE window.client \in Clients /\ window.span < MaxSpan
    <3>1. /\ window'.client = window.client /\ window'.granted = window.granted
          /\ window'.span = window.span + 1
      BY <1>3, <1>4, <2>1
    <3>2. window.granted * Unit + Level(window.client)
              <= Capacity + window.span * Rate
      BY <2>1 DEF Supply
    <3>3. /\ (window.span + 1) * Rate = window.span * Rate + Rate
          /\ window.span * Rate \in Nat /\ window.granted * Unit \in Nat
      BY <1>1, <1>3
    <3>4. PICK w \in Clients : w = window.client
      BY <2>1
    <3>5. Level(w)' <= Level(w) + Rate /\ Level(w)' \in Nat /\ Level(w) \in Nat
      BY <1>1, <1>2
    <3>6. window'.granted * Unit + Level(w)' <= Capacity + window'.span * Rate
      BY <1>1, <3>1, <3>2, <3>3, <3>4, <3>5
    <3>7. window'.client = w /\ w # NoClient
      BY <1>1, <3>1, <3>4
    <3> QED BY <3>6, <3>7 DEF Supply, Capacity
  <2>2. CASE ~(window.client \in Clients /\ window.span < MaxSpan)
    BY <1>1, <1>4, <2>2 DEF Supply, NoWindow
  <2> QED BY <2>1, <2>2
<1>7. Promise'
  <2> SUFFICES ASSUME NEW d \in Clients, due'[d] # NotDue
               PROVE  Level(d)' + due'[d] >= Unit
    BY DEF Promise, NotDue
  <2>1. /\ due[d] \in {NotDue} \cup 0..Unit
        /\ due'[d] = IF due[d] > Rate THEN due[d] - Rate
                     ELSE IF due[d] = NotDue THEN NotDue ELSE 0
    BY DEF TypeOK, Tick
  <2>2. due[d] # NotDue /\ due[d] \in 0..Unit
    BY <1>1, <2>1 DEF NotDue
  <2>3. Level(d) + due[d] >= Unit
    BY <2>2 DEF Promise
  <2> QED BY <1>1, <1>2, <2>1, <2>2, <2>3
<1> QED BY <1>5, <1>6, <1>7

\* A window opens on a bucket that is at most full.
LEMMA WatchInv ==
    ASSUME Inv, NEW c \in Clients, WatchFrom(c)
    PROVE  Inv'
<1> USE DEF Inv
<1>1. UNCHANGED <<buckets, tokens, idle, answer, due>>
      /\ window' = [client |-> c, span |-> 0, granted |-> 0]
  BY DEF WatchFrom, NoWindow
<1>2. \A d \in Clients : Level(d)' = Level(d)
  BY <1>1 DEF Level, Capacity
<1>3. /\ Level(c) \in 0..Capacity /\ Unit \in Nat /\ Rate \in Nat
      /\ Capacity \in Nat /\ MaxSpan \in Nat /\ c # NoClient
  BY LevelType, LimiterAssumption, CapacityType
<1>4. TypeOK'
  BY <1>1, <1>3 DEF TypeOK, Capacity, NotDue
<1>5. Supply'
  <2>1. /\ window'.client = c /\ window'.granted * Unit = 0
        /\ window'.span * Rate = 0
    BY <1>1, <1>3
  <2> QED BY <1>2, <1>3, <2>1 DEF Supply, Capacity
<1>6. Promise'
  BY <1>1, <1>2 DEF Promise, NotDue
<1> QED BY <1>4, <1>5, <1>6

LEMMA NextInv == Inv /\ [Next]_vars => Inv'
<1> SUFFICES ASSUME Inv, [Next]_vars PROVE Inv'
  OBVIOUS
<1>1. ASSUME NEW c \in Clients, AllowGranted(c) PROVE Inv'
  BY <1>1, GrantedInv
<1>2. ASSUME NEW c \in Clients, AllowDenied(c) PROVE Inv'
  BY <1>2, DeniedInv
<1>3. ASSUME NEW c \in Clients, WatchFrom(c) PROVE Inv'
  BY <1>3, WatchInv
<1>4. CASE Sweep
  BY <1>4, SweepInv
<1>5. CASE Tick
  BY <1>5, TickInv
<1>6. CASE UNCHANGED vars
  BY <1>6 DEF vars, Inv, TypeOK, Supply, Promise, Level, Capacity, NotDue,
              NoWindow
<1> QED BY <1>1, <1>2, <1>3, <1>4, <1>5, <1>6 DEF Next, Allow

LEMMA Invariance == Spec => []Inv
<1>1. QED BY InitInv, NextInv, PTL DEF Spec

-----------------------------------------------------------------------------
\* The limiter's map, timestamps and amounts keep their types: no bucket is
\* ever overfull or negative.
THEOREM TypeCorrect == Spec => []TypeOK
<1>1. Inv => TypeOK
  BY DEF Inv
<1>2. QED BY Invariance, <1>1, PTL

\* Over no window is a client granted more than a full bucket and the refill
\* of that window, for any number of clients, any rate and any burst.
THEOREM RateStaysBounded == Spec => []RateBounded
<1>1. ASSUME Inv PROVE RateBounded
  <2>1. window \in [client : Clients \cup {NoClient}, span : 0..MaxSpan,
                    granted : Nat]
    BY <1>1 DEF Inv, TypeOK
  <2>2. /\ Unit \in Nat /\ Rate \in Nat /\ Capacity \in Nat
    BY LimiterAssumption, CapacityType
  <2>3. window.granted * Unit \in Nat /\ window.span * Rate \in Nat
    BY <2>1, <2>2
  <2>4. CASE window.client \in Clients
    <3>1. Level(window.client) \in 0..Capacity
      BY <1>1, <2>4, LevelType DEF Inv
    <3>2. window.granted * Unit + Level(window.client)
              <= Capacity + window.span * Rate
      BY <1>1, <2>4 DEF Inv, Supply
    <3> QED BY <2>2, <2>3, <3>1, <3>2 DEF RateBounded
  <2>5. CASE window.client = NoClient
    <3>1. window.granted = 0
      BY <1>1, <2>5 DEF Inv, Supply, NoWindow
    <3>2. window.granted * Unit = 0
      BY <2>2, <3>1
    <3> QED BY <2>2, <2>3, <3>2 DEF RateBounded
  <2> QED BY <2>1, <2>4, <2>5
<1>2. QED BY Invariance, <1>1, PTL

\* A denied client that waits as long as it was told finds its token.
THEOREM RetriesAreHonoured == Spec => []RetryHonoured
<1>1. ASSUME Inv PROVE RetryHonoured
  <2> SUFFICES ASSUME NEW c \in Clients, due[c] = 0 PROVE Level(c) >= Unit
    BY DEF RetryHonoured
  <2>1. Level(c) + due[c] >= Unit
    BY <1>1 DEF Inv, Promise, NotDue
  <2>2. Level(c) \in 0..Capacity /\ Capacity \in Nat
    BY <1>1, LevelType, CapacityType DEF Inv
  <2> QED BY <2>1, <2>2
<1>2. QED BY Invariance, <1>1, PTL

\* Nobody is granted more than the rate allows or refused what was promised.
THEOREM LimitsStayHeld == Spec => []LimitsHold
BY RateStaysBounded, RetriesAreHonoured, PTL DEF LimitsHold

\* The lazy limiter with its clean-up implements the eager bucket: every
\* answer is the one a bucket refilled at every tick would have given.
THEOREM LazyIsEager == Spec => ImplementsTokenBucket
<1> DEFINE shown == [c \in Clients |-> Level(c)]
<1>1. Init => Bucket!Init
  <2> SUFFICES ASSUME Init PROVE Bucket!Init
    OBVIOUS
  <2>1. \A c \in Clients : Level(c) = Capacity
    BY DEF Init, Level
  <2> QED BY <2>1 DEF Init, Bucket!Init, Bucket!Capacity, Capacity
<1>2. Inv /\ [Next]_vars => [Bucket!Next]_<<shown, answer>>
  <2> SUFFICES ASSUME Inv, [Next]_vars
               PROVE  Bucket!Next \/ UNCHANGED <<shown, answer>>
    OBVIOUS
  <2>1. /\ Unit \in Nat /\ Rate \in Nat /\ Capacity \in Nat
    BY LimiterAssumption, CapacityType
  <2>2. TypeOK /\ \A c \in Clients : Level(c) \in 0..Capacity
    BY LevelType DEF Inv
  <2>3. ASSUME NEW c \in Clients, AllowGranted(c) PROVE Bucket!Grant(c)
    <3>1. Level(c) >= Unit /\ Replenish(c, Unit) /\ Unit \in 0..Level(c)
      BY <2>1, <2>2, <2>3 DEF AllowGranted
    <3>2. /\ Level(c)' = Level(c) - Unit
          /\ \A d \in Clients \ {c} : Level(d)' = Level(d)
      BY <2>2, <3>1, LevelReplenish
    <3>3. shown' = [shown EXCEPT ![c] = @ - Unit]
      BY <3>2
    <3> QED BY <2>3, <3>1, <3>3 DEF Bucket!Grant, AllowGranted
  <2>4. ASSUME NEW c \in Clients, AllowDenied(c) PROVE Bucket!Deny(c)
    <3>1. Level(c) < Unit /\ Replenish(c, 0) /\ 0 \in 0..Level(c)
      BY <2>1, <2>2, <2>4 DEF AllowDenied
    <3>2. \A d \in Clients : Level(d)' = Level(d)
      BY <2>1, <2>2, <3>1, LevelReplenish
    <3>3. shown' = shown
      BY <3>2
    <3> QED BY <2>4, <3>1, <3>3 DEF Bucket!Deny, AllowDenied
  <2>5. ASSUME NEW c \in Clients, WatchFrom(c)
        PROVE  UNCHANGED <<shown, answer>>
    <3>1. \A d \in Clients : Level(d)' = Level(d)
      BY <2>5 DEF WatchFrom, Level, Capacity
    <3> QED BY <2>5, <3>1 DEF WatchFrom
  <2>6. CASE Sweep
    <3>1. \A d \in Clients : Level(d)' = Level(d)
      BY <2>2, <2>6, LevelSweep
    <3> QED BY <2>6, <3>1 DEF Sweep
  <2>7. CASE Tick
    <3>1. shown' = [c \in Clients |->
                       IF shown[c] + Rate > Capacity THEN Capacity
                       ELSE shown[c] + Rate]
      BY <2>2, <2>7, LevelTick
    <3>2. Bucket!Refill
      BY <2>7, <3>1 DEF Bucket!Refill, Bucket!Capacity, Capacity, Tick
    <3> QED BY <3>2 DEF Bucket!Next
  <2>8. CASE UNCHANGED vars
    <3>1. \A d \in Clients : Level(d)' = Level(d)
      BY <2>8 DEF vars, Level, Capacity
    <3> QED BY <2>8, <3>1 DEF vars
  <2> QED
    BY <2>3, <2>4, <2>5, <2>6, <2>7, <2>8 DEF Next, Allow, Bucket!Next
<1>3. QED
  BY Invariance, <1>1, <1>2, PTL DEF Spec, ImplementsTokenBucket, Bucket!Spec

-----------------------------------------------------------------------------
(***************************************************************************)
(* The circuit breaker as the requests of ReverseProxy use it.  All a      *)
(* request does to the breaker is Admit, Reject or RecordResult, in        *)
(* whatever state the breaker is by then: each of them keeps the invariant *)
(* of the breaker, and no other step touches it.                           *)
(***************************************************************************)

\* The failures that reach the rate over a full window.
RateRun == (FailNum * Window + FailDen - 1) \div FailDen

\* The failures in a row are all in the window, or they fill it and what came
\* before the restart was no more than the rate allows.
StreakInWindow ==
    state = "closed" =>
        \/ streak <= counts.failure
        \/ counts.failure = counts.total /\ streak <= RateRun - 1 + counts.total

\* The clock of the cooldown starts when the breaker opens.
OpenIsStamped == state = "open" => openFor = elapsed

FailuresAreCounted == counts.failure <= counts.total

BreakerInv ==
    /\ Proxy!BreakerTypeOK
    /\ Proxy!ClosedMeansHealthy
    /\ Proxy!HalfOpenIsClean
    /\ StreakInWindow
    /\ FailuresAreCounted /\ OpenIsStamped

ProxyTypeOK ==
    /\ index \in Proxy!TargetIds
    /\ cache \in [Keys -> 0..CacheTTL]
    /\ health \in [Proxy!TargetIds -> Healths]
    /\ req \in [Requests ->
                   [at : Proxy!Places, key : Keys \cup {NoKey}, target : Proxy!TargetIds,
                    attempt : 0..MaxRetryAttempts, result : Proxy!Results]]

-----------------------------------------------------------------------------
(* Arithmetic *)

\* Fewer failures than the rate asks for are fewer than the rate rounded up.
LEMMA CeilBound ==
    ASSUME NEW a \in Nat, NEW b \in Nat, b > 0, NEW f \in Nat, f * b < a
    PROVE  f + 1 <= (a + b - 1) \div b
<1> DEFINE q == (a + b - 1) \div b
<1>1. q \in Int /\ a + b - 1 < (q + 1) * b
  BY SMT
<1>2. (f + 1) * b = f * b + b
  BY SMT
<1> HIDE DEF q
<1>3. (f + 1) * b < (q + 1) * b
  BY <1>1, <1>2, SMT
<1>4. f + 1 < q + 1
  BY <1>1, <1>3, SMT
<1>5. f + 1 <= q
  BY <1>1, <1>4, SMT
<1> QED BY <1>5 DEF q

LEMMA RateRunBounds ==
    ASSUME Proxy!BreakerAssumption
    PROVE  /\ RateRun \in Nat /\ RateRun >= 1
           /\ \A f \in Nat, t \in Nat :
                t <= Window /\ f * FailDen < FailNum * t => f <= RateRun - 1
           /\ Proxy!TrippingRun = RateRun + MinSample - 1
<1>1. /\ FailNum \in Nat /\ FailNum > 0 /\ FailDen \in Nat /\ FailDen > 0
      /\ Window \in Nat /\ Window >= 1 /\ MinSample \in Nat
  BY DEF Proxy!BreakerAssumption
<1>2. FailNum * Window \in Nat /\ FailNum * Window >= 1
  BY <1>1, SMT
<1>3. RateRun \in Int
  BY <1>1, <1>2, SMT DEF RateRun
<1>4. 0 + 1 <= RateRun
  <2>1. 0 * FailDen < FailNum * Window
    BY <1>1, <1>2, SMT
  <2> QED BY <1>1, <1>2, <2>1, CeilBound DEF RateRun
<1>5. ASSUME NEW f \in Nat, NEW t \in Nat, t <= Window, f * FailDen < FailNum * t
      PROVE  f <= RateRun - 1
  <2>1. FailNum * t <= FailNum * Window
    BY <1>1, <1>5, SMT
  <2>2. f * FailDen < FailNum * Window
    BY <1>1, <1>2, <1>5, <2>1, SMT
  <2>3. f + 1 <= RateRun
    BY <1>1, <1>2, <2>2, CeilBound DEF RateRun
  <2> QED BY <1>3, <2>3, SMT
<1>6. Proxy!TrippingRun = RateRun + MinSample - 1
  BY DEF Proxy!TrippingRun, RateRun
<1> QED BY <1>3, <1>4, <1>5, <1>6

\* A sample of failures only reaches every rate.
LEMMA AllFailuresReachRate ==
    ASSUME Proxy!BreakerAssumption, NEW n \in Nat
    PROVE  n * FailDen >= FailNum * n
BY SMT DEF Proxy!BreakerAssumption

-----------------------------------------------------------------------------
(* The breaker *)

LEMMA CountedType ==
    ASSUME Proxy!BreakerTypeOK, NEW success \in BOOLEAN
    PROVE  LET c == Proxy!Counted(success)
           IN  /\ c \in [failure : Nat, success : Nat, total : Nat]
               /\ c.total = counts.total + 1
               /\ c.failure = counts.failure + (IF success THEN 0 ELSE 1)
               /\ c.success = counts.success + (IF success THEN 1 ELSE 0)
BY DEF Proxy!BreakerTypeOK, Proxy!Counted

LEMMA BreakerInitInv == ASSUME Proxy!BreakerAssumption, Proxy!BreakerInit PROVE BreakerInv
<1>1. MinSample \in Nat /\ MinSample >= 1 /\ Window \in Nat /\ Window >= 1 /\ Cooldown \in Nat
  BY DEF Proxy!BreakerAssumption
<1> QED BY <1>1 DEF Proxy!BreakerInit, BreakerInv, Proxy!BreakerTypeOK, Proxy!NoCounts,
   Proxy!ClosedMeansHealthy,
                   Proxy!HalfOpenIsClean, StreakInWindow, FailuresAreCounted,
                      OpenIsStamped

LEMMA BreakerTickInv == ASSUME Proxy!BreakerAssumption, BreakerInv, Proxy!BreakerTick
PROVE BreakerInv'
<1>1. Cooldown \in Nat
  BY DEF Proxy!BreakerAssumption
<1>2. Proxy!BreakerTypeOK'
  BY <1>1 DEF BreakerInv, Proxy!BreakerTypeOK, Proxy!BreakerTick
<1>3. Proxy!ClosedMeansHealthy' /\ Proxy!HalfOpenIsClean' /\ StreakInWindow'
  BY DEF BreakerInv, Proxy!BreakerTick, Proxy!ClosedMeansHealthy, Proxy!HalfOpenIsClean,
     StreakInWindow, RateRun
<1>4. OpenIsStamped'
  BY <1>1 DEF BreakerInv, Proxy!BreakerTypeOK, Proxy!BreakerTick, OpenIsStamped
<1>5. FailuresAreCounted'
  BY DEF BreakerInv, Proxy!BreakerTick, FailuresAreCounted
<1> QED BY <1>2, <1>3, <1>4, <1>5 DEF BreakerInv

LEMMA UnchangedInv == ASSUME BreakerInv, UNCHANGED Proxy!breakerVars PROVE BreakerInv'
BY DEF BreakerInv, Proxy!breakerVars, Proxy!BreakerTypeOK, Proxy!ClosedMeansHealthy,
   Proxy!HalfOpenIsClean,
       StreakInWindow, RateRun, FailuresAreCounted, OpenIsStamped

LEMMA AdmitInv ==
    ASSUME Proxy!BreakerAssumption, BreakerInv, Proxy!Admit
    PROVE  BreakerInv'
<1>1. CASE UNCHANGED Proxy!breakerVars
  BY <1>1, UnchangedInv
<1>2. CASE Proxy!Enter("half-open") /\ counts' = Proxy!NoCounts
  <2>1. HalfOpenLimit \in Nat /\ HalfOpenLimit >= 1 /\ Cooldown \in Nat
    BY DEF Proxy!BreakerAssumption
  <2> QED BY <1>2, <2>1
     DEF Proxy!Enter, Proxy!NoCounts, BreakerInv, Proxy!BreakerTypeOK, Proxy!ClosedMeansHealthy,
                Proxy!HalfOpenIsClean, StreakInWindow, FailuresAreCounted, OpenIsStamped
<1> QED BY <1>1, <1>2 DEF Proxy!Admit

LEMMA RecordHalfOpenInv ==
    ASSUME Proxy!BreakerAssumption, BreakerInv, NEW success \in BOOLEAN,
           Proxy!RecordHalfOpen(success)
    PROVE  BreakerInv'
<1>1. /\ HalfOpenLimit \in Nat /\ HalfOpenLimit >= 1 /\ Cooldown \in Nat
      /\ MinSample \in Nat /\ MinSample >= 1 /\ Window \in Nat /\ Window >= 1
  BY DEF Proxy!BreakerAssumption
<1> DEFINE c == Proxy!Counted(success)
<1>2. /\ c \in [failure : Nat, success : Nat, total : Nat]
      /\ c.failure = counts.failure + (IF success THEN 0 ELSE 1)
      /\ c.failure <= c.total
  BY CountedType DEF BreakerInv, Proxy!BreakerTypeOK, FailuresAreCounted
<1> HIDE DEF c
<1>3. CASE Proxy!Enter("open") /\ counts' = c
  BY <1>1, <1>2, <1>3
     DEF Proxy!Enter, BreakerInv, Proxy!BreakerTypeOK, Proxy!ClosedMeansHealthy,
        Proxy!HalfOpenIsClean, StreakInWindow, FailuresAreCounted, OpenIsStamped
<1>4. CASE Proxy!Enter("closed") /\ counts' = Proxy!NoCounts
  BY <1>1, <1>4
     DEF Proxy!Enter, Proxy!NoCounts, BreakerInv, Proxy!BreakerTypeOK, Proxy!ClosedMeansHealthy,
        Proxy!HalfOpenIsClean, StreakInWindow, FailuresAreCounted, OpenIsStamped
<1>5. CASE /\ success /\ c.success < HalfOpenLimit /\ counts' = c
           /\ UNCHANGED <<state, elapsed, openFor, streak>>
  <2>1. state = "half-open" /\ counts.failure = 0
    BY DEF Proxy!RecordHalfOpen, BreakerInv, Proxy!HalfOpenIsClean
  <2> QED BY <1>2, <1>5, <2>1
     DEF BreakerInv, Proxy!BreakerTypeOK, Proxy!ClosedMeansHealthy,
                Proxy!HalfOpenIsClean, StreakInWindow, FailuresAreCounted, OpenIsStamped
<1> QED BY <1>3, <1>4, <1>5 DEF Proxy!RecordHalfOpen, c

LEMMA RecordOpenInv ==
    ASSUME BreakerInv, NEW success \in BOOLEAN, Proxy!RecordOpen(success)
    PROVE  BreakerInv'
<1>1. LET c == Proxy!Counted(success)
      IN  /\ c \in [failure : Nat, success : Nat, total : Nat]
          /\ c.total = counts.total + 1 /\ c.failure <= counts.failure + 1
          /\ c.failure <= counts.failure \/ ~success
          /\ counts \in [failure : Nat, success : Nat, total : Nat]
  BY CountedType DEF BreakerInv, Proxy!BreakerTypeOK
<1> QED BY <1>1
   DEF Proxy!RecordOpen, BreakerInv, Proxy!BreakerTypeOK, Proxy!ClosedMeansHealthy,
             Proxy!HalfOpenIsClean, StreakInWindow, FailuresAreCounted, OpenIsStamped

\* The only step that needs an argument: a result that does not trip, in a
\* window that goes on or restarts.
LEMMA RecordClosedInv ==
    ASSUME Proxy!BreakerAssumption, BreakerInv,
           NEW success \in BOOLEAN, Proxy!RecordClosed(success)
    PROVE  BreakerInv'
<1> DEFINE c == Proxy!Counted(success)
<1>1. /\ MinSample \in Nat /\ MinSample >= 1 /\ Window \in Nat /\ Window >= MinSample
      /\ FailNum \in Nat /\ FailDen \in Nat /\ Cooldown \in Nat
  BY DEF Proxy!BreakerAssumption
<1>2. /\ c \in [failure : Nat, success : Nat, total : Nat]
      /\ c.total = counts.total + 1
      /\ c.failure = counts.failure + (IF success THEN 0 ELSE 1)
  BY CountedType DEF BreakerInv
<1>3. state = "closed" /\ counts' = (IF c.total >= Window THEN Proxy!NoCounts ELSE c)
  BY DEF Proxy!RecordClosed, Proxy!Windowed
<1>4. counts.total < Window /\ streak \in Nat /\ counts.failure \in Nat /\ counts.total \in Nat
  BY <1>3 DEF BreakerInv, Proxy!BreakerTypeOK, Proxy!ClosedMeansHealthy
<1>5. RateRun \in Nat /\ RateRun >= 1
  BY RateRunBounds
<1>6. /\ counts' \in [failure : Nat, success : Nat, total : Nat]
      /\ FailuresAreCounted'
  BY <1>2, <1>3, <1>4 DEF Proxy!NoCounts, BreakerInv, FailuresAreCounted
<1>7. \/ Proxy!Trips(c) /\ Proxy!Enter("open")
      \/ /\ ~Proxy!Trips(c)
         /\ streak' = IF success THEN 0 ELSE streak + 1
         /\ UNCHANGED <<state, elapsed, openFor>>
  BY DEF Proxy!RecordClosed
<1> HIDE DEF c
<1>8. CASE Proxy!Enter("open")
  BY <1>1, <1>6, <1>8
     DEF Proxy!Enter, BreakerInv, Proxy!BreakerTypeOK, Proxy!ClosedMeansHealthy,
        Proxy!HalfOpenIsClean, StreakInWindow, FailuresAreCounted, OpenIsStamped
<1>9. CASE /\ ~Proxy!Trips(c)
           /\ streak' = IF success THEN 0 ELSE streak + 1
           /\ UNCHANGED <<state, elapsed, openFor>>
  <2>1. Proxy!BreakerTypeOK' /\ Proxy!HalfOpenIsClean' /\ OpenIsStamped'
    BY <1>3, <1>4, <1>6, <1>9
       DEF BreakerInv, Proxy!BreakerTypeOK, Proxy!HalfOpenIsClean, OpenIsStamped
  <2>2. c.total < MinSample \/ c.failure * FailDen < FailNum * c.total
    <3>1. c.failure * FailDen \in Int /\ FailNum * c.total \in Int
      BY <1>1, <1>2, SMT
    <3> QED BY <1>1, <1>2, <1>9, <3>1 DEF Proxy!Trips, Proxy!RateReached
  <2>3. CASE c.total >= Window
    <3>1. counts' = Proxy!NoCounts /\ counts'.failure = 0 /\ counts'.total = 0
      BY <1>3, <2>3 DEF Proxy!NoCounts
    <3>2. c.total = Window /\ c.failure * FailDen < FailNum * c.total
      BY <1>1, <1>2, <1>4, <2>2, <2>3
    <3>3. c.failure <= RateRun - 1
      BY <1>1, <1>2, <3>2, RateRunBounds
    <3>4. c.failure # c.total
      BY <1>2, <3>2, AllFailuresReachRate, <1>1, SMT
    <3>5. streak' <= RateRun - 1
      <4>1. CASE success
        BY <1>5, <1>9, <4>1
      <4>2. CASE ~success
        <5>1. streak <= counts.failure
          BY <1>2, <1>3, <3>4, <4>2 DEF BreakerInv, StreakInWindow
        <5> QED BY <1>2, <1>4, <1>5, <1>9, <3>3, <4>2, <5>1
      <4> QED BY <4>1, <4>2
    <3>6. Proxy!ClosedMeansHealthy'
      BY <1>1, <3>1 DEF Proxy!ClosedMeansHealthy
    <3>7. RateRun' = RateRun
      BY DEF RateRun
    <3>8. StreakInWindow'
      BY <1>5, <3>1, <3>5, <3>7 DEF StreakInWindow
    <3> QED BY <1>6, <2>1, <3>6, <3>8 DEF BreakerInv
  <2>4. CASE c.total < Window
    <3>1. counts' = c
      BY <1>1, <1>2, <1>3, <2>4
    <3>2. Proxy!ClosedMeansHealthy'
      BY <2>2, <2>4, <3>1 DEF Proxy!ClosedMeansHealthy
    <3>3. RateRun' = RateRun
      BY DEF RateRun
    <3>4. StreakInWindow'
      <4>1. CASE success
        BY <1>2, <1>9, <3>1, <4>1 DEF StreakInWindow
      <4>2. CASE ~success
        <5>1. \/ streak <= counts.failure
              \/ counts.failure = counts.total /\ streak <= RateRun - 1 + counts.total
          BY <1>3 DEF BreakerInv, StreakInWindow
        <5>2. streak' = streak + 1 /\ c.failure = counts.failure + 1
          BY <1>2, <1>9, <4>2
        <5>3. \/ streak' <= c.failure
              \/ c.failure = c.total /\ streak' <= RateRun - 1 + c.total
          BY <1>2, <1>4, <1>5, <5>1, <5>2
        <5> QED BY <3>1, <3>3, <5>3 DEF StreakInWindow
      <4> QED BY <4>1, <4>2
    <3> QED BY <1>6, <2>1, <3>2, <3>4 DEF BreakerInv
  <2> QED BY <1>1, <1>2, <2>3, <2>4
<1> QED BY <1>7, <1>8, <1>9

LEMMA RecordInv ==
    ASSUME Proxy!BreakerAssumption, BreakerInv,
           NEW success \in BOOLEAN, Proxy!RecordResult(success)
    PROVE  BreakerInv'
BY RecordHalfOpenInv, RecordClosedInv, RecordOpenInv DEF Proxy!RecordResult

-----------------------------------------------------------------------------
(* The requests *)

\* What a step of the proxy does to the breaker.
BreakerStep ==
    \/ UNCHANGED Proxy!breakerVars
    \/ Proxy!BreakerTick
    \/ Proxy!Admit
    \/ \E success \in BOOLEAN : Proxy!RecordResult(success)

LEMMA StepsOfBreaker == ASSUME [Proxy!Next]_(Proxy!vars) PROVE BreakerStep
<1>1. CASE UNCHANGED Proxy!vars
  BY <1>1 DEF Proxy!vars, BreakerStep
<1>2. ASSUME NEW r \in Requests, Proxy!Arrivals(r) PROVE BreakerStep
  BY <1>2 DEF Proxy!Arrivals, Proxy!CacheHit, Proxy!CacheMiss, BreakerStep
<1>3. ASSUME NEW r \in Requests, Proxy!HandlerSteps(r) PROVE BreakerStep
  <2>1. CASE Proxy!Refused(r) \/ Proxy!Admitted(r)
    BY <2>1 DEF Proxy!Refused, Proxy!Admitted, Proxy!Reject, BreakerStep
  <2>2. CASE \/ Proxy!NextTarget(r) \/ Proxy!BodyUnreadable(r)
             \/ Proxy!Attempt(r) \/ Proxy!StoreResponse(r)
    BY <2>2
       DEF Proxy!NextTarget, Proxy!BodyUnreadable, Proxy!Attempt, Proxy!StoreResponse,
       BreakerStep
  <2>3. CASE Proxy!RecordFailure(r) \/ Proxy!RecordSuccess(r)
    BY <2>3 DEF Proxy!RecordFailure, Proxy!RecordSuccess, BreakerStep
  <2> QED BY <1>3, <2>1, <2>2, <2>3 DEF Proxy!HandlerSteps
<1>4. CASE Proxy!Tick
  BY <1>4 DEF Proxy!Tick, BreakerStep
<1>5. ASSUME NEW t \in Proxy!TargetIds, NEW h \in Healths, Proxy!HealthChanges(t, h)
      PROVE BreakerStep
  BY <1>5 DEF Proxy!HealthChanges, BreakerStep
<1> QED BY <1>1, <1>2, <1>3, <1>4, <1>5 DEF Proxy!Next

LEMMA StepInv == ASSUME Proxy!BreakerAssumption, BreakerInv, BreakerStep PROVE BreakerInv'
BY UnchangedInv, BreakerTickInv, AdmitInv, RecordInv DEF BreakerStep

LEMMA ProxyTypes == ASSUME Proxy!ProxyAssumption, ProxyTypeOK, [Proxy!Next]_(Proxy!vars)
PROVE ProxyTypeOK'
<1>1. /\ Targets \in Nat /\ Targets >= 1 /\ MaxRetryAttempts \in Nat /\ CacheTTL \in Nat
      /\ Healths \subseteq {"up", "erring", "down"}
  BY DEF Proxy!ProxyAssumption
<1>2. CASE UNCHANGED Proxy!vars
  BY <1>2 DEF Proxy!vars, Proxy!proxyVars, ProxyTypeOK
<1>3. ASSUME NEW r \in Requests, NEW k \in Keys \cup {NoKey}, Proxy!CacheMiss(r, k)
      PROVE  ProxyTypeOK'
  <2> DEFINE slot == [Proxy!Idle EXCEPT !.at = "allow", !.key = k]
  <2>1. slot \in [at : Proxy!Places, key : Keys \cup {NoKey}, target : Proxy!TargetIds,
                  attempt : 0..MaxRetryAttempts, result : Proxy!Results]
    <3>1. Proxy!Idle \in [at : Proxy!Places, key : Keys \cup {NoKey}, target : Proxy!TargetIds,
                     attempt : 0..MaxRetryAttempts, result : Proxy!Results]
      BY <1>1 DEF Proxy!Idle, Proxy!Places, Proxy!Results, Proxy!TargetIds
    <3> QED BY <3>1 DEF Proxy!Places
  <2>2. req' = [req EXCEPT ![r] = slot] /\ UNCHANGED <<index, cache, health>>
    BY <1>3 DEF Proxy!CacheMiss
  <2> HIDE DEF slot
  <2> QED BY <2>1, <2>2 DEF ProxyTypeOK
<1>4. ASSUME NEW r \in Requests, Proxy!HandlerSteps(r) PROVE ProxyTypeOK'
  <2> DEFINE Slot == [at : Proxy!Places, key : Keys \cup {NoKey}, target : Proxy!TargetIds,
                      attempt : 0..MaxRetryAttempts, result : Proxy!Results]
  <2>1. req \in [Requests -> Slot] /\ req[r] \in Slot
    BY DEF ProxyTypeOK
  <2>2. Proxy!Idle \in Slot
    BY <1>1 DEF Proxy!Idle, Proxy!Places, Proxy!Results, Proxy!TargetIds
  <2>3. ASSUME Proxy!Finish(r) PROVE req' \in [Requests -> Slot]
    BY <2>1, <2>2, <2>3 DEF Proxy!Finish
  <2>4. ASSUME NEW place \in Proxy!Places, Proxy!Move(r, place)
        PROVE req' \in [Requests -> Slot]
    BY <2>1, <2>4 DEF Proxy!Move
  <2>5. CASE Proxy!Refused(r) \/ Proxy!BodyUnreadable(r)
    BY <2>3, <2>5 DEF Proxy!Refused, Proxy!BodyUnreadable, ProxyTypeOK
  <2>6. CASE Proxy!Admitted(r)
    BY <2>4, <2>6 DEF Proxy!Admitted, Proxy!Places, ProxyTypeOK
  <2>7. CASE Proxy!NextTarget(r)
    <3>1. index' \in Proxy!TargetIds
      BY <1>1, <2>7 DEF Proxy!NextTarget, ProxyTypeOK, Proxy!TargetIds
    <3>2. req' \in [Requests -> Slot]
      BY <2>1, <2>7, <3>1 DEF Proxy!NextTarget, Proxy!Places
    <3> QED BY <2>7, <3>1, <3>2 DEF Proxy!NextTarget, ProxyTypeOK
  <2>8. CASE Proxy!Attempt(r)
    <3>1. Proxy!Outcomes(r) \subseteq Proxy!Results
      BY <1>1, <2>1 DEF Proxy!Outcomes, Proxy!Results, ProxyTypeOK
    <3>2. req' \in [Requests -> Slot]
      BY <1>1, <2>1, <2>8, <3>1 DEF Proxy!Attempt, Proxy!IsLastAttempt, Proxy!Places
    <3> QED BY <2>8, <3>2 DEF Proxy!Attempt, ProxyTypeOK
  <2>9. CASE Proxy!RecordFailure(r)
    BY <2>3, <2>9 DEF Proxy!RecordFailure, ProxyTypeOK
  <2>10. CASE Proxy!RecordSuccess(r)
    BY <2>3, <2>4, <2>10 DEF Proxy!RecordSuccess, Proxy!Places, ProxyTypeOK
  <2>11. CASE Proxy!StoreResponse(r)
    <3>1. cache' = [cache EXCEPT ![req[r].key] = CacheTTL] /\ cache \in [Keys -> 0..CacheTTL]
      BY <2>11 DEF Proxy!StoreResponse, ProxyTypeOK
    <3>2. CacheTTL \in 0..CacheTTL
      BY <1>1
    <3>3. cache' \in [Keys -> 0..CacheTTL]
      BY <3>1, <3>2
    <3> QED BY <2>3, <2>11, <3>3 DEF Proxy!StoreResponse, ProxyTypeOK
  <2> QED BY <1>4, <2>5, <2>6, <2>7, <2>8, <2>9, <2>10, <2>11 DEF Proxy!HandlerSteps
<1>5. CASE Proxy!Tick
  BY <1>1, <1>5 DEF Proxy!Tick, ProxyTypeOK
<1>6. ASSUME NEW t \in Proxy!TargetIds, NEW h \in Healths, Proxy!HealthChanges(t, h)
      PROVE ProxyTypeOK'
  BY <1>6 DEF Proxy!HealthChanges, ProxyTypeOK
<1>7. ASSUME NEW r \in Requests, NEW k \in Keys \cup {NoKey}, Proxy!CacheHit(r, k)
      PROVE  ProxyTypeOK'
  BY <1>7 DEF Proxy!CacheHit, Proxy!proxyVars, ProxyTypeOK
<1> QED BY <1>2, <1>3, <1>4, <1>5, <1>6, <1>7 DEF Proxy!Next, Proxy!Arrivals

-----------------------------------------------------------------------------
(* Theorems *)

LEMMA BreakerInvariance ==
    ASSUME Proxy!ProxyAssumption
    PROVE  Proxy!Spec => [](BreakerInv /\ ProxyTypeOK)
<1>1. Proxy!BreakerAssumption
  BY DEF Proxy!ProxyAssumption
<1>2. Proxy!Init => BreakerInv /\ ProxyTypeOK
  <2>1. ASSUME Proxy!Init PROVE ProxyTypeOK
    BY <2>1 DEF Proxy!Init, ProxyTypeOK, Proxy!ProxyAssumption, Proxy!Idle, Proxy!Places,
       Proxy!Results, Proxy!TargetIds
  <2> QED BY <1>1, <2>1, BreakerInitInv DEF Proxy!Init
<1>3. BreakerInv /\ ProxyTypeOK /\ [Proxy!Next]_(Proxy!vars) => (BreakerInv /\ ProxyTypeOK)'
  BY <1>1, StepsOfBreaker, StepInv, ProxyTypes
<1> QED BY <1>2, <1>3, PTL DEF Proxy!Spec

\* Whatever state a result arrives in: a closed breaker never sits on a sample
\* that should have tripped it, a half-open one has seen successes only, and
\* TrippingRun failures in a row open it (breaker.go:32-101), for any window,
\* sample and rate.
THEOREM BreakerStaysSound == Proxy!Spec => []BreakerIsSound
<1>1. Proxy!ProxyAssumption /\ Proxy!BreakerAssumption
  BY AccessAssumption DEF Proxy!ProxyAssumption
<1>2. BreakerInv => Proxy!FailureRunsTrip
  <2> SUFFICES ASSUME BreakerInv, state = "closed" PROVE streak < Proxy!TrippingRun
    BY DEF Proxy!FailureRunsTrip
  <2>1. /\ MinSample \in Nat /\ MinSample >= 1 /\ Window \in Nat
        /\ FailNum \in Nat /\ FailDen \in Nat
    BY <1>1 DEF Proxy!BreakerAssumption
  <2>2. /\ counts.failure \in Nat /\ counts.total \in Nat /\ streak \in Nat
        /\ counts.total < Window
    BY DEF BreakerInv, Proxy!BreakerTypeOK, Proxy!ClosedMeansHealthy
  <2>3. RateRun \in Nat /\ RateRun >= 1 /\ Proxy!TrippingRun = RateRun + MinSample - 1
    BY <1>1, RateRunBounds
  <2>4. CASE counts.failure * FailDen < FailNum * counts.total
    <3>1. counts.failure <= RateRun - 1
      BY <1>1, <2>1, <2>2, <2>4, RateRunBounds
    <3>2. counts.failure # counts.total
      BY <1>1, <2>1, <2>2, <2>4, AllFailuresReachRate, SMT
    <3> QED BY <2>1, <2>2, <2>3, <3>1, <3>2 DEF BreakerInv, StreakInWindow
  <2>5. CASE counts.total < MinSample /\ streak <= RateRun - 1 + counts.total
    BY <2>1, <2>2, <2>3, <2>5
  <2>6. CASE counts.total < MinSample /\ streak <= counts.failure
    <3>1. counts.failure <= counts.total
      BY DEF BreakerInv, FailuresAreCounted
    <3> QED BY <2>1, <2>2, <2>3, <2>6, <3>1
  <2> QED BY <2>4, <2>5, <2>6 DEF BreakerInv, StreakInWindow, Proxy!ClosedMeansHealthy
<1>3. BreakerInv /\ ProxyTypeOK => BreakerIsSound
  BY <1>2 DEF BreakerIsSound, BreakerInv, Proxy!BreakerIsSound, Proxy!TypeOK, ProxyTypeOK
<1> QED BY <1>1, <1>3, BreakerInvariance, PTL

\* An open breaker refuses for a whole cooldown from its last opening, however
\* many results of requests admitted before arrive meanwhile.
THEOREM OpenStaysOpen == Proxy!Spec => OpenHolds
<1>0. Proxy!ProxyAssumption
  BY AccessAssumption
<1>1. ASSUME BreakerInv, [Proxy!Next]_(Proxy!vars)
      PROVE  [state = "open" /\ state' # "open" => openFor > Cooldown]_(Proxy!breakerVars)
  <2>1. BreakerStep
    BY <1>1, StepsOfBreaker
  <2> QED BY <1>1, <2>1
     DEF BreakerStep, Proxy!BreakerTick, Proxy!Admit, Proxy!RecordResult, Proxy!RecordHalfOpen,
                Proxy!RecordClosed, Proxy!RecordOpen, Proxy!breakerVars, BreakerInv,
                OpenIsStamped
<1> QED BY <1>0, <1>1, BreakerInvariance, PTL DEF Proxy!Spec, Proxy!OpenHolds, OpenHolds

-----------------------------------------------------------------------------
(***************************************************************************)
(* The sessions: what rotation of refresh tokens guarantees for any number *)
(* of concurrent requests, families and tokens.  A family two requests     *)
(* never worked on together has one worker at a time, so what the worker   *)
(* found when it checked is still so when it writes.  In the others the    *)
(* surplus of good tokens is counted.                                      *)
(***************************************************************************)
LEMMA AuthCounted ==
    ASSUME NEW S
    PROVE  /\ Auth!IsFiniteSet(S) <=> IsFiniteSet(S)
           /\ Auth!Cardinality(S) = Cardinality(S)
<1>1. Auth!IsFiniteSet(S) <=> IsFiniteSet(S)
  BY Zenon DEF Auth!IsFiniteSet, IsFiniteSet
<1>2. Auth!Cardinality(S) = Cardinality(S)
  BY Zenon DEF Auth!Cardinality, Cardinality, Auth!IsFiniteSet, IsFiniteSet
<1> QED BY <1>1, <1>2

Slot == [at : Auth!Places, family : {0} \cup Auth!Families, user : {0} \cup Users,
         old : {Auth!NoToken} \cup Auth!Tokens, new : {Auth!NoToken} \cup Auth!Tokens,
         session : {0} \cup Auth!Families]

-----------------------------------------------------------------------------
(* The invariant *)

\* Refreshes that have not made their token yet.
Refreshing == {r \in Requests : asked[r].at \in {"user", "mark", "extend"}}

\* Refreshes of f between the mark and the new token.
Extending(f) == {r \in Requests : asked[r].at = "extend" /\ asked[r].family = f}

\* Every refresh in progress will find a token left.
Reserve == minted + Cardinality(Refreshing) <= MaxTokens

\* What a request works with has been made.
Names ==
    /\ \A r \in Requests :
         /\ asked[r].at # "idle" => asked[r].family \in 1..issued
         /\ asked[r].at \in {"user", "mark", "extend"} => asked[r].old \in 1..minted
         /\ asked[r].at = "session" => asked[r].new \in 1..minted
         /\ asked[r].old \in 0..minted /\ asked[r].new \in 0..minted
         /\ asked[r].at = "idle" => asked[r] = Auth!Idle
    /\ \A f \in Auth!Families, t \in Auth!Tokens :
         tokenFam[f][t] # "none" \/ <<f, t>> \in held => f <= issued /\ t <= minted
    /\ \A t \in Auth!Tokens : wins[t] > 0 => t <= minted
    /\ tokenFamDead \subseteq 1..issued

\* One worker at a time, unless the family is overlapped.
Sole ==
    \A r, q \in Requests :
        r # q /\ asked[r].at # "idle" /\ asked[q].at # "idle"
            /\ asked[r].family = asked[q].family => asked[r].family \in overlapped

DeadAreEmpty ==
    \A f \in tokenFamDead, t \in Auth!Tokens : tokenFam[f][t] = "none"

\* What a refresh knows of the token it came with.
Marks ==
    \A r \in Requests : \A f \in Auth!Families : asked[r].family = f =>
        /\ f \notin tokenFamDead /\ asked[r].at \in {"user", "mark"} =>
             /\ tokenFam[f][asked[r].old] # "none"
             /\ f \notin overlapped => tokenFam[f][asked[r].old] = "unused"
        /\ asked[r].at \in {"extend", "session"} /\ asked[r].old # Auth!NoToken =>
             tokenFam[f][asked[r].old] # "unused"
        /\ asked[r].at = "session" /\ f \notin tokenFamDead \cup overlapped =>
             tokenFam[f][asked[r].new] = "unused"

\* t was made for f, as far as anybody can tell.
Belongs(f, t) ==
    \/ tokenFam[f][t] # "none"
    \/ <<f, t>> \in held
    \/ \E r \in Requests : asked[r].family = f /\ t \in {asked[r].old, asked[r].new}

OneFamily ==
    \A f, g \in Auth!Families, t \in Auth!Tokens : Belongs(f, t) /\ Belongs(g, t) => f = g

\* A token has no use before it is spent, and one after.
Uses ==
    \A f \in Auth!Families \ overlapped, t \in Auth!Tokens :
        /\ Belongs(f, t) => wins[t] <= 1
        /\ tokenFam[f][t] = "unused" => wins[t] = 0
        /\ \A r \in Requests : asked[r].family = f /\ asked[r].old = t => wins[t] = 0

\* The last token answered is good until somebody spends it.
LatestIsGood ==
    \A f \in Auth!Families \ (overlapped \cup tokenFamDead) :
        latest[f] # Auth!NoToken
            /\ (\A r \in Auth!WorkingOn(f) : asked[r].at \in {"user", "mark"})
          => tokenFam[f][latest[f]] = "unused"

\* A logout that named its session is over when nobody works on the family any
\* more; until it is, the session is gone already.
Logouts ==
    \A f \in Auth!Families \ overlapped :
        /\ f \in closed => f \notin sessions /\ Auth!WorkingOn(f) = {}
        /\ \A r \in Auth!WorkingOn(f) :
             asked[r].at = "revoke" /\ asked[r].session = f => f \notin sessions

\* Each good token beyond the first, made or about to be made, is a fork.
Forks ==
    /\ \A f \in Auth!Families \ tokenFamDead :
         Cardinality(Auth!Unused(f)) + Cardinality(Extending(f)) <= 1 + forks[f]
    /\ \A f \in Auth!Families : forks[f] > 0 => f \in overlapped

SessionsInv ==
    /\ Auth!TypeOK /\ Reserve /\ Names /\ Sole /\ DeadAreEmpty /\ Marks /\ OneFamily
    /\ Uses /\ LatestIsGood /\ Logouts /\ Forks

-----------------------------------------------------------------------------
(* What the parts of a step do *)

\* Request r goes on as s.
Puts(r, s) ==
    /\ s \in Slot /\ asked' \in [Requests -> Slot] /\ asked'[r] = s
    /\ \A q \in Requests \ {r} : asked'[q] = asked[q]

\* AddTokenToFamily, token by token.
Writes(f, t, u) ==
    /\ tokenFam' \in [Auth!Families -> [Auth!Tokens -> {"none", "unused", "used"}]]
    /\ \A g \in Auth!Families, v \in Auth!Tokens :
         tokenFam'[g][v] = IF g = f /\ v = t /\ f \notin tokenFamDead THEN u
                           ELSE tokenFam[g][v]

\* RevokeTokenFamily, token by token.
Revokes(f) ==
    /\ tokenFam' \in [Auth!Families -> [Auth!Tokens -> {"none", "unused", "used"}]]
    /\ \A g \in Auth!Families, v \in Auth!Tokens :
         tokenFam'[g][v] = IF g = f THEN "none" ELSE tokenFam[g][v]
    /\ tokenFam'[f] = Auth!NoTokens
    /\ \A g \in Auth!Families \ {f} : tokenFam'[g] = tokenFam[g]
    /\ tokenFamDead' = tokenFamDead \cup {f}

LEMMA IdleSlot == Auth!Idle \in Slot /\ Auth!Idle.at = "idle" /\ Auth!Idle.family = 0
                  /\ Auth!Idle.old = Auth!NoToken /\ Auth!Idle.new = Auth!NoToken
BY DEF Auth!Idle, Slot, Auth!Places, Auth!NoToken

LEMMA ReqType == ASSUME Auth!TypeOK PROVE asked \in [Requests -> Slot]
BY DEF Auth!TypeOK, Slot

LEMMA PutsFacts ==
    ASSUME Auth!TypeOK, NEW r \in Requests,
           NEW s \in Slot, asked' = [asked EXCEPT ![r] = s]
    PROVE  Puts(r, s)
BY ReqType DEF Puts

LEMMA FinishFacts ==
    ASSUME Auth!TypeOK, NEW r \in Requests, Auth!Finish(r)
    PROVE  Puts(r, Auth!Idle)
BY PutsFacts, IdleSlot DEF Auth!Finish

LEMMA MoveFacts ==
    ASSUME Auth!TypeOK, NEW r \in Requests, NEW place \in Auth!Places, Auth!Move(r, place)
    PROVE  \E s : /\ Puts(r, s) /\ s.at = place /\ s.family = asked[r].family
                  /\ s.user = asked[r].user /\ s.old = asked[r].old /\ s.new = asked[r].new
<1> DEFINE s == [asked[r] EXCEPT !.at = place]
<1>1. asked[r] \in Slot
  BY ReqType
<1>2. /\ s \in Slot /\ s.at = place /\ s.family = asked[r].family
      /\ s.user = asked[r].user /\ s.old = asked[r].old /\ s.new = asked[r].new
  BY <1>1 DEF Slot
<1>3. asked' = [asked EXCEPT ![r] = s]
  BY DEF Auth!Move
<1> HIDE DEF s
<1>4. Puts(r, s)
  BY <1>2, <1>3, PutsFacts
<1> QED BY <1>2, <1>4

LEMMA AddFacts ==
    ASSUME Auth!TypeOK, NEW f \in Auth!Families, NEW t \in Auth!Tokens,
           NEW u \in {"unused", "used"},
           Auth!AddTokenToFamily(f, t, u)
    PROVE  Writes(f, t, u)
<1>1. CASE f \in tokenFamDead
  BY <1>1 DEF Auth!AddTokenToFamily, Writes, Auth!TypeOK
<1>2. CASE f \notin tokenFamDead
  <2>1. tokenFam' = [tokenFam EXCEPT ![f] = [tokenFam[f] EXCEPT ![t] = u]]
    BY <1>2 DEF Auth!AddTokenToFamily
  <2>2. tokenFam \in [Auth!Families -> [Auth!Tokens -> {"none", "unused", "used"}]]
    BY DEF Auth!TypeOK
  <2>3. [tokenFam[f] EXCEPT ![t] = u] \in [Auth!Tokens -> {"none", "unused", "used"}]
    BY <2>2
  <2> QED BY <1>2, <2>1, <2>2, <2>3 DEF Writes
<1> QED BY <1>1, <1>2

LEMMA RevokeFacts ==
    ASSUME Auth!TypeOK, NEW f \in Auth!Families, Auth!RevokeTokenFamily(f)
    PROVE  Revokes(f)
<1>1. Auth!NoTokens \in [Auth!Tokens -> {"none", "unused", "used"}] /\ \A t \in Auth!Tokens : Auth!NoTokens[t] = "none"
  BY DEF Auth!NoTokens
<1>2. tokenFam \in [Auth!Families -> [Auth!Tokens -> {"none", "unused", "used"}]]
  BY DEF Auth!TypeOK
<1> QED BY <1>1, <1>2 DEF Auth!RevokeTokenFamily, Revokes

\* A request begins on f: afterwards f is overlapped or r works on it alone.
LEMMA BeginFacts ==
    ASSUME Auth!TypeOK, NEW f \in Auth!Families, Auth!Begin(f)
    PROVE  /\ overlapped \subseteq overlapped' /\ overlapped' \subseteq Auth!Families
           /\ \/ f \in overlapped'
              \/ \A q \in Requests : asked[q].at # "idle" => asked[q].family # f
           /\ overlapped' \ {f} = overlapped \ {f}
BY DEF Auth!Begin, Auth!TypeOK, Auth!WorkingOn

-----------------------------------------------------------------------------
(* Counting *)

LEMMA Finite ==
    ASSUME Auth!SessionsAssumption
    PROVE  /\ \A S \in SUBSET Requests : IsFiniteSet(S)
           /\ \A S \in SUBSET Auth!Tokens : IsFiniteSet(S)
<1>1. IsFiniteSet(Auth!Tokens)
  BY FS_Interval DEF Auth!SessionsAssumption, Auth!Tokens
<1> QED BY <1>1, AuthCounted, FS_Subset DEF Auth!SessionsAssumption

LEMMA CardFewer ==
    ASSUME NEW S, NEW T, IsFiniteSet(S), T \subseteq S
    PROVE  /\ Cardinality(S) \in Nat /\ Cardinality(T) \in Nat
           /\ Cardinality(T) <= Cardinality(S)
BY FS_Subset, FS_CardinalityType

LEMMA CardOneMore ==
    ASSUME NEW S, NEW T, NEW x, IsFiniteSet(S), T \subseteq S \cup {x}
    PROVE  Cardinality(T) \in Nat /\ Cardinality(T) <= Cardinality(S) + 1
<1>1. /\ IsFiniteSet(S \cup {x})
      /\ Cardinality(S \cup {x}) \in Nat /\ Cardinality(S) \in Nat
      /\ Cardinality(S \cup {x}) <= Cardinality(S) + 1
  BY FS_AddElement, FS_CardinalityType
<1> QED BY <1>1, CardFewer

LEMMA CardOneLess ==
    ASSUME NEW S, NEW T, NEW x \in S, IsFiniteSet(S), T \subseteq S \ {x}
    PROVE  Cardinality(T) \in Nat /\ Cardinality(T) <= Cardinality(S) - 1
<1>1. /\ IsFiniteSet(S \ {x})
      /\ Cardinality(S \ {x}) = Cardinality(S) - 1 /\ Cardinality(S) \in Nat
  BY FS_RemoveElement, FS_CardinalityType
<1> QED BY <1>1, CardFewer

\* A step that neither mints a token nor starts a refresh keeps the reserve.
LEMMA ReserveKept ==
    ASSUME Auth!SessionsAssumption, Auth!TypeOK, Reserve, minted' = minted, Refreshing' \subseteq Refreshing
    PROVE  Reserve'
<1>1. Cardinality(Refreshing') <= Cardinality(Refreshing)
      /\ Cardinality(Refreshing') \in Nat /\ Cardinality(Refreshing) \in Nat
  BY Finite, CardFewer DEF Refreshing
<1>2. minted \in Nat /\ MaxTokens \in Nat
  BY DEF Auth!TypeOK, Auth!SessionsAssumption
<1> QED BY <1>1, <1>2 DEF Reserve

\* A step that makes or marks no token, and no refresh at the mark goes on.
LEMMA ForksKept ==
    ASSUME Auth!SessionsAssumption, Auth!TypeOK, Forks, tokenFamDead \subseteq tokenFamDead',
           forks' = forks, overlapped \subseteq overlapped',
           \A f \in Auth!Families \ tokenFamDead' :
               tokenFam'[f] = tokenFam[f] /\ Extending(f)' \subseteq Extending(f)
    PROVE  Forks'
<1>1. ASSUME NEW f \in Auth!Families \ tokenFamDead'
      PROVE  Cardinality(Auth!Unused(f)') + Cardinality(Extending(f)') <= 1 + forks[f]
  <2>1. Auth!Unused(f)' = Auth!Unused(f)
    BY <1>1 DEF Auth!Unused
  <2>2. /\ Cardinality(Extending(f)') <= Cardinality(Extending(f))
        /\ Cardinality(Extending(f)') \in Nat /\ Cardinality(Extending(f)) \in Nat
    BY <1>1, Finite, CardFewer DEF Extending
  <2>3. Cardinality(Auth!Unused(f)) \in Nat /\ forks[f] \in Nat
    BY <1>1, Finite, FS_CardinalityType DEF Auth!Unused, Auth!TypeOK
  <2>4. Cardinality(Auth!Unused(f)) + Cardinality(Extending(f)) <= 1 + forks[f]
    BY <1>1 DEF Forks
  <2> QED BY <2>1, <2>2, <2>3, <2>4
<1> QED BY <1>1 DEF Forks

-----------------------------------------------------------------------------
(* Steps that leave the tokens alone *)

LEMMA FreshToken ==
    ASSUME Auth!TypeOK, Names, NEW f \in Auth!Families, NEW t \in Auth!Tokens, t > minted
    PROVE  ~Belongs(f, t)
BY DEF Auth!TypeOK, Names, Belongs, Auth!Tokens

LEMMA OneFamilyKept ==
    ASSUME OneFamily, \A f \in Auth!Families, t \in Auth!Tokens : Belongs(f, t)' => Belongs(f, t)
    PROVE  OneFamily'
BY DEF OneFamily

\* Sessions expire or are deleted alone, and accounts are locked and unlocked.
LEMMA EnvironmentInv ==
    ASSUME Auth!SessionsAssumption, SessionsInv,
           \/ \E f \in Auth!Families : Auth!SessionExpires(f)
           \/ \E u \in Users : Auth!StatusChanges(u)
           \/ \E r \in Requests, e \in Auth!Families : Auth!LogoutNoFamily(r, e)
    PROVE  SessionsInv'
<1>1. /\ sessions' \subseteq sessions /\ active' \subseteq Users
      /\ UNCHANGED <<tokenFam, tokenFamDead, issued, minted, held, asked, latest, wins, forks,
                     overlapped, loggedOut, closed>>
  BY DEF Auth!SessionExpires, Auth!StatusChanges, Auth!LogoutNoFamily, Auth!store, Auth!history, SessionsInv,
     Auth!TypeOK
<1>2. Auth!TypeOK'
  BY <1>1 DEF SessionsInv, Auth!TypeOK
<1>3. Reserve'
  BY <1>1 DEF SessionsInv, Reserve, Refreshing
<1>4. Names' /\ Sole' /\ DeadAreEmpty' /\ Marks'
  BY <1>1 DEF SessionsInv, Names, Sole, DeadAreEmpty, Marks
<1>5. OneFamily' /\ Uses'
  BY <1>1 DEF SessionsInv, OneFamily, Uses, Belongs
<1>6. LatestIsGood' /\ Logouts'
  BY <1>1 DEF SessionsInv, LatestIsGood, Logouts, Auth!WorkingOn
<1>7. Forks'
  BY <1>1 DEF SessionsInv, Forks, Auth!Unused, Extending
<1> QED BY <1>2, <1>3, <1>4, <1>5, <1>6, <1>7 DEF SessionsInv

\* The status of the account is looked at: the refresh ends or goes on.
LEMMA StatusCheckInv ==
    ASSUME Auth!SessionsAssumption, SessionsInv, NEW r \in Requests,
           Auth!RefreshInactive(r) \/ Auth!RefreshValid(r)
    PROVE  SessionsInv'
<1>1. /\ asked[r].at = "user"
      /\ UNCHANGED <<tokenFam, tokenFamDead, sessions, active, issued, minted, held, latest,
                     wins, forks, overlapped, loggedOut, closed>>
  BY DEF Auth!RefreshInactive, Auth!RefreshValid, Auth!store, Auth!history
<1>2. PICK s : /\ Puts(r, s)
               /\ \/ s = Auth!Idle
                  \/ /\ s.at = "mark" /\ s.family = asked[r].family
                     /\ s.old = asked[r].old /\ s.new = asked[r].new
  BY FinishFacts, MoveFacts
     DEF Auth!RefreshInactive, Auth!RefreshValid, Auth!Places, SessionsInv
<1>3. Auth!TypeOK'
  BY <1>1, <1>2 DEF SessionsInv, Auth!TypeOK, Puts, Slot
<1>4. Reserve'
  <2>1. Refreshing' \subseteq Refreshing
    BY <1>1, <1>2 DEF Refreshing, Puts
  <2> QED BY <1>1, <2>1, ReserveKept DEF SessionsInv
<1>5. Names'
  BY <1>1, <1>2, IdleSlot DEF SessionsInv, Auth!TypeOK, Names, Puts, Auth!NoToken
<1>6. Sole' /\ DeadAreEmpty'
  BY <1>1, <1>2, IdleSlot DEF SessionsInv, Sole, DeadAreEmpty, Puts
<1>7. Marks'
  BY <1>1, <1>2, IdleSlot DEF SessionsInv, Marks, Puts
<1>8. ASSUME NEW f \in Auth!Families, NEW t \in Auth!Tokens, Belongs(f, t)'
      PROVE  Belongs(f, t)
  BY <1>1, <1>2, <1>8, IdleSlot DEF Belongs, Puts, Auth!Families
<1>9. OneFamily'
  BY <1>8, OneFamilyKept DEF SessionsInv
<1>10. Uses'
  BY <1>1, <1>2, <1>8, IdleSlot DEF SessionsInv, Uses, Puts, Auth!Families
<1>11. LatestIsGood'
  BY <1>1, <1>2, IdleSlot DEF SessionsInv, LatestIsGood, Auth!WorkingOn, Puts
<1>12. Logouts'
  BY <1>1, <1>2, IdleSlot DEF SessionsInv, Logouts, Auth!WorkingOn, Puts
<1>13. Forks'
  <2>1. \A f \in Auth!Families : Extending(f)' \subseteq Extending(f)
    BY <1>1, <1>2, IdleSlot DEF Extending, Puts
  <2> QED BY <1>1, <2>1, ForksKept DEF SessionsInv
<1> QED BY <1>3, <1>4, <1>5, <1>6, <1>7, <1>9, <1>10, <1>11, <1>12, <1>13 DEF SessionsInv

\* A login issues the first token of a new family.
LEMMA LoginInv ==
    ASSUME Auth!SessionsAssumption, SessionsInv, NEW r \in Requests,
           NEW u \in Users, Auth!LoginIssues(r, u)
    PROVE  SessionsInv'
<1> DEFINE s == [Auth!Idle EXCEPT !.at = "session", !.user = u, !.family = issued + 1,
                             !.new = minted + 1]
<1>1. /\ asked[r].at = "idle" /\ issued < MaxFamilies /\ Auth!TokensLeft
      /\ issued' = issued + 1 /\ minted' = minted + 1
      /\ UNCHANGED <<tokenFamDead, sessions, active, held, latest, wins, forks, overlapped,
                     loggedOut, closed>>
  BY DEF Auth!LoginIssues, Auth!history
<1>2. issued \in Nat /\ minted \in Nat /\ MaxTokens \in Nat /\ MaxFamilies \in Nat
  BY DEF SessionsInv, Auth!TypeOK, Auth!SessionsAssumption
<1>3. LET R == {q \in Requests : asked[q].at # "idle"}
      IN  /\ minted + Cardinality(R) < MaxTokens /\ Cardinality(R) \in Nat
          /\ Cardinality(Refreshing) <= Cardinality(R) /\ Cardinality(Refreshing) \in Nat
  <2>1. Refreshing \subseteq {q \in Requests : asked[q].at # "idle"}
    BY DEF Refreshing
  <2> QED BY <1>1, <2>1, Finite, CardFewer, AuthCounted DEF Auth!TokensLeft
<1>4. issued + 1 \in Auth!Families /\ minted + 1 \in Auth!Tokens
  BY <1>1, <1>2, <1>3 DEF Auth!Families, Auth!Tokens
<1>5. /\ s \in Slot /\ s.at = "session" /\ s.family = issued + 1
      /\ s.old = Auth!NoToken /\ s.new = minted + 1
  BY <1>4, IdleSlot DEF Auth!Idle, Slot, Auth!Places, Auth!NoToken
<1>6. asked' = [asked EXCEPT ![r] = s]
  BY <1>1 DEF Auth!LoginIssues
<1> HIDE DEF s
<1>7. Puts(r, s)
  BY <1>5, <1>6, PutsFacts DEF SessionsInv
<1>8. issued + 1 \notin tokenFamDead
  BY <1>2 DEF SessionsInv, Names
<1>9. PICK f \in Auth!Families, t \in Auth!Tokens : /\ f = issued + 1 /\ t = minted + 1
  BY <1>4
<1>10. Writes(f, t, "unused")
  BY <1>1, <1>9, AddFacts DEF Auth!LoginIssues, SessionsInv
<1>11. /\ \A q \in Requests : asked[q].family # f
       /\ \A v \in Auth!Tokens : tokenFam[f][v] = "none" /\ <<f, v>> \notin held
       /\ \A g \in Auth!Families : ~Belongs(g, t)
  <2>1. ASSUME NEW q \in Requests PROVE asked[q].family # f
    <3>1. CASE asked[q].at = "idle"
      BY <1>2, <1>9, <3>1, IdleSlot DEF SessionsInv, Names
    <3>2. CASE asked[q].at # "idle"
      BY <1>2, <1>9, <3>2 DEF SessionsInv, Names
    <3> QED BY <3>1, <3>2
  <2>2. ASSUME NEW v \in Auth!Tokens PROVE tokenFam[f][v] = "none" /\ <<f, v>> \notin held
    BY <1>2, <1>9 DEF SessionsInv, Names
  <2>3. t > minted
    BY <1>2, <1>9
  <2> QED BY <2>1, <2>2, <2>3, FreshToken DEF SessionsInv
<1>12. Auth!TypeOK'
  BY <1>1, <1>2, <1>4, <1>7, <1>10
     DEF SessionsInv, Auth!TypeOK, Puts, Slot, Writes, Auth!Families, Auth!Tokens
<1>13. Reserve'
  <2>1. Refreshing' \subseteq Refreshing
    BY <1>5, <1>7 DEF Refreshing, Puts
  <2>2. Cardinality(Refreshing') \in Nat /\ Cardinality(Refreshing') <= Cardinality(Refreshing)
    BY <2>1, Finite, CardFewer DEF Refreshing
  <2> QED BY <1>1, <1>2, <1>3, <2>2 DEF Reserve
<1>14. Names'
  <2>1. \A q \in Requests :
         /\ asked'[q].at # "idle" => asked'[q].family \in 1..issued'
         /\ asked'[q].at \in {"user", "mark", "extend"} => asked'[q].old \in 1..minted'
         /\ asked'[q].at = "session" => asked'[q].new \in 1..minted'
         /\ asked'[q].old \in 0..minted' /\ asked'[q].new \in 0..minted'
         /\ asked'[q].at = "idle" => asked'[q] = Auth!Idle
    BY <1>1, <1>2, <1>5, <1>7 DEF SessionsInv, Names, Puts, Auth!NoToken
  <2>2. \A g \in Auth!Families, v \in Auth!Tokens :
          tokenFam'[g][v] # "none" \/ <<g, v>> \in held' => g <= issued' /\ v <= minted'
    BY <1>1, <1>2, <1>9, <1>10 DEF SessionsInv, Names, Writes, Auth!Families, Auth!Tokens
  <2>3. (\A v \in Auth!Tokens : wins'[v] > 0 => v <= minted') /\ tokenFamDead' \subseteq 1..issued'
    BY <1>1, <1>2 DEF SessionsInv, Names, Auth!Tokens
  <2> QED BY <2>1, <2>2, <2>3 DEF Names
<1>15. Sole'
  BY <1>1, <1>5, <1>7, <1>9, <1>11 DEF SessionsInv, Sole, Puts
<1>16. DeadAreEmpty'
  BY <1>1, <1>8, <1>9, <1>10 DEF SessionsInv, Auth!TypeOK, DeadAreEmpty, Writes
<1>17. Marks'
  <2> SUFFICES ASSUME NEW q \in Requests, NEW g \in Auth!Families, asked'[q].family = g
               PROVE  /\ g \notin tokenFamDead /\ asked'[q].at \in {"user", "mark"} =>
                           /\ tokenFam'[g][asked'[q].old] # "none"
                           /\ g \notin overlapped => tokenFam'[g][asked'[q].old] = "unused"
                      /\ asked'[q].at \in {"extend", "session"} /\ asked'[q].old # Auth!NoToken =>
                           tokenFam'[g][asked'[q].old] # "unused"
                      /\ asked'[q].at = "session" /\ g \notin tokenFamDead \cup overlapped =>
                           tokenFam'[g][asked'[q].new] = "unused"
    BY <1>1 DEF Marks
  <2>1. CASE q = r
    BY <1>5, <1>7, <1>8, <1>9, <1>10, <2>1 DEF Puts, Writes
  <2>2. CASE q # r
    <3>1. asked'[q] = asked[q] /\ g # f
      BY <1>7, <1>11, <2>2 DEF Puts
    <3>2. /\ asked[q].old \in {Auth!NoToken} \cup Auth!Tokens /\ asked[q].new \in {Auth!NoToken} \cup Auth!Tokens
          /\ asked[q].at \in {"user", "mark"} => asked[q].old \in Auth!Tokens
          /\ asked[q].at = "session" => asked[q].new \in Auth!Tokens
      BY <1>2 DEF SessionsInv, Auth!TypeOK, Names, Auth!Tokens, Auth!NoToken
    <3>3. \A v \in Auth!Tokens : tokenFam'[g][v] = tokenFam[g][v]
      BY <1>10, <3>1 DEF Writes
    <3> QED BY <3>1, <3>2, <3>3 DEF SessionsInv, Marks
  <2> QED BY <2>1, <2>2
<1>18. ASSUME NEW g \in Auth!Families, NEW v \in Auth!Tokens, Belongs(g, v)'
       PROVE  Belongs(g, v) \/ (g = f /\ v = t)
  BY <1>1, <1>5, <1>7, <1>9, <1>10, <1>18
     DEF Belongs, Puts, Writes, Auth!NoToken, Auth!Tokens
<1>19. OneFamily'
  BY <1>11, <1>18 DEF SessionsInv, OneFamily
<1>20. Uses'
  <2>1. wins[t] = 0
    BY <1>2, <1>9 DEF SessionsInv, Auth!TypeOK, Names
  <2>2. wins' = wins /\ overlapped' = overlapped
    BY <1>1
  <2>3. ASSUME NEW g \in Auth!Families \ overlapped, NEW v \in Auth!Tokens
        PROVE  /\ Belongs(g, v)' => wins[v] <= 1
               /\ tokenFam'[g][v] = "unused" => wins[v] = 0
               /\ \A q \in Requests : asked'[q].family = g /\ asked'[q].old = v => wins[v] = 0
    <3>1. Belongs(g, v)' => wins[v] <= 1
      BY <1>18, <2>1 DEF SessionsInv, Uses
    <3>2. tokenFam'[g][v] = "unused" => wins[v] = 0
      BY <1>10, <2>1 DEF SessionsInv, Uses, Writes
    <3>3. \A q \in Requests : asked'[q].family = g /\ asked'[q].old = v => wins[v] = 0
      BY <1>5, <1>7 DEF SessionsInv, Uses, Puts, Auth!NoToken, Auth!Tokens
    <3> QED BY <3>1, <3>2, <3>3
  <2> QED BY <2>2, <2>3 DEF Uses
<1>21. LatestIsGood'
  <2>1. ASSUME NEW g \in Auth!Families \ (overlapped \cup tokenFamDead), latest[g] # Auth!NoToken,
               \A q \in Auth!WorkingOn(g)' : asked'[q].at \in {"user", "mark"}
        PROVE  tokenFam'[g][latest[g]] = "unused"
    <3>1. g # f
      BY <1>5, <1>7, <1>9, <2>1 DEF Auth!WorkingOn, Puts
    <3>2. \A q \in Auth!WorkingOn(g) : asked[q].at \in {"user", "mark"}
      BY <1>1, <1>7, <2>1 DEF Auth!WorkingOn, Puts
    <3>3. latest[g] \in Auth!Tokens
      BY <2>1 DEF SessionsInv, Auth!TypeOK
    <3>4. tokenFam[g][latest[g]] = "unused"
      BY <2>1, <3>2 DEF SessionsInv, LatestIsGood
    <3> QED BY <1>10, <3>1, <3>3, <3>4 DEF Writes
  <2> QED BY <1>1, <2>1 DEF LatestIsGood
<1>22. Logouts'
  BY <1>1, <1>5, <1>7, <1>8, <1>9
     DEF SessionsInv, Auth!TypeOK, Logouts, Auth!WorkingOn, Puts
<1>23. Forks'
  <2>1. ASSUME NEW g \in Auth!Families \ tokenFamDead
        PROVE  Cardinality(Auth!Unused(g)') + Cardinality(Extending(g)') <= 1 + forks[g]
    <3>1. forks[g] \in Nat
      BY DEF SessionsInv, Auth!TypeOK
    <3>2. /\ Cardinality(Extending(g)') <= Cardinality(Extending(g))
          /\ Cardinality(Extending(g)') \in Nat /\ Cardinality(Extending(g)) \in Nat
      <4>1. Extending(g)' \subseteq Extending(g)
        BY <1>5, <1>7 DEF Extending, Puts
      <4> QED BY <4>1, Finite, CardFewer DEF Extending
    <3>3. CASE g = f
      <4>1. Auth!Unused(g)' \subseteq {} \cup {t} /\ Extending(g) = {}
        BY <1>10, <1>11, <3>3 DEF Auth!Unused, Writes, Extending
      <4>2. Cardinality(Auth!Unused(g)') \in Nat /\ Cardinality(Auth!Unused(g)') <= 0 + 1
        BY <4>1, CardOneMore, FS_EmptySet
      <4>3. Cardinality(Extending(g)) = 0
        BY <4>1, FS_EmptySet
      <4> QED BY <3>1, <3>2, <4>2, <4>3
    <3>4. CASE g # f
      <4>1. Auth!Unused(g)' = Auth!Unused(g)
        BY <1>10, <3>4 DEF Auth!Unused, Writes
      <4>2. Cardinality(Auth!Unused(g)) \in Nat
        BY Finite, FS_CardinalityType DEF Auth!Unused
      <4>3. Cardinality(Auth!Unused(g)) + Cardinality(Extending(g)) <= 1 + forks[g]
        BY DEF SessionsInv, Forks
      <4> QED BY <3>1, <3>2, <4>1, <4>2, <4>3
    <3> QED BY <3>3, <3>4
  <2> QED BY <1>1, <2>1 DEF SessionsInv, Forks
<1> QED BY <1>12, <1>13, <1>14, <1>15, <1>16, <1>17, <1>19, <1>20, <1>21, <1>22, <1>23
   DEF SessionsInv

-----------------------------------------------------------------------------
(* Steps that begin on a family, and revocations *)

\* The refresh of a good token begins.
LEMMA CheckInv ==
    ASSUME Auth!SessionsAssumption, SessionsInv, NEW r \in Requests,
           NEW f \in Auth!Families,
           NEW t \in Auth!Tokens, NEW u \in Users, Auth!RefreshCheck(r, f, t, u)
    PROVE  SessionsInv'
<1> DEFINE s == [Auth!Idle EXCEPT !.at = "user", !.family = f, !.user = u, !.old = t]
<1>1. /\ asked[r].at = "idle" /\ Auth!Presented(f, t) /\ Auth!TokensLeft
      /\ f \notin tokenFamDead /\ tokenFam[f][t] = "unused" /\ Auth!Begin(f)
      /\ UNCHANGED <<tokenFam, tokenFamDead, sessions, active, issued, minted, held, latest,
                     wins, forks, loggedOut, closed>>
  BY DEF Auth!RefreshCheck, Auth!store
<1>2. s \in Slot /\ s.at = "user" /\ s.family = f /\ s.old = t /\ s.new = Auth!NoToken
  BY IdleSlot DEF Auth!Idle, Slot, Auth!Places, Auth!NoToken
<1>3. asked' = [asked EXCEPT ![r] = s]
  BY DEF Auth!RefreshCheck
<1> HIDE DEF s
<1>4. Puts(r, s)
  BY <1>2, <1>3, PutsFacts DEF SessionsInv
<1>5. /\ f \in 1..issued /\ t \in 1..minted /\ minted \in Nat /\ issued \in Nat
  BY <1>1 DEF Auth!Presented, SessionsInv, Auth!TypeOK, Names, Auth!Tokens
<1>6. /\ overlapped \subseteq overlapped' /\ overlapped' \subseteq Auth!Families
      /\ f \in overlapped' \/ \A q \in Requests : asked[q].at # "idle" => asked[q].family # f
      /\ overlapped' \ {f} = overlapped \ {f}
  BY <1>1, BeginFacts DEF SessionsInv
<1>7. Auth!TypeOK'
  BY <1>1, <1>4, <1>6 DEF SessionsInv, Auth!TypeOK, Puts, Slot
<1>8. Reserve'
  <2> DEFINE R == {q \in Requests : asked[q].at # "idle"}
  <2>1. minted + Cardinality(R) < MaxTokens
    BY <1>1, AuthCounted DEF Auth!TokensLeft
  <2>2. Refreshing' \subseteq R \cup {r}
    BY <1>4 DEF Refreshing, Puts
  <2>3. Cardinality(Refreshing') \in Nat /\ Cardinality(Refreshing') <= Cardinality(R) + 1
    BY <2>2, Finite, CardOneMore
  <2>4. Cardinality(R) \in Nat /\ MaxTokens \in Nat
    BY Finite, AuthCounted, FS_CardinalityType DEF Auth!SessionsAssumption
  <2> HIDE DEF R
  <2> QED BY <1>1, <1>5, <2>1, <2>3, <2>4 DEF Reserve
<1>9. Names'
  BY <1>1, <1>2, <1>4, <1>5 DEF SessionsInv, Names, Puts, Auth!NoToken
<1>10. Sole'
  BY <1>2, <1>4, <1>6 DEF SessionsInv, Sole, Puts
<1>11. DeadAreEmpty'
  BY <1>1 DEF SessionsInv, DeadAreEmpty
<1>12. Marks'
  BY <1>1, <1>2, <1>4, <1>6 DEF SessionsInv, Marks, Puts
<1>13. ASSUME NEW g \in Auth!Families, NEW v \in Auth!Tokens, Belongs(g, v)'
       PROVE  Belongs(g, v)
  BY <1>1, <1>2, <1>4, <1>13 DEF Belongs, Puts, Auth!NoToken, Auth!Tokens
<1>14. OneFamily'
  BY <1>13, OneFamilyKept DEF SessionsInv
<1>15. Uses'
  BY <1>1, <1>2, <1>4, <1>6, <1>13 DEF SessionsInv, Uses, Puts
<1>16. LatestIsGood'
  <2>1. ASSUME NEW g \in Auth!Families \ (overlapped' \cup tokenFamDead), latest[g] # Auth!NoToken,
               \A q \in Auth!WorkingOn(g)' : asked'[q].at \in {"user", "mark"}
        PROVE  tokenFam[g][latest[g]] = "unused"
    <3>1. \A q \in Auth!WorkingOn(g) : asked[q].at \in {"user", "mark"}
      BY <1>1, <1>4, <2>1 DEF Auth!WorkingOn, Puts
    <3> QED BY <1>6, <2>1, <3>1 DEF SessionsInv, LatestIsGood
  <2> QED BY <1>1, <2>1 DEF LatestIsGood
<1>17. Logouts'
  <2>1. f \notin closed
    BY <1>1 DEF SessionsInv, Auth!TypeOK
  <2>2. ASSUME NEW q \in Requests, asked'[q].at = "revoke"
        PROVE  asked'[q] = asked[q]
    BY <1>2, <1>4, <2>2 DEF Puts
  <2>3. ASSUME NEW g \in Auth!Families, g # f
        PROVE  Auth!WorkingOn(g)' \subseteq Auth!WorkingOn(g)
    BY <1>2, <1>4, <2>3 DEF Auth!WorkingOn, Puts
  <2>4. ASSUME NEW g \in Auth!Families \ overlapped', g \in closed'
        PROVE  g \notin sessions' /\ Auth!WorkingOn(g)' = {}
    BY <1>1, <1>6, <2>1, <2>3, <2>4 DEF SessionsInv, Logouts
  <2>5. ASSUME NEW g \in Auth!Families \ overlapped', NEW q \in Auth!WorkingOn(g)',
               asked'[q].at = "revoke" /\ asked'[q].session = g
        PROVE  g \notin sessions'
    <3>1. q \in Requests /\ asked'[q] = asked[q] /\ asked'[q].family = g
      BY <2>2, <2>5 DEF Auth!WorkingOn
    <3>2. q \in Auth!WorkingOn(g)
      BY <2>5, <3>1 DEF Auth!WorkingOn
    <3> QED BY <1>1, <1>6, <2>5, <3>1, <3>2 DEF SessionsInv, Logouts
  <2> QED BY <2>4, <2>5 DEF Logouts
<1>18. Forks'
  <2>1. \A g \in Auth!Families : Extending(g)' \subseteq Extending(g)
    BY <1>2, <1>4 DEF Extending, Puts
  <2> QED BY <1>1, <1>6, <2>1, ForksKept DEF SessionsInv
<1> QED BY <1>7, <1>8, <1>9, <1>10, <1>11, <1>12, <1>14, <1>15, <1>16, <1>17, <1>18
   DEF SessionsInv

\* The session of a logout goes first.
LEMMA LogoutInv ==
    ASSUME Auth!SessionsAssumption, SessionsInv, NEW r \in Requests,
           NEW f \in Auth!Families, NEW e \in {0} \cup Auth!Families, Auth!Logout(r, f, e)
    PROVE  SessionsInv'
<1> DEFINE s == [Auth!Idle EXCEPT !.at = "revoke", !.family = f, !.session = e]
<1>1. /\ asked[r].at = "idle" /\ (\E t \in Auth!Tokens : <<f, t>> \in held)
      /\ f \notin closed /\ Auth!Begin(f) /\ sessions' = sessions \ {e}
      /\ UNCHANGED <<tokenFam, tokenFamDead, active, issued, minted, held, latest, wins,
                     forks, loggedOut, closed>>
  BY DEF Auth!Logout, Auth!Known
<1>2. /\ s \in Slot /\ s.at = "revoke" /\ s.family = f /\ s.old = Auth!NoToken /\ s.new = Auth!NoToken
      /\ s.session = e
  BY IdleSlot DEF Auth!Idle, Slot, Auth!Places, Auth!NoToken
<1>3. asked' = [asked EXCEPT ![r] = s]
  BY DEF Auth!Logout
<1> HIDE DEF s
<1>4. Puts(r, s)
  BY <1>2, <1>3, PutsFacts DEF SessionsInv
<1>5. f \in 1..issued /\ minted \in Nat
  BY <1>1 DEF SessionsInv, Auth!TypeOK, Names, Auth!Families
<1>6. /\ overlapped \subseteq overlapped' /\ overlapped' \subseteq Auth!Families
      /\ f \in overlapped' \/ \A q \in Requests : asked[q].at # "idle" => asked[q].family # f
      /\ overlapped' \ {f} = overlapped \ {f}
  BY <1>1, BeginFacts DEF SessionsInv
<1>7. Auth!TypeOK'
  BY <1>1, <1>4, <1>6 DEF SessionsInv, Auth!TypeOK, Puts, Slot
<1>8. Reserve'
  <2>1. Refreshing' \subseteq Refreshing
    BY <1>2, <1>4 DEF Refreshing, Puts
  <2> QED BY <1>1, <2>1, ReserveKept DEF SessionsInv
<1>9. Names'
  BY <1>1, <1>2, <1>4, <1>5 DEF SessionsInv, Names, Puts, Auth!NoToken
<1>10. Sole'
  BY <1>2, <1>4, <1>6 DEF SessionsInv, Sole, Puts
<1>11. DeadAreEmpty'
  BY <1>1 DEF SessionsInv, DeadAreEmpty
<1>12. Marks'
  BY <1>1, <1>2, <1>4, <1>6 DEF SessionsInv, Marks, Puts
<1>13. ASSUME NEW g \in Auth!Families, NEW v \in Auth!Tokens, Belongs(g, v)'
       PROVE  Belongs(g, v)
  BY <1>1, <1>2, <1>4, <1>13 DEF Belongs, Puts, Auth!NoToken, Auth!Tokens
<1>14. OneFamily'
  BY <1>13, OneFamilyKept DEF SessionsInv
<1>15. Uses'
  BY <1>1, <1>2, <1>4, <1>6, <1>13 DEF SessionsInv, Uses, Puts, Auth!NoToken, Auth!Tokens
<1>16. LatestIsGood'
  <2>1. ASSUME NEW g \in Auth!Families \ (overlapped' \cup tokenFamDead), latest[g] # Auth!NoToken,
               \A q \in Auth!WorkingOn(g)' : asked'[q].at \in {"user", "mark"}
        PROVE  tokenFam[g][latest[g]] = "unused"
    <3>1. \A q \in Auth!WorkingOn(g) : asked[q].at \in {"user", "mark"}
      BY <1>1, <1>4, <2>1 DEF Auth!WorkingOn, Puts
    <3> QED BY <1>6, <2>1, <3>1 DEF SessionsInv, LatestIsGood
  <2> QED BY <1>1, <2>1 DEF LatestIsGood
<1>17. Logouts'
  <2>1. ASSUME NEW g \in Auth!Families \ overlapped', g # f
        PROVE  /\ g \in closed => g \notin sessions' /\ Auth!WorkingOn(g)' = {}
               /\ \A q \in Auth!WorkingOn(g)' :
                    asked'[q].at = "revoke" /\ asked'[q].session = g => g \notin sessions'
    <3>1. g \notin overlapped /\ (g \in sessions' => g \in sessions)
      BY <1>1, <1>6, <2>1
    <3>2. \A q \in Auth!WorkingOn(g)' : q \in Auth!WorkingOn(g) /\ asked'[q] = asked[q]
      BY <1>2, <1>4, <2>1 DEF Auth!WorkingOn, Puts
    <3>3. /\ g \in closed => g \notin sessions /\ Auth!WorkingOn(g) = {}
          /\ \A q \in Auth!WorkingOn(g) :
               asked[q].at = "revoke" /\ asked[q].session = g => g \notin sessions
      BY <3>1 DEF SessionsInv, Logouts
    <3> QED BY <3>1, <3>2, <3>3
  <2>2. ASSUME f \notin overlapped', NEW q \in Auth!WorkingOn(f)',
               asked'[q].at = "revoke" /\ asked'[q].session = f
        PROVE  f \notin sessions'
    <3>1. q = r
      BY <1>4, <1>6, <2>2 DEF Auth!WorkingOn, Puts
    <3> QED BY <1>1, <1>2, <1>4, <2>2, <3>1 DEF Puts
  <2>3. f \notin closed /\ closed' = closed
    BY <1>1
  <2> QED BY <2>1, <2>2, <2>3 DEF Logouts
<1>18. Forks'
  <2>1. \A g \in Auth!Families : Extending(g)' \subseteq Extending(g)
    BY <1>2, <1>4 DEF Extending, Puts
  <2> QED BY <1>1, <1>6, <2>1, ForksKept DEF SessionsInv
<1> QED BY <1>7, <1>8, <1>9, <1>10, <1>11, <1>12, <1>14, <1>15, <1>16, <1>17, <1>18
   DEF SessionsInv

\* A reused token, or one of a revoked family, revokes the family.
LEMMA BreachInv ==
    ASSUME Auth!SessionsAssumption, SessionsInv, NEW r \in Requests,
           NEW f \in Auth!Families,
           NEW t \in Auth!Tokens, Auth!RefreshBreach(r, f, t)
    PROVE  SessionsInv'
<1>1. /\ Auth!Presented(f, t) /\ Auth!RevokeTokenFamily(f) /\ Auth!Begin(f)
      /\ UNCHANGED <<sessions, active, issued, minted, held, asked, latest, wins, forks,
                     loggedOut, closed>>
  BY DEF Auth!RefreshBreach
<1>2. Revokes(f)
  BY <1>1, RevokeFacts DEF SessionsInv
<1>3. f \in 1..issued
  BY <1>1 DEF Auth!Presented
<1>4. /\ overlapped \subseteq overlapped' /\ overlapped' \subseteq Auth!Families
      /\ overlapped' \ {f} = overlapped \ {f}
  BY <1>1, BeginFacts DEF SessionsInv
<1>5. Auth!TypeOK'
  BY <1>1, <1>2, <1>4 DEF SessionsInv, Auth!TypeOK, Revokes
<1>6. Reserve'
  BY <1>1, ReserveKept DEF SessionsInv, Refreshing
<1>7. Names'
  BY <1>1, <1>2, <1>3 DEF SessionsInv, Names, Revokes
<1>8. Sole' /\ DeadAreEmpty'
  BY <1>1, <1>2, <1>4 DEF SessionsInv, Auth!TypeOK, Sole, DeadAreEmpty, Revokes
<1>9. Marks'
  <2>1. ASSUME NEW q \in Requests
        PROVE  /\ asked[q].old \in {Auth!NoToken} \cup Auth!Tokens /\ asked[q].new \in {Auth!NoToken} \cup Auth!Tokens
               /\ asked[q].at \in {"user", "mark"} => asked[q].old \in Auth!Tokens
               /\ asked[q].at = "session" => asked[q].new \in Auth!Tokens
    BY DEF SessionsInv, Auth!TypeOK, Names, Auth!Tokens, Auth!NoToken
  <2> QED BY <1>1, <1>2, <1>4, <2>1 DEF SessionsInv, Marks, Revokes
<1>10. ASSUME NEW g \in Auth!Families, NEW v \in Auth!Tokens, Belongs(g, v)'
       PROVE  Belongs(g, v)
  BY <1>1, <1>2, <1>10 DEF Belongs, Revokes
<1>11. OneFamily'
  BY <1>10, OneFamilyKept DEF SessionsInv
<1>12. Uses'
  BY <1>1, <1>2, <1>4, <1>10 DEF SessionsInv, Uses, Revokes
<1>13. LatestIsGood'
  BY <1>1, <1>2, <1>4 DEF SessionsInv, LatestIsGood, Auth!WorkingOn, Revokes
<1>14. Logouts'
  BY <1>1, <1>4 DEF SessionsInv, Logouts, Auth!WorkingOn
<1>15. Forks'
  BY <1>1, <1>2, <1>4, ForksKept DEF SessionsInv, Revokes, Extending
<1> QED BY <1>5, <1>6, <1>7, <1>8, <1>9, <1>11, <1>12, <1>13, <1>14, <1>15 DEF SessionsInv

\* The end of a logout.
LEMMA LogoutRevokeInv ==
    ASSUME Auth!SessionsAssumption, SessionsInv, NEW r \in Requests, Auth!LogoutRevoke(r)
    PROVE  SessionsInv'
<1>1. PICK f \in Auth!Families : f = asked[r].family /\ f \in 1..issued
  BY DEF Auth!LogoutRevoke, SessionsInv, Auth!TypeOK, Names, Auth!Families
<1>2. /\ asked[r].at = "revoke" /\ Auth!RevokeTokenFamily(f) /\ Auth!Finish(r)
      /\ loggedOut' = loggedOut \cup {f}
      /\ closed' = IF asked[r].session = f THEN closed \cup {f} ELSE closed
      /\ UNCHANGED <<sessions, active, issued, minted, held, latest, wins, forks, overlapped>>
  BY <1>1 DEF Auth!LogoutRevoke
<1>3. Revokes(f) /\ Puts(r, Auth!Idle)
  BY <1>2, RevokeFacts, FinishFacts DEF SessionsInv
<1>4. Auth!TypeOK'
  BY <1>2, <1>3 DEF SessionsInv, Auth!TypeOK, Revokes, Puts, Slot
<1>5. Reserve'
  <2>1. Refreshing' \subseteq Refreshing
    BY <1>3, IdleSlot DEF Refreshing, Puts
  <2> QED BY <1>2, <2>1, ReserveKept DEF SessionsInv
<1>6. Names'
  <2>1. /\ \A q \in Requests : q # r => asked'[q] = asked[q]
        /\ asked'[r] = Auth!Idle /\ minted \in Nat
    BY <1>3 DEF Puts, SessionsInv, Auth!TypeOK
  <2>2. ASSUME NEW q \in Requests
        PROVE  /\ asked'[q].at # "idle" => asked'[q].family \in 1..issued
               /\ asked'[q].at \in {"user", "mark", "extend"} => asked'[q].old \in 1..minted
               /\ asked'[q].at = "session" => asked'[q].new \in 1..minted
               /\ asked'[q].old \in 0..minted /\ asked'[q].new \in 0..minted
               /\ asked'[q].at = "idle" => asked'[q] = Auth!Idle
    <3>1. CASE q = r
      BY <2>1, <3>1, IdleSlot DEF Auth!NoToken
    <3>2. CASE q # r
      BY <2>1, <3>2 DEF SessionsInv, Names
    <3> QED BY <3>1, <3>2
  <2>3. \A g \in Auth!Families, t \in Auth!Tokens :
          tokenFam'[g][t] # "none" \/ <<g, t>> \in held => g <= issued /\ t <= minted
    BY <1>3 DEF SessionsInv, Names, Revokes
  <2>4. (\A t \in Auth!Tokens : wins[t] > 0 => t <= minted) /\ tokenFamDead' \subseteq 1..issued
    BY <1>1, <1>3 DEF SessionsInv, Names, Revokes
  <2> QED BY <1>2, <2>2, <2>3, <2>4 DEF Names
<1>7. Sole' /\ DeadAreEmpty'
  <2>1. ASSUME NEW p \in Requests, NEW q \in Requests, p # q, asked'[p].at # "idle",
               asked'[q].at # "idle", asked'[p].family = asked'[q].family
        PROVE  asked'[p].family \in overlapped
    <3>1. p # r /\ q # r /\ asked'[p] = asked[p] /\ asked'[q] = asked[q]
      BY <1>3, <2>1, IdleSlot DEF Puts
    <3> QED BY <2>1, <3>1 DEF SessionsInv, Sole
  <2>2. \A g \in tokenFamDead', t \in Auth!Tokens : tokenFam'[g][t] = "none"
    BY <1>3 DEF SessionsInv, Auth!TypeOK, DeadAreEmpty, Revokes
  <2> QED BY <1>2, <2>1, <2>2 DEF Sole, DeadAreEmpty
<1>8. Marks'
  <2>1. ASSUME NEW q \in Requests
        PROVE  /\ asked[q].old \in {Auth!NoToken} \cup Auth!Tokens /\ asked[q].new \in {Auth!NoToken} \cup Auth!Tokens
               /\ asked[q].at \in {"user", "mark"} => asked[q].old \in Auth!Tokens
               /\ asked[q].at = "session" => asked[q].new \in Auth!Tokens
    BY DEF SessionsInv, Auth!TypeOK, Names, Auth!Tokens, Auth!NoToken
  <2> QED BY <1>2, <1>3, <2>1, IdleSlot DEF SessionsInv, Marks, Revokes, Puts
<1>9. ASSUME NEW g \in Auth!Families, NEW v \in Auth!Tokens, Belongs(g, v)'
      PROVE  Belongs(g, v)
  BY <1>2, <1>3, <1>9, IdleSlot DEF Belongs, Revokes, Puts, Auth!Families
<1>10. OneFamily'
  BY <1>9, OneFamilyKept DEF SessionsInv
<1>11. Uses'
  BY <1>2, <1>3, <1>9, IdleSlot DEF SessionsInv, Uses, Revokes, Puts, Auth!Families
<1>12. LatestIsGood'
  <2>1. ASSUME NEW g \in Auth!Families \ (overlapped \cup tokenFamDead'), latest[g] # Auth!NoToken,
               \A q \in Auth!WorkingOn(g)' : asked'[q].at \in {"user", "mark"}
        PROVE  tokenFam'[g][latest[g]] = "unused"
    <3>1. g # f /\ g \notin tokenFamDead
      BY <1>3, <2>1 DEF Revokes
    <3>2. \A q \in Auth!WorkingOn(g) : asked[q].at \in {"user", "mark"}
      BY <1>1, <1>3, <2>1, <3>1 DEF Auth!WorkingOn, Puts
    <3> QED BY <1>3, <2>1, <3>1, <3>2 DEF SessionsInv, LatestIsGood, Revokes
  <2> QED BY <1>2, <2>1 DEF LatestIsGood
<1>13. Logouts'
  <2>1. ASSUME NEW q \in Requests, q # r, asked[q].at # "idle", asked[q].family = f
        PROVE  f \in overlapped
    BY <1>1, <1>2, <2>1 DEF SessionsInv, Sole
  <2>2. f \notin overlapped /\ f \in closed' => f \notin sessions
    BY <1>1, <1>2 DEF SessionsInv, Logouts, Auth!WorkingOn
  <2>3. ASSUME NEW g \in Auth!Families \ overlapped, g \in closed'
        PROVE  g \notin sessions /\ Auth!WorkingOn(g)' = {}
    BY <1>2, <1>3, <2>1, <2>2, <2>3, IdleSlot
       DEF SessionsInv, Logouts, Auth!WorkingOn, Puts
  <2>4. ASSUME NEW g \in Auth!Families \ overlapped, NEW q \in Auth!WorkingOn(g)',
               asked'[q].at = "revoke" /\ asked'[q].session = g
        PROVE  g \notin sessions
    BY <1>3, <2>4, IdleSlot DEF SessionsInv, Logouts, Auth!WorkingOn, Puts
  <2> QED BY <1>2, <2>3, <2>4 DEF Logouts
<1>14. Forks'
  <2>1. \A g \in Auth!Families : Extending(g)' \subseteq Extending(g)
    BY <1>3, IdleSlot DEF Extending, Puts
  <2> QED BY <1>2, <1>3, <2>1, ForksKept DEF SessionsInv, Revokes
<1> QED BY <1>4, <1>5, <1>6, <1>7, <1>8, <1>10, <1>11, <1>12, <1>13, <1>14 DEF SessionsInv

-----------------------------------------------------------------------------
(* The rotation of a token *)

\* The refresh spends its token: in an overlapped family maybe once more.
LEMMA MarkInv ==
    ASSUME Auth!SessionsAssumption, SessionsInv, NEW r \in Requests, Auth!RefreshMark(r)
    PROVE  SessionsInv'
<1>1. PICK f \in Auth!Families, t \in Auth!Tokens :
        f = asked[r].family /\ t = asked[r].old /\ f \in 1..issued /\ t \in 1..minted
  <2>1. /\ asked[r].family \in 1..issued /\ asked[r].old \in 1..minted
        /\ issued \in 0..MaxFamilies /\ minted \in 0..MaxTokens
    BY DEF Auth!RefreshMark, SessionsInv, Auth!TypeOK, Names
  <2>2. asked[r].family \in Auth!Families /\ asked[r].old \in Auth!Tokens
    BY <2>1 DEF Auth!SessionsAssumption, Auth!Families, Auth!Tokens
  <2> QED BY <2>1, <2>2
<1>2. /\ asked[r].at = "mark" /\ Auth!AddTokenToFamily(f, t, "used") /\ Auth!Move(r, "extend")
      /\ forks' = IF tokenFam[f][t] = "used" THEN [forks EXCEPT ![f] = @ + 1] ELSE forks
      /\ UNCHANGED <<tokenFamDead, sessions, active, issued, minted, held, latest, wins,
                     overlapped, loggedOut, closed>>
  BY <1>1 DEF Auth!RefreshMark
<1>3. Writes(f, t, "used")
  BY <1>2, AddFacts DEF SessionsInv
<1>4. PICK s : /\ Puts(r, s) /\ s.at = "extend" /\ s.family = f
               /\ s.old = t /\ s.new = asked[r].new
  BY <1>1, <1>2, MoveFacts DEF Auth!Places, SessionsInv
<1>5. /\ f \notin tokenFamDead => tokenFam[f][t] # "none"
      /\ f \notin tokenFamDead \cup overlapped => tokenFam[f][t] = "unused"
      /\ f \in tokenFamDead => tokenFam[f][t] = "none"
  BY <1>1, <1>2 DEF SessionsInv, Marks, DeadAreEmpty
<1>6. Auth!TypeOK'
  BY <1>2, <1>3, <1>4 DEF SessionsInv, Auth!TypeOK, Puts, Slot, Writes
<1>7. Reserve'
  <2>1. Refreshing' \subseteq Refreshing
    BY <1>2, <1>4 DEF Refreshing, Puts
  <2> QED BY <1>2, <2>1, ReserveKept DEF SessionsInv
<1>8. Names'
  <2>1. ASSUME NEW q \in Requests
        PROVE  /\ asked'[q].at # "idle" => asked'[q].family \in 1..issued
               /\ asked'[q].at \in {"user", "mark", "extend"} => asked'[q].old \in 1..minted
               /\ asked'[q].at = "session" => asked'[q].new \in 1..minted
               /\ asked'[q].old \in 0..minted /\ asked'[q].new \in 0..minted
               /\ asked'[q].at = "idle" => asked'[q] = Auth!Idle
    BY <1>1, <1>4 DEF SessionsInv, Names, Puts
  <2>2. \A g \in Auth!Families, v \in Auth!Tokens :
          tokenFam'[g][v] # "none" \/ <<g, v>> \in held => g <= issued /\ v <= minted
    BY <1>1, <1>3 DEF SessionsInv, Names, Writes
  <2> QED BY <1>2, <2>1, <2>2 DEF SessionsInv, Names
<1>9. Sole' /\ DeadAreEmpty'
  BY <1>1, <1>2, <1>3, <1>4 DEF SessionsInv, Auth!TypeOK, Sole, DeadAreEmpty, Puts, Writes
<1>10. Marks'
  <2> SUFFICES ASSUME NEW q \in Requests, NEW g \in Auth!Families, asked'[q].family = g
               PROVE  /\ g \notin tokenFamDead /\ asked'[q].at \in {"user", "mark"} =>
                           /\ tokenFam'[g][asked'[q].old] # "none"
                           /\ g \notin overlapped => tokenFam'[g][asked'[q].old] = "unused"
                      /\ asked'[q].at \in {"extend", "session"} /\ asked'[q].old # Auth!NoToken =>
                           tokenFam'[g][asked'[q].old] # "unused"
                      /\ asked'[q].at = "session" /\ g \notin tokenFamDead \cup overlapped =>
                           tokenFam'[g][asked'[q].new] = "unused"
    BY <1>2 DEF Marks
  <2>1. CASE q = r
    BY <1>3, <1>4, <1>5, <2>1 DEF Puts, Writes
  <2>2. CASE q # r
    <3>1. asked'[q] = asked[q]
      BY <1>4, <2>2 DEF Puts
    <3>2. /\ asked[q].old \in {Auth!NoToken} \cup Auth!Tokens /\ asked[q].new \in {Auth!NoToken} \cup Auth!Tokens
          /\ asked[q].at \in {"user", "mark"} => asked[q].old \in Auth!Tokens
          /\ asked[q].at = "session" => asked[q].new \in Auth!Tokens
      BY DEF SessionsInv, Auth!TypeOK, Names, Auth!Tokens, Auth!NoToken
    <3>3. g = f /\ asked[q].at # "idle" => f \in overlapped
      BY <1>1, <1>2, <2>2, <3>1 DEF SessionsInv, Sole
    <3> QED BY <1>3, <3>1, <3>2, <3>3 DEF SessionsInv, Marks, Writes
  <2> QED BY <2>1, <2>2
<1>11. ASSUME NEW g \in Auth!Families, NEW v \in Auth!Tokens, Belongs(g, v)'
       PROVE  Belongs(g, v)
  <2>1. \A q \in Requests : asked'[q].family = asked[q].family /\ asked'[q].old = asked[q].old
                            /\ asked'[q].new = asked[q].new
    BY <1>1, <1>4 DEF Puts
  <2>2. tokenFam'[g][v] # "none" => Belongs(g, v)
    BY <1>1, <1>3 DEF Belongs, Writes
  <2> QED BY <1>2, <1>11, <2>1, <2>2 DEF Belongs
<1>12. OneFamily'
  BY <1>11, OneFamilyKept DEF SessionsInv
<1>13. Uses'
  BY <1>1, <1>2, <1>3, <1>4, <1>11 DEF SessionsInv, Uses, Puts, Writes
<1>14. LatestIsGood'
  <2>1. ASSUME NEW g \in Auth!Families \ (overlapped \cup tokenFamDead), latest[g] # Auth!NoToken,
               \A q \in Auth!WorkingOn(g)' : asked'[q].at \in {"user", "mark"}
        PROVE  tokenFam'[g][latest[g]] = "unused"
    <3>1. g # f
      BY <1>4, <2>1 DEF Auth!WorkingOn, Puts
    <3>2. \A q \in Auth!WorkingOn(g) : asked[q].at \in {"user", "mark"}
      BY <1>1, <1>4, <2>1, <3>1 DEF Auth!WorkingOn, Puts
    <3>3. latest[g] \in Auth!Tokens
      BY <2>1 DEF SessionsInv, Auth!TypeOK
    <3> QED BY <1>3, <2>1, <3>1, <3>2, <3>3 DEF SessionsInv, LatestIsGood, Writes
  <2> QED BY <1>2, <2>1 DEF LatestIsGood
<1>15. Logouts'
  <2>1. \A g \in Auth!Families : Auth!WorkingOn(g)' = Auth!WorkingOn(g)
    BY <1>1, <1>2, <1>4 DEF Auth!WorkingOn, Puts
  <2>2. \A q \in Requests : asked'[q].at = "revoke" => asked'[q] = asked[q]
    BY <1>2, <1>4 DEF Puts
  <2> QED BY <1>2, <2>1, <2>2 DEF SessionsInv, Logouts, Auth!WorkingOn
<1>16. Forks'
  <2>1. ASSUME NEW g \in Auth!Families \ tokenFamDead
        PROVE  Cardinality(Auth!Unused(g)') + Cardinality(Extending(g)') <= 1 + forks'[g]
    <3>1. /\ Cardinality(Auth!Unused(g)) + Cardinality(Extending(g)) <= 1 + forks[g]
          /\ IsFiniteSet(Auth!Unused(g)) /\ IsFiniteSet(Extending(g)) /\ forks[g] \in Nat
          /\ Cardinality(Auth!Unused(g)) \in Nat /\ Cardinality(Extending(g)) \in Nat
      BY Finite, FS_CardinalityType
         DEF SessionsInv, Auth!TypeOK, Forks, Auth!Unused, Extending
    <3>2. CASE g # f
      <4>1. Auth!Unused(g)' = Auth!Unused(g)
        BY <1>3, <3>2 DEF Auth!Unused, Writes
      <4>2. Extending(g)' = Extending(g)
        BY <1>1, <1>4, <3>2 DEF Extending, Puts
      <4>3. forks'[g] = forks[g]
        BY <1>2, <3>2 DEF SessionsInv, Auth!TypeOK
      <4> QED BY <3>1, <4>1, <4>2, <4>3
    <3>3. CASE g = f
      <4>1. /\ Extending(g)' \subseteq Extending(g) \cup {r}
            /\ Auth!Unused(g)' \subseteq Auth!Unused(g) \ {t}
        BY <1>3, <1>4, <3>3 DEF Auth!Unused, Extending, Writes, Puts
      <4>2. /\ Cardinality(Extending(g)') \in Nat
            /\ Cardinality(Extending(g)') <= Cardinality(Extending(g)) + 1
        BY <3>1, <4>1, CardOneMore
      <4>3. CASE tokenFam[f][t] = "unused"
        <5>1. t \in Auth!Unused(g) /\ forks'[g] = forks[g]
          BY <1>2, <3>3, <4>3 DEF Auth!Unused
        <5>2. /\ Cardinality(Auth!Unused(g)') \in Nat
              /\ Cardinality(Auth!Unused(g)') <= Cardinality(Auth!Unused(g)) - 1
          BY <3>1, <4>1, <5>1, CardOneLess
        <5> QED BY <3>1, <4>2, <5>1, <5>2
      <4>4. CASE tokenFam[f][t] = "used"
        <5>1. forks'[g] = forks[g] + 1
          BY <1>2, <3>3, <4>4 DEF SessionsInv, Auth!TypeOK
        <5>2. Auth!Unused(g)' \subseteq Auth!Unused(g)
          BY <4>1
        <5>3. /\ Cardinality(Auth!Unused(g)') \in Nat
              /\ Cardinality(Auth!Unused(g)') <= Cardinality(Auth!Unused(g))
          BY <3>1, <5>2, CardFewer
        <5> QED BY <3>1, <4>2, <5>1, <5>3
      <4>5. tokenFam[f][t] \in {"unused", "used"}
        BY <1>5, <3>3 DEF SessionsInv, Auth!TypeOK
      <4> QED BY <4>3, <4>4, <4>5
    <3> QED BY <3>2, <3>3
  <2>2. \A g \in Auth!Families : forks'[g] > 0 => g \in overlapped
    BY <1>2, <1>5 DEF SessionsInv, Auth!TypeOK, Forks
  <2> QED BY <1>2, <2>1, <2>2 DEF Forks
<1> QED BY <1>6, <1>7, <1>8, <1>9, <1>10, <1>12, <1>13, <1>14, <1>15, <1>16
   DEF SessionsInv

\* The refresh makes its new token.
LEMMA ExtendInv ==
    ASSUME Auth!SessionsAssumption, SessionsInv, NEW r \in Requests, Auth!RefreshExtend(r)
    PROVE  SessionsInv'
<1>1. /\ asked[r].at = "extend" /\ asked[r].family \in 1..issued /\ asked[r].old \in 1..minted
      /\ issued \in 0..MaxFamilies /\ minted \in Nat /\ MaxFamilies \in Nat /\ MaxTokens \in Nat
  BY DEF Auth!RefreshExtend, SessionsInv, Auth!TypeOK, Names, Auth!SessionsAssumption
<1>2. /\ Cardinality(Refreshing) \in Nat /\ Cardinality(Refreshing') \in Nat
      /\ minted + Cardinality(Refreshing) <= MaxTokens
      /\ Cardinality(Refreshing') <= Cardinality(Refreshing) - 1
  <2>1. r \in Refreshing /\ IsFiniteSet(Refreshing)
    BY <1>1, Finite DEF Refreshing
  <2>2. Refreshing' \subseteq Refreshing \ {r}
    BY DEF Auth!RefreshExtend, Refreshing, SessionsInv, Auth!TypeOK
  <2> QED BY <2>1, <2>2, CardOneLess, FS_CardinalityType DEF SessionsInv, Reserve
<1>3. asked[r].family \in Auth!Families /\ minted + 1 \in Auth!Tokens
  BY <1>1, <1>2 DEF Auth!Families, Auth!Tokens
<1>4. PICK f \in Auth!Families, t \in Auth!Tokens : f = asked[r].family /\ t = minted + 1
  BY <1>3
<1>5. /\ minted' = t /\ Auth!AddTokenToFamily(f, t, "unused")
      /\ UNCHANGED <<tokenFamDead, sessions, active, issued, held, latest, wins, forks,
                     overlapped, loggedOut, closed>>
  BY <1>4 DEF Auth!RefreshExtend, Auth!history
<1>6. Writes(f, t, "unused")
  BY <1>5, AddFacts DEF SessionsInv
<1>7. PICK s : /\ Puts(r, s) /\ s.at = "session" /\ s.family = f
               /\ s.old = asked[r].old /\ s.new = t
  <2> DEFINE s == [asked[r] EXCEPT !.at = "session", !.new = t]
  <2>1. asked[r] \in Slot
    BY ReqType DEF SessionsInv
  <2>2. /\ s \in Slot /\ s.at = "session" /\ s.family = f
        /\ s.old = asked[r].old /\ s.new = t
    BY <1>4, <2>1 DEF Slot, Auth!Places
  <2>3. asked' = [asked EXCEPT ![r] = s]
    BY <1>4 DEF Auth!RefreshExtend
  <2> HIDE DEF s
  <2> QED BY <2>2, <2>3, PutsFacts DEF SessionsInv
<1>8. /\ \A g \in Auth!Families : ~Belongs(g, t)
      /\ \A q \in Requests : asked[q].old # t /\ asked[q].new # t
      /\ wins[t] = 0 /\ t \in 1..minted'
  <2>1. t > minted
    BY <1>1, <1>4
  <2>2. wins[t] = 0
    <3>1. wins[t] \in Nat
      BY DEF SessionsInv, Auth!TypeOK
    <3>2. wins[t] > 0 => t <= minted
      BY DEF SessionsInv, Names
    <3> QED BY <1>1, <1>4, <3>1, <3>2
  <2>3. \A q \in Requests : asked[q].old # t /\ asked[q].new # t
    BY <1>1, <2>1 DEF SessionsInv, Names
  <2> QED BY <1>1, <1>4, <1>5, <2>1, <2>2, <2>3, FreshToken DEF SessionsInv
<1>9. Auth!TypeOK'
  <2>1. minted' \in 0..MaxTokens
    BY <1>4, <1>1, <1>3, <1>5 DEF Auth!Tokens
  <2> QED BY <1>5, <1>6, <1>7, <2>1 DEF SessionsInv, Auth!TypeOK, Puts, Slot, Writes
<1>10. Reserve'
  BY <1>1, <1>2, <1>4, <1>5 DEF Reserve
<1>11. Names'
  <2>1. ASSUME NEW q \in Requests
        PROVE  /\ asked'[q].at # "idle" => asked'[q].family \in 1..issued
               /\ asked'[q].at \in {"user", "mark", "extend"} => asked'[q].old \in 1..minted'
               /\ asked'[q].at = "session" => asked'[q].new \in 1..minted'
               /\ asked'[q].old \in 0..minted' /\ asked'[q].new \in 0..minted'
               /\ asked'[q].at = "idle" => asked'[q] = Auth!Idle
    <3>1. CASE q = r
      BY <1>1, <1>4, <1>5, <1>7, <3>1 DEF Puts
    <3>2. CASE q # r
      BY <1>1, <1>4, <1>5, <1>7, <3>2 DEF SessionsInv, Names, Puts
    <3> QED BY <3>1, <3>2
  <2>2. \A g \in Auth!Families, v \in Auth!Tokens :
          tokenFam'[g][v] # "none" \/ <<g, v>> \in held => g <= issued /\ v <= minted'
    <3>1. /\ f <= issued /\ t = minted + 1 /\ minted' = minted + 1
      BY <1>1, <1>4, <1>5
    <3>2. \A g \in Auth!Families, v \in Auth!Tokens :
            tokenFam[g][v] # "none" \/ <<g, v>> \in held => g <= issued /\ v <= minted
      BY DEF SessionsInv, Names
    <3>3. \A g \in Auth!Families, v \in Auth!Tokens :
            tokenFam'[g][v] # "none" => tokenFam[g][v] # "none" \/ (g = f /\ v = t)
      BY <1>6 DEF Writes
    <3> QED BY <1>1, <3>1, <3>2, <3>3 DEF Auth!Tokens
  <2>3. \A v \in Auth!Tokens : wins[v] > 0 => v <= minted'
    BY <1>1, <1>4, <1>5 DEF SessionsInv, Names, Auth!Tokens
  <2> QED BY <1>5, <2>1, <2>2, <2>3 DEF SessionsInv, Names
<1>12. Sole' /\ DeadAreEmpty'
  BY <1>1, <1>4, <1>5, <1>6, <1>7
     DEF SessionsInv, Auth!TypeOK, Sole, DeadAreEmpty, Puts, Writes
<1>13. Marks'
  <2> SUFFICES ASSUME NEW q \in Requests, NEW g \in Auth!Families, asked'[q].family = g
               PROVE  /\ g \notin tokenFamDead /\ asked'[q].at \in {"user", "mark"} =>
                           /\ tokenFam'[g][asked'[q].old] # "none"
                           /\ g \notin overlapped => tokenFam'[g][asked'[q].old] = "unused"
                      /\ asked'[q].at \in {"extend", "session"} /\ asked'[q].old # Auth!NoToken =>
                           tokenFam'[g][asked'[q].old] # "unused"
                      /\ asked'[q].at = "session" /\ g \notin tokenFamDead \cup overlapped =>
                           tokenFam'[g][asked'[q].new] = "unused"
    BY <1>5 DEF Marks
  <2>1. ASSUME NEW p \in Requests
        PROVE  /\ asked[p].old \in {Auth!NoToken} \cup Auth!Tokens /\ asked[p].new \in {Auth!NoToken} \cup Auth!Tokens
               /\ asked[p].at \in {"user", "mark"} => asked[p].old \in Auth!Tokens
               /\ asked[p].at = "session" => asked[p].new \in Auth!Tokens
    BY DEF SessionsInv, Auth!TypeOK, Names, Auth!Tokens, Auth!NoToken
  <2>2. \A v \in Auth!Tokens \ {t} : tokenFam'[g][v] = tokenFam[g][v]
    BY <1>6 DEF Writes
  <2>3. CASE q = r
    <3>1. asked'[r].at = "session" /\ asked'[r].old = asked[r].old /\ asked'[r].new = t /\ g = f
      BY <1>7, <2>3 DEF Puts
    <3>2. asked[r].old # Auth!NoToken => tokenFam[g][asked[r].old] # "unused"
      BY <1>1, <1>4, <3>1 DEF SessionsInv, Marks
    <3>3. g \notin tokenFamDead => tokenFam'[g][t] = "unused"
      BY <1>6, <3>1 DEF Writes
    <3>4. asked[r].old # Auth!NoToken => tokenFam'[g][asked[r].old] # "unused"
      BY <1>8, <2>1, <2>2, <3>2
    <3> QED BY <2>3, <3>1, <3>3, <3>4
  <2>4. CASE q # r
    <3>1. asked'[q] = asked[q]
      BY <1>7, <2>4 DEF Puts
    <3>2. asked[q].old # t /\ asked[q].new # t
      BY <1>8
    <3>3. /\ asked[q].old # Auth!NoToken => tokenFam'[g][asked[q].old] = tokenFam[g][asked[q].old]
          /\ asked[q].at \in {"user", "mark"} =>
               tokenFam'[g][asked[q].old] = tokenFam[g][asked[q].old]
          /\ asked[q].at = "session" => tokenFam'[g][asked[q].new] = tokenFam[g][asked[q].new]
      BY <2>1, <2>2, <3>2
    <3> QED BY <3>1, <3>3 DEF SessionsInv, Marks
  <2> QED BY <2>3, <2>4
<1>14. ASSUME NEW g \in Auth!Families, NEW v \in Auth!Tokens, Belongs(g, v)'
       PROVE  Belongs(g, v) \/ (g = f /\ v = t)
  <2>1. \A q \in Requests : /\ asked'[q].family = asked[q].family /\ asked'[q].old = asked[q].old
                            /\ asked'[q].new = IF q = r THEN t ELSE asked[q].new
    BY <1>4, <1>7 DEF Puts
  <2>2. tokenFam'[g][v] # "none" => tokenFam[g][v] # "none" \/ (g = f /\ v = t)
    BY <1>6 DEF Writes
  <2> QED BY <1>4, <1>5, <1>14, <2>1, <2>2 DEF Belongs
<1>15. OneFamily'
  BY <1>8, <1>14 DEF SessionsInv, OneFamily
<1>16. Uses'
  <2>1. ASSUME NEW g \in Auth!Families \ overlapped, NEW v \in Auth!Tokens
        PROVE  /\ Belongs(g, v)' => wins[v] <= 1
               /\ tokenFam'[g][v] = "unused" => wins[v] = 0
               /\ \A q \in Requests : asked'[q].family = g /\ asked'[q].old = v => wins[v] = 0
    <3>1. Belongs(g, v)' => wins[v] <= 1
      <4>1. Belongs(g, v) => wins[v] <= 1
        BY DEF SessionsInv, Uses
      <4>2. wins[t] = 0
        BY <1>8
      <4> QED BY <1>14, <4>1, <4>2
    <3>2. tokenFam'[g][v] = "unused" => wins[v] = 0
      BY <1>6, <1>8 DEF SessionsInv, Uses, Writes
    <3>3. \A q \in Requests : asked'[q].family = g /\ asked'[q].old = v => wins[v] = 0
      <4>1. \A q \in Requests : asked'[q].family = asked[q].family /\ asked'[q].old = asked[q].old
        BY <1>4, <1>7 DEF Puts
      <4> QED BY <4>1 DEF SessionsInv, Uses
    <3> QED BY <3>1, <3>2, <3>3
  <2> QED BY <1>5, <2>1 DEF Uses
<1>17. LatestIsGood'
  <2>1. ASSUME NEW g \in Auth!Families \ (overlapped \cup tokenFamDead), latest[g] # Auth!NoToken,
               \A q \in Auth!WorkingOn(g)' : asked'[q].at \in {"user", "mark"}
        PROVE  tokenFam'[g][latest[g]] = "unused"
    <3>1. g # f
      BY <1>7, <2>1 DEF Auth!WorkingOn, Puts
    <3>2. \A q \in Auth!WorkingOn(g) : asked[q].at \in {"user", "mark"}
      BY <1>4, <1>7, <2>1, <3>1 DEF Auth!WorkingOn, Puts
    <3>3. latest[g] \in Auth!Tokens
      BY <2>1 DEF SessionsInv, Auth!TypeOK
    <3> QED BY <1>6, <2>1, <3>1, <3>2, <3>3 DEF SessionsInv, LatestIsGood, Writes
  <2> QED BY <1>5, <2>1 DEF LatestIsGood
<1>18. Logouts'
  <2>1. \A g \in Auth!Families : Auth!WorkingOn(g)' = Auth!WorkingOn(g)
    BY <1>1, <1>4, <1>7 DEF Auth!WorkingOn, Puts
  <2>2. \A q \in Requests : asked'[q].at = "revoke" => asked'[q] = asked[q]
    BY <1>7 DEF Puts
  <2> QED BY <1>5, <2>1, <2>2 DEF SessionsInv, Logouts, Auth!WorkingOn
<1>19. Forks'
  <2>1. ASSUME NEW g \in Auth!Families \ tokenFamDead
        PROVE  Cardinality(Auth!Unused(g)') + Cardinality(Extending(g)') <= 1 + forks[g]
    <3>1. /\ Cardinality(Auth!Unused(g)) + Cardinality(Extending(g)) <= 1 + forks[g]
          /\ IsFiniteSet(Auth!Unused(g)) /\ IsFiniteSet(Extending(g)) /\ forks[g] \in Nat
          /\ Cardinality(Auth!Unused(g)) \in Nat /\ Cardinality(Extending(g)) \in Nat
      BY Finite, FS_CardinalityType
         DEF SessionsInv, Auth!TypeOK, Forks, Auth!Unused, Extending
    <3>2. CASE g # f
      <4>1. Auth!Unused(g)' = Auth!Unused(g)
        BY <1>6, <3>2 DEF Auth!Unused, Writes
      <4>2. Extending(g)' = Extending(g)
        BY <1>4, <1>7, <3>2 DEF Extending, Puts
      <4> QED BY <3>1, <4>1, <4>2
    <3>3. CASE g = f
      <4>1. Auth!Unused(g)' \subseteq Auth!Unused(g) \cup {t}
        BY <1>6, <3>3 DEF Auth!Unused, Writes
      <4>2. r \in Extending(g) /\ Extending(g)' \subseteq Extending(g) \ {r}
        BY <1>1, <1>4, <1>7, <3>3 DEF Extending, Puts
      <4>3. /\ Cardinality(Auth!Unused(g)') \in Nat
            /\ Cardinality(Auth!Unused(g)') <= Cardinality(Auth!Unused(g)) + 1
        BY <3>1, <4>1, CardOneMore
      <4>4. /\ Cardinality(Extending(g)') \in Nat
            /\ Cardinality(Extending(g)') <= Cardinality(Extending(g)) - 1
        BY <3>1, <4>2, CardOneLess
      <4> QED BY <3>1, <4>3, <4>4
    <3> QED BY <3>2, <3>3
  <2> QED BY <1>5, <2>1 DEF SessionsInv, Forks
<1> QED BY <1>9, <1>10, <1>11, <1>12, <1>13, <1>15, <1>16, <1>17, <1>18, <1>19
   DEF SessionsInv

\* The session is written and the client answered, of a login or a refresh.
LEMMA StartInv ==
    ASSUME Auth!SessionsAssumption, SessionsInv, NEW r \in Requests, Auth!StartSession(r)
    PROVE  SessionsInv'
<1>1. PICK f \in Auth!Families, t \in Auth!Tokens :
        f = asked[r].family /\ t = asked[r].new /\ f \in 1..issued /\ t \in 1..minted
  <2>1. /\ asked[r].family \in 1..issued /\ asked[r].new \in 1..minted
        /\ issued \in 0..MaxFamilies /\ minted \in 0..MaxTokens
    BY DEF Auth!StartSession, SessionsInv, Auth!TypeOK, Names
  <2>2. asked[r].family \in Auth!Families /\ asked[r].new \in Auth!Tokens
    BY <2>1 DEF Auth!SessionsAssumption, Auth!Families, Auth!Tokens
  <2> QED BY <2>1, <2>2
<1>2. PICK o \in {Auth!NoToken} \cup Auth!Tokens : o = asked[r].old /\ o \in 0..minted
  BY DEF SessionsInv, Auth!TypeOK, Names
<1>3. /\ asked[r].at = "session" /\ Auth!Finish(r)
      /\ sessions' = sessions \cup {f} /\ held' = held \cup {<<f, t>>}
      /\ latest' = [latest EXCEPT ![f] = t]
      /\ wins' = IF o = Auth!NoToken THEN wins ELSE [wins EXCEPT ![o] = @ + 1]
      /\ UNCHANGED <<tokenFam, tokenFamDead, active, issued, minted, forks, overlapped,
                     loggedOut, closed>>
  BY <1>1, <1>2 DEF Auth!StartSession
<1>4. Puts(r, Auth!Idle)
  BY <1>3, FinishFacts DEF SessionsInv
<1>5. /\ asked'[r] = Auth!Idle
      /\ \A q \in Requests : q # r => asked'[q] = asked[q]
  BY <1>4 DEF Puts
<1>6. wins \in [Auth!Tokens -> Nat] /\ wins' \in [Auth!Tokens -> Nat]
      /\ \A v \in Auth!Tokens : wins'[v] = IF v = o /\ o # Auth!NoToken THEN wins[v] + 1 ELSE wins[v]
  BY <1>3 DEF SessionsInv, Auth!TypeOK
<1>7. Auth!TypeOK'
  BY <1>3, <1>4, <1>6 DEF SessionsInv, Auth!TypeOK, Puts, Slot
<1>8. Reserve'
  <2>1. Refreshing' \subseteq Refreshing
    BY <1>5, IdleSlot DEF Refreshing
  <2> QED BY <1>3, <2>1, ReserveKept DEF SessionsInv
<1>9. Names'
  <2>1. ASSUME NEW q \in Requests
        PROVE  /\ asked'[q].at # "idle" => asked'[q].family \in 1..issued
               /\ asked'[q].at \in {"user", "mark", "extend"} => asked'[q].old \in 1..minted
               /\ asked'[q].at = "session" => asked'[q].new \in 1..minted
               /\ asked'[q].old \in 0..minted /\ asked'[q].new \in 0..minted
               /\ asked'[q].at = "idle" => asked'[q] = Auth!Idle
    <3>1. CASE q = r
      BY <1>2, <1>5, <3>1, IdleSlot DEF Auth!NoToken, SessionsInv, Auth!TypeOK
    <3>2. CASE q # r
      BY <1>5, <3>2 DEF SessionsInv, Names
    <3> QED BY <3>1, <3>2
  <2>2. \A g \in Auth!Families, v \in Auth!Tokens :
          tokenFam[g][v] # "none" \/ <<g, v>> \in held' => g <= issued /\ v <= minted
    BY <1>1, <1>3 DEF SessionsInv, Names
  <2>3. ASSUME NEW v \in Auth!Tokens, wins'[v] > 0 PROVE v <= minted
    <3>1. wins[v] > 0 => v <= minted
      BY DEF SessionsInv, Names
    <3> QED BY <1>2, <1>6, <2>3, <3>1
  <2> QED BY <1>3, <2>1, <2>2, <2>3 DEF SessionsInv, Names
<1>10. Sole'
  BY <1>3, <1>5, IdleSlot DEF SessionsInv, Sole
<1>11. DeadAreEmpty'
  BY <1>3 DEF SessionsInv, DeadAreEmpty
<1>12. Marks'
  <2> SUFFICES ASSUME NEW q \in Requests, NEW g \in Auth!Families, asked'[q].family = g
               PROVE  /\ g \notin tokenFamDead /\ asked'[q].at \in {"user", "mark"} =>
                           /\ tokenFam[g][asked'[q].old] # "none"
                           /\ g \notin overlapped => tokenFam[g][asked'[q].old] = "unused"
                      /\ asked'[q].at \in {"extend", "session"} /\ asked'[q].old # Auth!NoToken =>
                           tokenFam[g][asked'[q].old] # "unused"
                      /\ asked'[q].at = "session" /\ g \notin tokenFamDead \cup overlapped =>
                           tokenFam[g][asked'[q].new] = "unused"
    BY <1>3 DEF Marks
  <2>1. CASE q = r
    BY <1>5, <2>1, IdleSlot
  <2>2. CASE q # r
    BY <1>5, <2>2 DEF SessionsInv, Marks
  <2> QED BY <2>1, <2>2
<1>13. ASSUME NEW g \in Auth!Families, NEW v \in Auth!Tokens, Belongs(g, v)'
       PROVE  Belongs(g, v)
  <2>1. <<g, v>> \in held' => <<g, v>> \in held \/ (g = f /\ v = t)
    BY <1>3
  <2>2. \A q \in Requests : asked'[q].family = g /\ v \in {asked'[q].old, asked'[q].new} =>
          asked[q].family = g /\ v \in {asked[q].old, asked[q].new}
    BY <1>5, IdleSlot DEF Auth!Families
  <2>3. tokenFam' = tokenFam
    BY <1>3
  <2> QED BY <1>1, <1>13, <2>1, <2>2, <2>3 DEF Belongs
<1>14. OneFamily'
  BY <1>13, OneFamilyKept DEF SessionsInv
<1>15. ASSUME NEW q \in Requests, q # r, asked[q].at # "idle", asked[q].family = f
       PROVE  f \in overlapped
  BY <1>1, <1>3, <1>15 DEF SessionsInv, Sole
<1>16. Uses'
  <2>1. ASSUME NEW g \in Auth!Families \ overlapped, NEW v \in Auth!Tokens
        PROVE  /\ Belongs(g, v)' => wins'[v] <= 1
               /\ tokenFam[g][v] = "unused" => wins'[v] = 0
               /\ \A q \in Requests : asked'[q].family = g /\ asked'[q].old = v => wins'[v] = 0
    <3>1. /\ Belongs(g, v) => wins[v] <= 1
          /\ tokenFam[g][v] = "unused" => wins[v] = 0
          /\ \A q \in Requests : asked[q].family = g /\ asked[q].old = v => wins[v] = 0
      BY DEF SessionsInv, Uses
    <3>2. ASSUME NEW q \in Requests, asked'[q].family = g, asked'[q].old = v
          PROVE  q # r /\ asked[q].family = g /\ asked[q].old = v /\ asked[q].at # "idle"
      <4>1. q # r
        BY <1>5, <3>2, IdleSlot DEF Auth!Families
      <4>2. asked[q].family = g /\ asked[q].old = v
        BY <1>5, <3>2, <4>1
      <4>3. asked[q].at = "idle" => asked[q].family = 0
        BY IdleSlot DEF SessionsInv, Names
      <4> QED BY <4>1, <4>2, <4>3 DEF Auth!Families
    <3>3. CASE v # o \/ o = Auth!NoToken
      <4>1. wins'[v] = wins[v]
        BY <1>6, <3>3
      <4> QED BY <1>13, <3>1, <3>2, <4>1
    <3>4. CASE v = o /\ o # Auth!NoToken
      <4>1. wins'[v] = wins[v] + 1 /\ Belongs(f, v)
        BY <1>1, <1>2, <1>6, <3>4 DEF Belongs
      <4>2. Belongs(g, v) => g = f
        BY <4>1 DEF SessionsInv, OneFamily
      <4>3. g = f => wins[v] = 0
        BY <1>1, <1>2, <3>1, <3>4
      <4>4. Belongs(g, v)' => wins'[v] <= 1
        BY <1>6, <1>13, <4>1, <4>2, <4>3
      <4>5. tokenFam[f][v] # "unused"
        BY <1>1, <1>2, <1>3, <3>4 DEF SessionsInv, Marks
      <4>6. tokenFam[g][v] # "unused"
        BY <4>2, <4>5 DEF Belongs
      <4>7. ASSUME NEW q \in Requests, asked'[q].family = g, asked'[q].old = v PROVE FALSE
        <5>1. q # r /\ asked[q].family = g /\ asked[q].old = v /\ asked[q].at # "idle"
          BY <3>2, <4>7
        <5>2. Belongs(g, v)
          BY <5>1 DEF Belongs
        <5> QED BY <1>15, <2>1, <4>2, <5>1, <5>2
      <4> QED BY <4>4, <4>6, <4>7
    <3> QED BY <3>3, <3>4
  <2> QED BY <1>3, <2>1 DEF Uses
<1>17. LatestIsGood'
  <2>1. ASSUME NEW g \in Auth!Families \ (overlapped \cup tokenFamDead), latest'[g] # Auth!NoToken,
               \A q \in Auth!WorkingOn(g)' : asked'[q].at \in {"user", "mark"}
        PROVE  tokenFam[g][latest'[g]] = "unused"
    <3>1. CASE g = f
      <4>1. latest'[g] = t
        BY <1>3, <3>1 DEF SessionsInv, Auth!TypeOK
      <4> QED BY <1>1, <1>3, <2>1, <3>1, <4>1 DEF SessionsInv, Marks
    <3>2. CASE g # f
      <4>1. latest'[g] = latest[g]
        BY <1>3, <3>2 DEF SessionsInv, Auth!TypeOK
      <4>2. \A q \in Auth!WorkingOn(g) : asked[q].at \in {"user", "mark"}
        BY <1>1, <1>5, <2>1, <3>2 DEF Auth!WorkingOn
      <4> QED BY <2>1, <4>1, <4>2 DEF SessionsInv, LatestIsGood
    <3> QED BY <3>1, <3>2
  <2> QED BY <1>3, <2>1 DEF LatestIsGood
<1>18. Logouts'
  <2>1. ASSUME NEW g \in Auth!Families \ overlapped
        PROVE  /\ g \in closed => g \notin sessions' /\ Auth!WorkingOn(g)' = {}
               /\ \A q \in Auth!WorkingOn(g)' :
                    asked'[q].at = "revoke" /\ asked'[q].session = g => g \notin sessions'
    <3>1. \A q \in Auth!WorkingOn(g)' : q \in Auth!WorkingOn(g) /\ asked'[q] = asked[q] /\ q # r
      BY <1>5, IdleSlot DEF Auth!WorkingOn
    <3>2. /\ g \in closed => g \notin sessions /\ Auth!WorkingOn(g) = {}
          /\ \A q \in Auth!WorkingOn(g) :
               asked[q].at = "revoke" /\ asked[q].session = g => g \notin sessions
      BY DEF SessionsInv, Logouts
    <3>3. CASE g = f
      <4>1. r \in Auth!WorkingOn(g)
        BY <1>1, <1>3, <3>3 DEF Auth!WorkingOn
      <4>2. Auth!WorkingOn(g)' = {}
        BY <1>15, <2>1, <3>1, <3>3 DEF Auth!WorkingOn
      <4> QED BY <3>2, <4>1, <4>2
    <3>4. CASE g # f
      <4>1. g \in sessions' => g \in sessions
        BY <1>3, <3>4
      <4> QED BY <3>1, <3>2, <4>1
    <3> QED BY <3>3, <3>4
  <2> QED BY <1>3, <2>1 DEF Logouts
<1>19. Forks'
  <2>1. \A g \in Auth!Families : Extending(g)' \subseteq Extending(g)
    BY <1>5, IdleSlot DEF Extending
  <2> QED BY <1>3, <2>1, ForksKept DEF SessionsInv
<1> QED BY <1>7, <1>8, <1>9, <1>10, <1>11, <1>12, <1>14, <1>16, <1>17, <1>18, <1>19
   DEF SessionsInv

-----------------------------------------------------------------------------
(* All behaviours *)

LEMMA SessionsBegin ==
    ASSUME Auth!SessionsAssumption, Auth!Init
    PROVE  SessionsInv
<1>1. /\ \A f \in Auth!Families, t \in Auth!Tokens : tokenFam[f][t] = "none"
      /\ \A r \in Requests : asked[r] = Auth!Idle
      /\ \A t \in Auth!Tokens : wins[t] = 0
      /\ \A f \in Auth!Families : forks[f] = 0 /\ latest[f] = Auth!NoToken
      /\ tokenFamDead = {} /\ sessions = {} /\ held = {} /\ issued = 0 /\ minted = 0
      /\ overlapped = {} /\ loggedOut = {} /\ closed = {} /\ active = Users
  BY DEF Auth!Init, Auth!NoTokens
<1>2. Auth!TypeOK
  <2>1. Auth!Idle \in Slot
    BY IdleSlot
  <2> QED BY <2>1 DEF Auth!Init, Auth!TypeOK, Auth!NoTokens, Auth!SessionsAssumption, Slot
<1>3. Reserve
  <2>1. Refreshing = {}
    BY <1>1, IdleSlot DEF Refreshing
  <2> QED BY <1>1, <2>1, FS_EmptySet DEF Reserve, Auth!SessionsAssumption
<1>4. Names
  BY <1>1, IdleSlot DEF Names, Auth!NoToken
<1>5. Sole /\ DeadAreEmpty /\ Marks
  BY <1>1, IdleSlot DEF Sole, DeadAreEmpty, Marks
<1>6. OneFamily
  BY <1>1, IdleSlot DEF OneFamily, Belongs, Auth!Families
<1>7. Uses
  BY <1>1, IdleSlot DEF Uses
<1>8. LatestIsGood /\ Logouts
  BY <1>1, IdleSlot DEF LatestIsGood, Logouts, Auth!WorkingOn
<1>9. Forks
  <2>1. \A f \in Auth!Families : Auth!Unused(f) = {} /\ Extending(f) = {}
    BY <1>1, IdleSlot DEF Auth!Unused, Extending
  <2>2. \A f \in Auth!Families : Cardinality(Auth!Unused(f)) = 0 /\ Cardinality(Extending(f)) = 0
    BY <2>1, FS_EmptySet
  <2>3. \A f \in Auth!Families : forks[f] = 0
    BY <1>1
  <2> QED BY <2>2, <2>3 DEF Forks
<1> QED BY <1>2, <1>3, <1>4, <1>5, <1>6, <1>7, <1>8, <1>9 DEF SessionsInv

LEMMA SessionsGoOn ==
    ASSUME Auth!SessionsAssumption, SessionsInv, [Auth!Next]_(Auth!vars)
    PROVE  SessionsInv'
<1>1. CASE UNCHANGED Auth!vars
  <2>1. UNCHANGED <<tokenFam, tokenFamDead, sessions, active, issued, minted, held, asked,
                    latest, wins, forks, overlapped, loggedOut, closed>>
    BY <1>1 DEF Auth!vars, Auth!store, Auth!history
  <2> QED BY <2>1
     DEF SessionsInv, Auth!TypeOK, Reserve, Refreshing, Names, Sole, DeadAreEmpty, Marks,
             OneFamily, Belongs, Uses, LatestIsGood, Logouts, Auth!WorkingOn, Forks,
                Auth!Unused,
             Extending
<1>2. ASSUME NEW r \in Requests, Auth!Arrivals(r) PROVE SessionsInv'
  BY <1>1, <1>2, LoginInv, BreachInv, CheckInv, LogoutInv, EnvironmentInv
     DEF Auth!Arrivals, Auth!RefreshUnknown
<1>3. ASSUME NEW r \in Requests, Auth!RequestSteps(r) PROVE SessionsInv'
  BY <1>3, StatusCheckInv, MarkInv, ExtendInv, StartInv, LogoutRevokeInv
     DEF Auth!RequestSteps
<1> QED BY <1>1, <1>2, <1>3, EnvironmentInv DEF Auth!Next

\* What the invariant says to a client and to an operator.
LEMMA InvIsSound ==
    ASSUME Auth!SessionsAssumption, SessionsInv
    PROVE  Auth!SessionsAreSound
<1>1. Auth!ForksAreCounted
  <2>1. ASSUME NEW f \in Auth!Families PROVE Cardinality(Auth!Unused(f)) <= 1 + forks[f]
    <3>1. forks[f] \in Nat /\ Cardinality(Auth!Unused(f)) \in Nat /\ Cardinality(Extending(f)) \in Nat
      BY Finite, FS_CardinalityType DEF SessionsInv, Auth!TypeOK, Auth!Unused, Extending
    <3>2. CASE f \in tokenFamDead
      <4>1. Auth!Unused(f) = {}
        BY <3>2 DEF SessionsInv, DeadAreEmpty, Auth!Unused
      <4> QED BY <3>1, <4>1, FS_EmptySet
    <3>3. CASE f \notin tokenFamDead
      BY <3>1, <3>3 DEF SessionsInv, Forks
    <3> QED BY <3>2, <3>3
  <2> QED BY <2>1, AuthCounted DEF SessionsInv, Forks, Auth!ForksAreCounted
<1>2. Auth!SingleUse
  BY DEF SessionsInv, Uses, Belongs, Auth!SingleUse
<1>3. Auth!ClientCanGoOn
  <2>1. ASSUME NEW f \in Auth!Families \ (overlapped \cup tokenFamDead), latest[f] # Auth!NoToken,
               Auth!WorkingOn(f) = {}
        PROVE  latest[f] \in Auth!Unused(f)
    <3>1. latest[f] \in Auth!Tokens
      BY <2>1 DEF SessionsInv, Auth!TypeOK
    <3> QED BY <2>1, <3>1 DEF SessionsInv, LatestIsGood, Auth!Unused
  <2> QED BY <2>1 DEF Auth!ClientCanGoOn
<1>4. Auth!LogoutHolds
  BY DEF SessionsInv, Auth!TypeOK, Logouts, Auth!LogoutHolds
<1> QED BY <1>1, <1>2, <1>3, <1>4 DEF SessionsInv, Auth!SessionsAreSound

LEMMA SessionsHold ==
    ASSUME Auth!SessionsAssumption
    PROVE  Auth!Spec => []Auth!SessionsAreSound
<1>1. Auth!Init => SessionsInv
  BY SessionsBegin
<1>2. SessionsInv /\ [Auth!Next]_(Auth!vars) => SessionsInv'
  BY SessionsGoOn
<1>3. SessionsInv => Auth!SessionsAreSound
  BY InvIsSound
<1> QED BY <1>1, <1>2, <1>3, PTL DEF Auth!Spec

\* Whatever refreshes, logouts and revocations interleave: a family has one good
\* token and one more for each mark that came second (CheckTokenInFamily and
\* AddTokenToFamily are two calls of the store), a token is good for one
\* refresh and the client answered last can go on unless requests on the
\* family overlapped, and a logout that names the family and its session leaves
\* no session, unless they did (auth.go and redis.go of the auth-service).
THEOREM SessionsStaySound == Auth!Spec => []SessionsAreSound
BY AccessAssumption, SessionsHold DEF SessionsAreSound

\* The composition of Access runs each part as the part runs alone, so that
\* what is proved of a part holds in every behaviour of the composition.
THEOREM AccessRunsItsParts == AccessSpec => Spec /\ Proxy!Spec /\ Auth!Spec
<1>1. AccessInit => Init /\ Proxy!Init /\ Auth!Init
  BY DEF AccessInit
<1>2. [AccessNext]_all =>
          [Next]_vars /\ [Proxy!Next]_(Proxy!vars) /\ [Auth!Next]_(Auth!vars)
  BY Zenon DEF AccessNext, OfLimiter, OfProxy, OfSessions, all, proxyVars, authVars, vars,
         Proxy!vars, Proxy!breakerVars, Proxy!proxyVars, Auth!vars, Auth!store,
            Auth!history
<1> QED BY <1>1, <1>2, PTL DEF AccessSpec, Spec, Proxy!Spec, Auth!Spec

=============================================================================
