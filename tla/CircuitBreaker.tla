--------------------------- MODULE CircuitBreaker ---------------------------
(***************************************************************************)
(* CircuitBreaker of api-gateway (internal/proxy/breaker.go).              *)
(*                                                                         *)
(* Allow and RecordResult each run under one mutex.  They are action       *)
(* operators here: ReverseProxy conjoins them with the step of the handler *)
(* goroutine that makes the call, so calls of different requests           *)
(* interleave, and a result may be recorded in another state than the one  *)
(* its request was admitted in.                                            *)
(***************************************************************************)
EXTENDS Integers

CONSTANTS
    MinSample,      \* the 10 results needed before the rate is looked at
    Window,         \* the 100 results after which the counts restart
    HalfOpenLimit,  \* the 5 successes that close a half-open breaker
    FailNum,        \* failureRate is FailNum / FailDen
    FailDen,
    Cooldown        \* ticks an open breaker refuses everything

\* What a module that instantiates this one assumes.
BreakerAssumption ==
    /\ MinSample \in Nat \ {0}
    /\ Window \in Nat /\ MinSample <= Window
    /\ HalfOpenLimit \in Nat \ {0}
    /\ FailNum \in Nat \ {0} /\ FailDen \in Nat /\ FailNum <= FailDen
    /\ Cooldown \in Nat

VARIABLES
    state,          \* "closed", "half-open" or "open"
    counts,         \* failureCount, successCount and totalCount
    elapsed,        \* ticks since lastStateChange, up to Cooldown + 1
    openFor,        \* history: while open, ticks since it opened
    streak          \* history: failures recorded in a row while closed

breakerVars == <<state, counts, elapsed, openFor, streak>>

-----------------------------------------------------------------------------
NoCounts == [failure |-> 0, success |-> 0, total |-> 0]

BreakerInit ==
    /\ state = "closed"
    /\ counts = NoCounts
    /\ elapsed = 0
    /\ openFor = 0
    /\ streak = 0

\* time.Since(lastStateChange) grows; beyond the cooldown it makes no difference.
BreakerTick ==
    /\ elapsed' = IF elapsed > Cooldown THEN elapsed ELSE elapsed + 1
    /\ openFor' = IF state # "open" \/ openFor > Cooldown THEN openFor
                  ELSE openFor + 1
    /\ UNCHANGED <<state, counts, streak>>

\* Fault: an opening keeps the old timestamp.
EnterUnstamped(s) ==
    /\ state' = s
    /\ openFor' = 0
    /\ streak' = 0
    /\ UNCHANGED elapsed

\* A state change and its timestamp.
Enter(s) ==
    /\ state' = s
    /\ elapsed' = 0
    /\ openFor' = 0
    /\ streak' = 0

-----------------------------------------------------------------------------
(* Allow *)

\* Allow returns true: at once unless open; after the cooldown the first
\* request makes an open breaker half-open.
Admit ==
    \/ state # "open" /\ UNCHANGED breakerVars
    \/ /\ state = "open"
       /\ elapsed > Cooldown
       /\ Enter("half-open")
       /\ counts' = NoCounts

\* Allow returns false.
Reject ==
    /\ state = "open"
    /\ elapsed <= Cooldown
    /\ UNCHANGED breakerVars

-----------------------------------------------------------------------------
(* RecordResult *)

Counted(success) ==
    [failure |-> counts.failure + (IF success THEN 0 ELSE 1),
     success |-> counts.success + (IF success THEN 1 ELSE 0),
     total   |-> counts.total + 1]

\* failureCount / totalCount >= failureRate
RateReached(c) == c.failure * FailDen >= FailNum * c.total

\* Fault: the rate must be exceeded, not reached.
TripsAbove(c) == c.total >= MinSample /\ c.failure * FailDen > FailNum * c.total

Trips(c) == c.total >= MinSample /\ RateReached(c)

\* The counts restart when the window is full.
Windowed(c) == IF c.total >= Window THEN NoCounts ELSE c

RecordHalfOpen(success) ==
    /\ state = "half-open"
    /\ \/ /\ ~success
          /\ Enter("open")
          /\ counts' = Counted(success)
       \/ /\ success
          /\ Counted(success).success >= HalfOpenLimit
          /\ Enter("closed")
          /\ counts' = NoCounts
       \/ /\ success
          /\ Counted(success).success < HalfOpenLimit
          /\ counts' = Counted(success)
          /\ UNCHANGED <<state, elapsed, openFor, streak>>

RecordClosed(success) ==
    LET c == Counted(success)
    IN  /\ state = "closed"
        /\ counts' = Windowed(c)
        /\ \/ Trips(c) /\ Enter("open")
           \/ /\ ~Trips(c)
              /\ streak' = IF success THEN 0 ELSE streak + 1
              /\ UNCHANGED <<state, elapsed, openFor>>

\* A result that comes back to an open breaker is counted and nothing else.
RecordOpen(success) ==
    /\ state = "open"
    /\ counts' = Counted(success)
    /\ UNCHANGED <<state, elapsed, openFor, streak>>

RecordResult(success) ==
    RecordHalfOpen(success) \/ RecordClosed(success) \/ RecordOpen(success)

-----------------------------------------------------------------------------
BreakerTypeOK ==
    /\ state \in {"closed", "half-open", "open"}
    /\ counts \in [failure : Nat, success : Nat, total : Nat]
    /\ elapsed \in 0..(Cooldown + 1)
    /\ openFor \in 0..(Cooldown + 1)
    /\ streak \in Nat

\* A closed breaker never sits on a sample that should have tripped it, and
\* its window is never overfull, whichever state it was closed from.
ClosedMeansHealthy ==
    state = "closed" =>
        /\ counts.total < Window
        /\ \/ counts.total < MinSample
           \/ counts.failure * FailDen < FailNum * counts.total

\* A half-open breaker has counted nothing but successes since it became so,
\* fewer than close it, although requests admitted earlier still report.
HalfOpenIsClean ==
    state = "half-open" => counts.failure = 0 /\ counts.success < HalfOpenLimit

\* The failures in a row that always trip: the window may restart just
\* before those in it reach the rate, and then a fresh sample is due.
TrippingRun == (FailNum * Window + FailDen - 1) \div FailDen + MinSample - 1

\* However the successes before them fall into the window, that many
\* failures in a row open the breaker.
FailureRunsTrip == state = "closed" => streak < TrippingRun

\* Once open, the breaker refuses for a whole cooldown, counted from its last
\* opening: results that arrive late neither reopen nor extend nor shorten it.
OpenHolds == [][state = "open" /\ state' # "open" => openFor > Cooldown]_breakerVars
=============================================================================
