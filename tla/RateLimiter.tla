----------------------------- MODULE RateLimiter -----------------------------
(***************************************************************************)
(* RateLimiter of api-gateway (internal/middleware/limiter.go): a map of   *)
(* buckets that are created on first use, refilled lazily from the time    *)
(* since they were last asked, and deleted by a background goroutine when  *)
(* they were not asked for long.  Allow and the clean-up run under one     *)
(* mutex and are one action each.                                          *)
(*                                                                         *)
(* Amounts are exact fractions of a token (the code has float64), time is  *)
(* a tick; the clean-up may come at any time, its five minutes matter to   *)
(* no property.                                                            *)
(***************************************************************************)
EXTENDS Integers

CONSTANTS
    Clients,
    NoClient,
    Unit,           \* units that make a token
    Rate,           \* refillRate: units gained per tick
    Burst,          \* burstCapacity, in tokens
    IdleLimit,      \* the ten minutes after which a bucket is stale
    IdleCap,        \* bound: idle ticks beyond it make no difference
    MaxSpan         \* bound: length of the windows RateBounded looks at

Capacity == Burst * Unit

\* A bucket must be able to fill up before it counts as stale, or deleting it
\* would be a gift: with the defaults, 100 tokens at 10 a second in 600 s.
ASSUME LimiterAssumption ==
    /\ Unit \in Nat \ {0} /\ Rate \in Nat \ {0} /\ Burst \in Nat \ {0}
    /\ IdleLimit \in Nat /\ IdleLimit * Rate >= Capacity
    /\ IdleCap \in Nat /\ IdleCap > IdleLimit
    /\ MaxSpan \in Nat
    /\ NoClient \notin Clients

VARIABLES
    buckets,        \* clients that have a bucket
    tokens,         \* units in each bucket when it was last asked
    idle,           \* ticks since lastRefill of each bucket
    answer,         \* the last answer each client got in this tick
    due,            \* history: what is left of the retryAfter last answered,
                    \* in units: one tick is worth Rate; NotDue after a grant
    window          \* history: what one client was granted over some ticks

vars == <<buckets, tokens, idle, answer, due, window>>

NotDue == -1

NoWindow == [client |-> NoClient, span |-> 0, granted |-> 0]

Init ==
    /\ buckets = {}
    /\ tokens = [c \in Clients |-> 0]
    /\ idle = [c \in Clients |-> 0]
    /\ answer = [c \in Clients |-> "none"]
    /\ due = [c \in Clients |-> NotDue]
    /\ window = NoWindow

-----------------------------------------------------------------------------

\* Fault: no cap.
LevelUncapped(c) ==
    IF c \notin buckets THEN Capacity ELSE tokens[c] + idle[c] * Rate

\* What Allow finds after creating the bucket or replenishing it.
Level(c) ==
    IF c \notin buckets \/ tokens[c] + idle[c] * Rate > Capacity THEN Capacity
    ELSE tokens[c] + idle[c] * Rate

\* requiredTokens: retryAfter is the time they take at refillRate.
RetryAfter(c) == Unit - Level(c)

\* Fault: the timestamp stays, and the same time is credited again.
ReplenishUnstamped(c, cost) ==
    /\ buckets' = buckets \cup {c}
    /\ tokens' = [tokens EXCEPT ![c] = Level(c) - cost]
    /\ UNCHANGED idle

\* The bucket exists, is replenished up to now and pays the cost.
Replenish(c, cost) ==
    /\ buckets' = buckets \cup {c}
    /\ tokens' = [tokens EXCEPT ![c] = Level(c) - cost]
    /\ idle' = [idle EXCEPT ![c] = 0]

AllowGranted(c) ==
    /\ Level(c) >= Unit
    /\ Replenish(c, Unit)
    /\ answer' = [answer EXCEPT ![c] = "allowed"]
    /\ due' = [due EXCEPT ![c] = NotDue]
    /\ window' = IF window.client = c
                 THEN [window EXCEPT !.granted = @ + 1] ELSE window

AllowDenied(c) ==
    /\ Level(c) < Unit
    /\ Replenish(c, 0)
    /\ answer' = [answer EXCEPT ![c] = "denied"]
    /\ due' = [due EXCEPT ![c] = RetryAfter(c)]
    /\ UNCHANGED window

\* Fault: any bucket that was not asked in this tick.
StaleEarly(c) == c \in buckets /\ idle[c] > 0

Stale(c) == c \in buckets /\ idle[c] > IdleLimit

\* The clean-up goroutine of RateLimitMiddleware.
Sweep ==
    /\ \E c \in Clients : Stale(c)
    /\ buckets' = {c \in buckets : ~Stale(c)}
    /\ UNCHANGED <<tokens, idle, answer, due, window>>

Tick ==
    /\ idle' = [c \in Clients |->
                   IF idle[c] < IdleCap THEN idle[c] + 1 ELSE idle[c]]
    /\ answer' = [c \in Clients |-> "none"]
    /\ due' = [c \in Clients |->
                  IF due[c] > Rate THEN due[c] - Rate
                  ELSE IF due[c] = NotDue THEN NotDue ELSE 0]
    /\ window' = IF window.client \in Clients /\ window.span < MaxSpan
                 THEN [window EXCEPT !.span = @ + 1] ELSE NoWindow
    /\ UNCHANGED <<buckets, tokens>>

\* A window may begin at any moment.
WatchFrom(c) ==
    /\ window = NoWindow
    /\ window' = [NoWindow EXCEPT !.client = c]
    /\ UNCHANGED <<buckets, tokens, idle, answer, due>>

-----------------------------------------------------------------------------
Allow(c) == AllowGranted(c) \/ AllowDenied(c)

Next == (\E c \in Clients : Allow(c) \/ WatchFrom(c)) \/ Sweep \/ Tick

Spec == Init /\ [][Next]_vars

-----------------------------------------------------------------------------
TypeOK ==
    /\ buckets \subseteq Clients
    /\ tokens \in [Clients -> 0..Capacity]
    /\ idle \in [Clients -> 0..IdleCap]
    /\ answer \in [Clients -> {"none", "allowed", "denied"}]
    /\ due \in [Clients -> {NotDue} \cup 0..Unit]
    /\ window \in [client : Clients \cup {NoClient}, span : 0..MaxSpan,
                   granted : Nat]

\* Over any window, however its requests fall and whenever the bucket is
\* deleted and made anew in between, a client is granted no more than a full
\* bucket and what the refill rate yields in that time.
RateBounded == window.granted * Unit <= Capacity + window.span * Rate

\* A client that was denied and waits as long as it was told has its token,
\* unless it was granted one before; being denied again in the meantime, or
\* losing the bucket to the clean-up, costs nothing.
RetryHonoured == \A c \in Clients : due[c] = 0 => Level(c) >= Unit

\* The limiter keeps its two bargains at once, with the gateway and with the
\* client, whatever the clean-up goroutine deletes in between.
LimitsHold == RateBounded /\ RetryHonoured

\* Lazy refill, creation on first use and clean-up cannot be told from
\* buckets that are all there and refilled at every tick.
Bucket == INSTANCE TokenBucket WITH level <- [c \in Clients |-> Level(c)]

ImplementsTokenBucket == Bucket!Spec
=============================================================================
