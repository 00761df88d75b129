----------------------------- MODULE TokenBucket -----------------------------
(***************************************************************************)
(* What a rate limiter promises: a bucket per client that gains Rate units *)
(* every tick up to a burst, and a request that is allowed exactly when    *)
(* the bucket holds a whole token.  No map, no timestamps, no clean-up:    *)
(* RateLimiter shows that those are not observable.                        *)
(***************************************************************************)
EXTENDS Integers

CONSTANTS
    Clients,
    Unit,           \* units that make a token
    Rate,           \* units a bucket gains per tick
    Burst           \* tokens of a full bucket

Capacity == Burst * Unit

VARIABLES
    level,          \* units in the bucket of each client
    answer          \* the last answer each client got in this tick

Init ==
    /\ level = [c \in Clients |-> Capacity]
    /\ answer = [c \in Clients |-> "none"]

Grant(c) ==
    /\ level[c] >= Unit
    /\ level' = [level EXCEPT ![c] = @ - Unit]
    /\ answer' = [answer EXCEPT ![c] = "allowed"]

Deny(c) ==
    /\ level[c] < Unit
    /\ answer' = [answer EXCEPT ![c] = "denied"]
    /\ UNCHANGED level

Refill ==
    /\ level' = [c \in Clients |->
                    IF level[c] + Rate > Capacity THEN Capacity
                    ELSE level[c] + Rate]
    /\ answer' = [c \in Clients |-> "none"]

Next == (\E c \in Clients : Grant(c) \/ Deny(c)) \/ Refill

Spec == Init /\ [][Next]_<<level, answer>>
=============================================================================
