---------------------------- MODULE ReverseProxy ----------------------------
(***************************************************************************)
(* ReverseProxy.Handle of api-gateway (internal/proxy/proxy.go): the       *)
(* response cache, the circuit breaker, round robin over the targets, the  *)
(* retry loop, and the answer.                                             *)
(*                                                                         *)
(* Every request is served by a goroutine of its own; a step is the code   *)
(* between two points where another goroutine may run: a section under the *)
(* breaker's or the cache's mutex, the atomic increment of the round robin *)
(* index, one call of the target.  An element of Requests is a goroutine   *)
(* slot: it serves one request after another.                              *)
(***************************************************************************)
EXTENDS CircuitBreaker

CONSTANTS
    Requests,           \* requests in flight at one time
    Targets,            \* number of target URLs
    Keys,               \* cache keys of GET requests
    NoKey,              \* the request is no GET, or caching is off
    MaxRetryAttempts,
    CacheTTL,           \* ticks a cached response is served
    Healths,            \* what targets may do: "up", "erring" (5xx), "down"
    BrokenClients       \* requests whose callers may disconnect or send half a body

ProxyAssumption ==
    /\ BreakerAssumption
    /\ Targets \in Nat \ {0}
    /\ MaxRetryAttempts \in Nat
    /\ CacheTTL \in Nat
    /\ Healths \subseteq {"up", "erring", "down"} /\ "up" \in Healths
    /\ NoKey \notin Keys
    /\ BrokenClients \subseteq Requests

VARIABLES
    index,              \* round robin counter, modulo Targets
    cache,              \* ticks the entry of a key has left; 0: no live entry
    health,             \* external: what each target does with a call
    req                 \* what each goroutine is doing

proxyVars == <<index, cache, health, req>>

vars == <<breakerVars, proxyVars>>

TargetIds == 0..(Targets - 1)

\* Where a goroutine stands: "allow" before the breaker, "pick" before
\* NextTarget, "send" before an attempt, "record" before RecordResult, "store"
\* before Set of the cache.
Places == {"idle", "allow", "pick", "send", "record", "store"}

Results == {"none", "200", "4xx", "5xx", "error"}

Idle ==
    [at |-> "idle", key |-> NoKey, target |-> 0, attempt |-> 0,
     result |-> "none"]

Init ==
    /\ BreakerInit
    /\ index = 0
    /\ cache = [k \in Keys |-> 0]
    /\ health = [t \in TargetIds |-> "up"]
    /\ req = [r \in Requests |-> Idle]

\* The request is answered; what is left of its slot is reset.
Finish(r) == req' = [req EXCEPT ![r] = Idle]

Move(r, place) == req' = [req EXCEPT ![r].at = place]

-----------------------------------------------------------------------------
(* Cache and breaker *)

\* Get finds an entry that has not expired: answered without the breaker.
CacheHit(r, k) ==
    /\ req[r].at = "idle"
    /\ k \in Keys
    /\ cache[k] > 0
    /\ UNCHANGED <<breakerVars, proxyVars>>

CacheMiss(r, k) ==
    /\ req[r].at = "idle"
    /\ k \in Keys => cache[k] = 0
    /\ req' = [req EXCEPT ![r] = [Idle EXCEPT !.at = "allow", !.key = k]]
    /\ UNCHANGED <<breakerVars, index, cache, health>>

\* CIRCUIT_BREAKER_OPEN
Refused(r) ==
    /\ req[r].at = "allow"
    /\ Reject
    /\ Finish(r)
    /\ UNCHANGED <<index, cache, health>>

Admitted(r) ==
    /\ req[r].at = "allow"
    /\ Admit
    /\ Move(r, "pick")
    /\ UNCHANGED <<index, cache, health>>

\* NextTarget: one target for all attempts of a request.
NextTarget(r) ==
    /\ req[r].at = "pick"
    /\ index' = (index + 1) % Targets
    /\ req' = [req EXCEPT ![r].at = "send", ![r].target = index']
    /\ UNCHANGED <<breakerVars, cache, health>>

\* MALFORMED_BODY: answered before the first attempt, with nothing recorded.
BodyUnreadable(r) ==
    /\ req[r].at = "send" /\ req[r].attempt = 0
    /\ r \in BrokenClients
    /\ Finish(r)
    /\ UNCHANGED <<breakerVars, index, cache, health>>

-----------------------------------------------------------------------------
(* The dispatch loop *)

\* What client.Do may return.  A caller that disconnects cancels the context
\* of its attempts: an error, whatever the target would have answered.
Outcomes(r) ==
    (CASE health[req[r].target] = "up"     -> {"200", "4xx"}
       [] health[req[r].target] = "erring" -> {"5xx"}
       [] health[req[r].target] = "down"   -> {"error"})
    \cup (IF r \in BrokenClients THEN {"error"} ELSE {})

IsLastAttempt(r) == req[r].attempt = MaxRetryAttempts

\* Fault: a 5xx answer starts the attempts anew.
AttemptRestarting(r) ==
    /\ req[r].at = "send"
    /\ \E result \in Outcomes(r) :
           \/ /\ result \in {"200", "4xx"} \/ IsLastAttempt(r)
              /\ req' = [req EXCEPT ![r].at = "record", ![r].result = result]
           \/ /\ result \in {"5xx", "error"} /\ ~IsLastAttempt(r)
              /\ req' = [req EXCEPT ![r].attempt =
                              IF result = "5xx" THEN 0 ELSE @ + 1]
    /\ UNCHANGED <<breakerVars, index, cache, health>>

\* One iteration: a response below 500 ends the loop, anything else is tried
\* again after the backoff, unless this was the last attempt.
Attempt(r) ==
    /\ req[r].at = "send"
    /\ \E result \in Outcomes(r) :
           \/ /\ result \in {"200", "4xx"} \/ IsLastAttempt(r)
              /\ req' = [req EXCEPT ![r].at = "record", ![r].result = result]
           \/ /\ result \in {"5xx", "error"} /\ ~IsLastAttempt(r)
              /\ req' = [req EXCEPT ![r].attempt = @ + 1]
    /\ UNCHANGED <<breakerVars, index, cache, health>>

\* lastErr == nil: a 5xx response on the last attempt leaves no error behind.
Succeeded(r) == req[r].result # "error"

\* A request recorded as failed ends with DOWNSTREAM_DISPATCH_FAULT.
RecordFailure(r) ==
    /\ req[r].at = "record"
    /\ ~Succeeded(r)
    /\ RecordResult(FALSE)
    /\ Finish(r)
    /\ UNCHANGED <<index, cache, health>>

\* Otherwise the response is read, and written back.  That may fail after the
\* success is recorded: the body of a 5xx was closed by the loop, any other
\* may break off.  A 200 of a GET goes on to the cache.
RecordSuccess(r) ==
    /\ req[r].at = "record"
    /\ Succeeded(r)
    /\ RecordResult(TRUE)
    /\ \/ Finish(r)
       \/ req[r].result = "200" /\ req[r].key \in Keys /\ Move(r, "store")
    /\ UNCHANGED <<index, cache, health>>

StoreResponse(r) ==
    /\ req[r].at = "store"
    /\ cache' = [cache EXCEPT ![req[r].key] = CacheTTL]
    /\ Finish(r)
    /\ UNCHANGED <<breakerVars, index, health>>

-----------------------------------------------------------------------------
(* Time and the targets *)

\* Cooldown and TTL are measured on one clock.
Tick ==
    /\ BreakerTick
    /\ cache' = [k \in Keys |-> IF cache[k] > 0 THEN cache[k] - 1 ELSE 0]
    /\ UNCHANGED <<index, health, req>>

HealthChanges(t, h) ==
    /\ health[t] # h
    /\ health' = [health EXCEPT ![t] = h]
    /\ UNCHANGED <<breakerVars, index, cache, req>>

-----------------------------------------------------------------------------
Arrivals(r) == \E k \in Keys \cup {NoKey} : CacheHit(r, k) \/ CacheMiss(r, k)

HandlerSteps(r) ==
    \/ Refused(r) \/ Admitted(r) \/ NextTarget(r)
    \/ BodyUnreadable(r) \/ Attempt(r)
    \/ RecordFailure(r) \/ RecordSuccess(r) \/ StoreResponse(r)

Next ==
    \/ \E r \in Requests : Arrivals(r) \/ HandlerSteps(r)
    \/ Tick
    \/ \E t \in TargetIds, h \in Healths : HealthChanges(t, h)

Spec == Init /\ [][Next]_vars

\* Goroutines are scheduled, calls of a target return (RequestTimeout bounds
\* them) and time passes.  Callers and targets owe nothing.
FairSpec ==
    /\ Spec
    /\ \A r \in Requests : WF_vars(HandlerSteps(r))
    /\ WF_vars(Tick)

-----------------------------------------------------------------------------
TypeOK ==
    /\ BreakerTypeOK
    /\ index \in TargetIds
    /\ cache \in [Keys -> 0..CacheTTL]
    /\ health \in [TargetIds -> Healths]
    /\ req \in [Requests ->
                   [at : Places, key : Keys \cup {NoKey}, target : TargetIds,
                    attempt : 0..MaxRetryAttempts, result : Results]]

\* The breaker under the results of all requests: types; closed means healthy,
\* half-open means clean, and a run of failures trips it.
BreakerIsSound ==
    TypeOK /\ ClosedMeansHealthy /\ HalfOpenIsClean /\ FailureRunsTrip

\* Every admitted request comes to an end: retries are bounded and no answer
\* waits for another request.
RequestsEnd == \A r \in Requests : req[r].at = "allow" ~> req[r].at = "idle"

AllUp == \A t \in TargetIds : health[t] = "up"

AllFailing == \A t \in TargetIds : health[t] \in {"erring", "down"}

\* "Self-Healing" (ENGINEERING_HANDBOOK.md): once every target answers again for good and
\* callers that do not break off keep asking, the breaker closes for good;
\* results of requests admitted before that cannot keep it open for ever.
BreakerRecovers ==
    <>[](AllUp /\ \A r \in BrokenClients : req[r].at = "idle")
        /\ []<>(\E r \in Requests : req[r].at = "allow")
        => <>[](state = "closed")

-----------------------------------------------------------------------------
(* What the documents say and the code does not do                         *)

\* "Downstream service dropouts must immediately trigger circuit breakers":
\* when every target fails for good and requests keep being tried, the
\* breaker opens.
DropoutsTrip ==
    <>[]AllFailing /\ []<>(\E r \in Requests : req[r].at = "record")
        => <>(state = "open")
=============================================================================
