------------------------------- MODULE Access -------------------------------
(***************************************************************************)
(* What a request meets on its way in: the gateway's rate limiter and its  *)
(* reverse proxy with the breaker, and the sessions of the auth service.   *)
(* They share no state: a behaviour is one of the part it names, and the   *)
(* others stay as they were initially.                                     *)
(***************************************************************************)
EXTENDS RateLimiter

CONSTANTS Requests, Targets, Keys, NoKey, MaxRetryAttempts, CacheTTL, Healths,
          BrokenClients, MinSample, Window, HalfOpenLimit, FailNum, FailDen,
          Cooldown
VARIABLES state, counts, elapsed, openFor, streak, index, cache, health, req

Proxy == INSTANCE ReverseProxy

CONSTANTS Users, MaxFamilies, MaxTokens
VARIABLES tokenFam, tokenFamDead, sessions, active, issued, minted, held, asked,
          latest, wins, forks, overlapped, loggedOut, closed

Auth == INSTANCE AuthSessions WITH req <- asked

ASSUME AccessAssumption == Proxy!ProxyAssumption /\ Auth!SessionsAssumption

VARIABLE part

proxyVars == <<state, counts, elapsed, openFor, streak, index, cache, health, req>>
authVars == <<tokenFam, tokenFamDead, sessions, active, issued, minted, held,
              asked, latest, wins, forks, overlapped, loggedOut, closed>>
all == <<part, vars, proxyVars, authVars>>

AccessInit == Init /\ Proxy!Init /\ Auth!Init /\ part \in {"limiter", "proxy", "sessions"}

OfLimiter == part = "limiter" /\ UNCHANGED <<part, proxyVars, authVars>>
OfProxy == part = "proxy" /\ UNCHANGED <<part, vars, authVars>>
OfSessions == part = "sessions" /\ UNCHANGED <<part, vars, proxyVars>>

AccessNext ==
    \/ OfLimiter /\ Next
    \/ OfProxy /\ Proxy!Next
    \/ OfSessions /\ Auth!Next

\* FairSpec of the proxy and of the sessions.
AccessSpec ==
    /\ AccessInit /\ [][AccessNext]_all
    /\ \A r \in Requests : WF_all(OfProxy /\ Proxy!HandlerSteps(r))
    /\ WF_all(OfProxy /\ Proxy!Tick)
    /\ \A r \in Requests : WF_all(OfSessions /\ Auth!RequestSteps(r))
    /\ \A f \in Auth!Families : WF_all(OfSessions /\ Auth!SessionExpires(f))

\* A closed breaker is healthy, a half-open one clean, and a run of failures
\* trips it.
BreakerIsSound == Proxy!BreakerIsSound

\* An open breaker refuses for a whole cooldown.
OpenHolds == Proxy!OpenHolds

\* Requests through the proxy end, and the breaker recovers with the targets.
ProxyGoesOn == Proxy!RequestsEnd /\ Proxy!BreakerRecovers

\* Tokens are good once but for the forks that are counted, the client that
\* was answered last can go on, and a logout that names its session leaves
\* none.
SessionsAreSound == Auth!SessionsAreSound

\* The session of a revoked family ends.
OrphansExpire == Auth!OrphansExpire
=============================================================================
