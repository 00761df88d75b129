---------------------------- MODULE AuthSessions ----------------------------
(***************************************************************************)
(* Refresh token rotation of the identity platform's auth-service          *)
(* (service/auth.go) over the token families and sessions of the store     *)
(* that stands for Redis (shared-security-library/redis.go).               *)
(*                                                                         *)
(* Each call of the store holds its mutex, so a call is atomic; a request  *)
(* is several calls, and requests interleave between them.  Family and     *)
(* token identifiers are random and never collide: the next number stands  *)
(* for a fresh one.                                                        *)
(***************************************************************************)
EXTENDS Integers, FiniteSets

CONSTANTS
    Requests,       \* requests in progress at one time
    Users,
    MaxFamilies,    \* bound: logins
    MaxTokens       \* bound: refresh tokens ever made

Families == 1..MaxFamilies
Tokens == 1..MaxTokens
NoToken == 0

\* What a module that instantiates this one assumes.
SessionsAssumption ==
    IsFiniteSet(Requests) /\ MaxFamilies \in Nat /\ MaxTokens \in Nat

VARIABLES
    tokenFam,       \* family -> token -> "none", "unused" or "used"
    tokenFamDead,   \* families revoked for good
    sessions,       \* families with a live "sess-" entry
    active,         \* users whose status is ACTIVE
    issued,         \* families made so far
    minted,         \* tokens made so far
    held,           \* <<family, token>> pairs some client was answered
    req,            \* what each request is doing
    latest,         \* history: the token last answered for each family
    wins,           \* history: successful refreshes with each token
    forks,          \* history: refreshes of each family that marked a token
                    \* another one had marked
    overlapped,     \* history: families two requests worked on at a time
    loggedOut,      \* history: families whose logout was answered
    closed          \* history: those whose logout named their own session

store == <<tokenFam, tokenFamDead, sessions>>
history == <<latest, wins, forks, overlapped, loggedOut, closed>>
vars == <<store, active, issued, minted, held, req, history>>

\* "user" before the status check, "mark" and "extend" before the two writes
\* of a refresh, "session" before SetSession, "revoke" in a logout, which
\* keeps the session it was given.
Places == {"idle", "user", "mark", "extend", "session", "revoke"}

Idle == [at |-> "idle", family |-> 0, user |-> 0, old |-> NoToken,
         new |-> NoToken, session |-> 0]

NoTokens == [t \in Tokens |-> "none"]

Init ==
    /\ tokenFam = [f \in Families |-> NoTokens]
    /\ tokenFamDead = {}
    /\ sessions = {}
    /\ active = Users
    /\ issued = 0
    /\ minted = 0
    /\ held = {}
    /\ req = [r \in Requests |-> Idle]
    /\ latest = [f \in Families |-> NoToken]
    /\ wins = [t \in Tokens |-> 0]
    /\ forks = [f \in Families |-> 0]
    /\ overlapped = {}
    /\ loggedOut = {}
    /\ closed = {}

-----------------------------------------------------------------------------
(* Calls of the store *)

\* Refused for a dead family; every caller ignores the error.
AddTokenToFamily(f, t, isUsed) ==
    tokenFam' = IF f \in tokenFamDead THEN tokenFam
                ELSE [tokenFam EXCEPT ![f][t] = isUsed]

RevokeTokenFamily(f) ==
    /\ tokenFamDead' = tokenFamDead \cup {f}
    /\ tokenFam' = [tokenFam EXCEPT ![f] = NoTokens]

-----------------------------------------------------------------------------
(* Requests *)

WorkingOn(f) == {r \in Requests : req[r].at # "idle" /\ req[r].family = f}

\* A request on f begins, maybe while another is at work.
Begin(f) ==
    overlapped' = IF WorkingOn(f) = {} THEN overlapped
                  ELSE overlapped \cup {f}

\* Every request in progress finds a token left.
TokensLeft == minted + Cardinality({r \in Requests : req[r].at # "idle"}) < MaxTokens

Finish(r) == req' = [req EXCEPT ![r] = Idle]

Move(r, place) == req' = [req EXCEPT ![r].at = place]

\* issueTokensAndPublishSuccess at the end of a login.
LoginIssues(r, u) ==
    /\ req[r].at = "idle"
    /\ issued < MaxFamilies /\ TokensLeft
    /\ issued' = issued + 1
    /\ minted' = minted + 1
    /\ AddTokenToFamily(issued', minted', "unused")
    /\ req' = [req EXCEPT ![r] = [Idle EXCEPT !.at = "session", !.user = u,
                                       !.family = issued', !.new = minted']]
    /\ UNCHANGED <<tokenFamDead, sessions, active, held, history>>

\* SetSession and the answer, of a login and of a refresh alike.
StartSession(r) ==
    LET f == req[r].family
        t == req[r].new
    IN  /\ req[r].at = "session"
        /\ sessions' = sessions \cup {f}
        /\ held' = held \cup {<<f, t>>}
        /\ latest' = [latest EXCEPT ![f] = t]
        /\ wins' = IF req[r].old = NoToken THEN wins
                   ELSE [wins EXCEPT ![req[r].old] = @ + 1]
        /\ Finish(r)
        /\ UNCHANGED <<tokenFam, tokenFamDead, active, issued, minted, forks,
                       overlapped, loggedOut, closed>>

\* A refresh may come with any token a client holds and any family.
Presented(f, t) == f \in 1..issued /\ \E g \in Families : <<g, t>> \in held

\* CheckTokenInFamily finds the family revoked, or revokes it because the
\* token was used.  The RevokeTokenFamily that follows changes nothing more.
RefreshBreach(r, f, t) ==
    /\ req[r].at = "idle"
    /\ Presented(f, t)
    /\ f \in tokenFamDead \/ tokenFam[f][t] = "used"
    /\ RevokeTokenFamily(f)
    /\ Begin(f)
    /\ UNCHANGED <<sessions, active, issued, minted, held, req, latest, wins,
                   forks, loggedOut, closed>>

\* ErrCacheMiss: a token of another family.
RefreshUnknown(r, f, t) ==
    /\ req[r].at = "idle"
    /\ Presented(f, t)
    /\ f \notin tokenFamDead /\ tokenFam[f][t] = "none"
    /\ UNCHANGED vars

\* The subject is the one of the access token, or a default: any user.
RefreshCheck(r, f, t, u) ==
    /\ req[r].at = "idle"
    /\ Presented(f, t) /\ TokensLeft
    /\ f \notin tokenFamDead /\ tokenFam[f][t] = "unused"
    /\ Begin(f)
    /\ req' = [req EXCEPT ![r] = [Idle EXCEPT !.at = "user", !.family = f,
                                               !.user = u, !.old = t]]
    /\ UNCHANGED <<store, active, issued, minted, held, latest, wins, forks,
                   loggedOut, closed>>

\* GetUserByID and the status.
RefreshInactive(r) ==
    /\ req[r].at = "user"
    /\ req[r].user \notin active
    /\ Finish(r)
    /\ UNCHANGED <<store, active, issued, minted, held, history>>

RefreshValid(r) ==
    /\ req[r].at = "user"
    /\ req[r].user \in active
    /\ Move(r, "mark")
    /\ UNCHANGED <<store, active, issued, minted, held, history>>

\* Fault: the old token stays good.
RefreshMarkNothing(r) ==
    /\ req[r].at = "mark"
    /\ Move(r, "extend")
    /\ UNCHANGED <<store, active, issued, minted, held, history>>

RefreshMark(r) ==
    LET f == req[r].family
        t == req[r].old
    IN  /\ req[r].at = "mark"
        /\ AddTokenToFamily(f, t, "used")
        /\ forks' = IF tokenFam[f][t] = "used"
                    THEN [forks EXCEPT ![f] = @ + 1] ELSE forks
        /\ Move(r, "extend")
        /\ UNCHANGED <<tokenFamDead, sessions, active, issued, minted, held,
                       latest, wins, overlapped, loggedOut, closed>>

RefreshExtend(r) ==
    /\ req[r].at = "extend"
    /\ minted' = minted + 1
    /\ AddTokenToFamily(req[r].family, minted', "unused")
    /\ req' = [req EXCEPT ![r].at = "session", ![r].new = minted']
    /\ UNCHANGED <<tokenFamDead, sessions, active, issued, held, history>>

\* What a client may name in a logout.
Known == {f \in Families : \E t \in Tokens : <<f, t>> \in held}

\* The client names the family and the session apart: s is the session of the
\* same family, of another one, or 0, which none is known by (a refresh does
\* not answer its session).  Bound: not again once it named its own.
Logout(r, f, s) ==
    /\ req[r].at = "idle"
    /\ f \in Known /\ s \in {0} \cup Known
    /\ f \notin closed
    /\ Begin(f)
    /\ sessions' = sessions \ {s}
    /\ req' = [req EXCEPT ![r] = [Idle EXCEPT !.at = "revoke", !.family = f,
                                               !.session = s]]
    /\ UNCHANGED <<tokenFam, tokenFamDead, active, issued, minted, held,
                   latest, wins, forks, loggedOut, closed>>

LogoutRevoke(r) ==
    LET f == req[r].family
    IN  /\ req[r].at = "revoke"
        /\ RevokeTokenFamily(f)
        /\ loggedOut' = loggedOut \cup {f}
        /\ closed' = IF req[r].session = f THEN closed \cup {f} ELSE closed
        /\ Finish(r)
        /\ UNCHANGED <<sessions, active, issued, minted, held, latest, wins,
                       forks, overlapped>>

\* Its family is none, or none that is known: revoking that changes nothing.
LogoutNoFamily(r, s) ==
    /\ req[r].at = "idle"
    /\ s \in Known
    /\ sessions' = sessions \ {s}
    /\ UNCHANGED <<tokenFam, tokenFamDead, active, issued, minted, held, req,
                   history>>

-----------------------------------------------------------------------------

\* Fault: the entry is written without its expiration.
SessionExpiresNever(f) == FALSE /\ f \in sessions /\ UNCHANGED vars

\* The 24 hours of a session pass; it is as if it were deleted.
SessionExpires(f) ==
    /\ f \in sessions
    /\ sessions' = sessions \ {f}
    /\ UNCHANGED <<tokenFam, tokenFamDead, active, issued, minted, held, req,
                   history>>

\* Logins of the user lock the account and unlock it.
StatusChanges(u) ==
    /\ active' = IF u \in active THEN active \ {u} ELSE active \cup {u}
    /\ UNCHANGED <<store, issued, minted, held, req, history>>

-----------------------------------------------------------------------------
Arrivals(r) ==
    \/ \E u \in Users : LoginIssues(r, u)
    \/ \E f \in Families, t \in Tokens :
           \/ RefreshBreach(r, f, t)
           \/ RefreshUnknown(r, f, t)
           \/ \E u \in Users : RefreshCheck(r, f, t, u)
    \/ \E f \in Families, s \in {0} \cup Families : Logout(r, f, s)
    \/ \E s \in Families : LogoutNoFamily(r, s)

RequestSteps(r) ==
    \/ RefreshInactive(r) \/ RefreshValid(r)
    \/ RefreshMark(r) \/ RefreshExtend(r) \/ StartSession(r)
    \/ LogoutRevoke(r)

Next ==
    \/ \E r \in Requests : Arrivals(r) \/ RequestSteps(r)
    \/ \E f \in Families : SessionExpires(f)
    \/ \E u \in Users : StatusChanges(u)

Spec == Init /\ [][Next]_vars

\* Requests in progress go on and time passes; nobody has to ask anything.
FairSpec ==
    /\ Spec
    /\ \A r \in Requests : WF_vars(RequestSteps(r))
    /\ \A f \in Families : WF_vars(SessionExpires(f))

-----------------------------------------------------------------------------
Unused(f) == {t \in Tokens : tokenFam[f][t] = "unused"}

TypeOK ==
    /\ tokenFam \in [Families -> [Tokens -> {"none", "unused", "used"}]]
    /\ tokenFamDead \subseteq Families
    /\ sessions \subseteq Families
    /\ active \subseteq Users
    /\ issued \in 0..MaxFamilies
    /\ minted \in 0..MaxTokens
    /\ held \subseteq Families \X Tokens
    /\ req \in [Requests -> [at : Places, family : {0} \cup Families,
                             user : {0} \cup Users, old : {NoToken} \cup Tokens,
                             new : {NoToken} \cup Tokens,
                             session : {0} \cup Families]]
    /\ latest \in [Families -> {NoToken} \cup Tokens]
    /\ wins \in [Tokens -> Nat]
    /\ forks \in [Families -> Nat]
    /\ overlapped \subseteq Families
    /\ closed \subseteq loggedOut /\ loggedOut \subseteq tokenFamDead

\* Check and mark of a refresh are two calls, so two refreshes with one token
\* may both succeed and a family then has several good tokens: one more for
\* each mark that came second, never more, and none without an overlap.
ForksAreCounted ==
    \A f \in Families :
        /\ Cardinality(Unused(f)) <= 1 + forks[f]
        /\ forks[f] > 0 => f \in overlapped

\* While requests on a family come one after the other a token is good for
\* one refresh.
SingleUse ==
    \A f \in Families \ overlapped, t \in Tokens :
        <<f, t>> \in held => wins[t] <= 1

\* The client that was answered last can go on: its token is good, unless
\* the family was revoked or requests on it overlapped; refreshes that failed
\* for another reason cost it nothing.
ClientCanGoOn ==
    \A f \in Families \ (overlapped \cup tokenFamDead) :
        latest[f] # NoToken /\ WorkingOn(f) = {} => latest[f] \in Unused(f)

\* A logout that names the family and its session leaves no session, unless
\* another request on the family overlapped it.  One that names another
\* session, or none, is answered the same and leaves its own (auth.go:179-181).
LogoutHolds == (closed \cap sessions) \subseteq overlapped

\* Sessions: types; good tokens of a family are counted by the forks, a token
\* is good once, the client answered last can go on, and a logout that named
\* its session leaves none.
SessionsAreSound ==
    /\ TypeOK /\ ForksAreCounted /\ SingleUse /\ ClientCanGoOn /\ LogoutHolds

\* A session left behind by a revocation, or made by a refresh that was under
\* way, cannot be prolonged: it ends for good.
OrphansExpire ==
    \A f \in Families : f \in tokenFamDead ~> [](f \notin sessions)

-----------------------------------------------------------------------------
(* What the documents say and the code does not do                         *)

\* "trigger full family-wide session purge": a family that was revoked because
\* a used token came back, and by no logout, has no session, overlapping
\* requests apart.
BreachPurgesSessions ==
    (tokenFamDead \cap sessions) \subseteq overlapped \cup loggedOut
=============================================================================
