---------------------------- MODULE AuthAccounts ----------------------------
(***************************************************************************)
(* One account of the identity platform's auth-service: login and lockout, *)
(* the MFA challenge, password reset, and confirmation of e-mail and phone *)
(* (service/auth.go over db/mock_db.go and the one-time codes of           *)
(* shared-security-library/redis.go).                                      *)
(*                                                                         *)
(* GetUserByEmail and GetUserByID return a copy and UpdateUser stores a    *)
(* whole record, so a handler writes back every field it read.  Each call  *)
(* of a store is atomic; requests interleave between them.                 *)
(*                                                                         *)
(* Locks and reset tokens are numbered in the order they are made, and     *)
(* lapse in that order.  SUSPENDED is never set by the service.            *)
(***************************************************************************)
EXTENDS Integers

CONSTANTS
    Requests, NoRequest,
    NoCopy,             \* a request that holds no record
    Passwords,
    LockAfter,          \* the 5 wrong passwords that lock the account
    MfaAttempts,        \* tries of an MFA code, 5
    VerifyAttempts,     \* tries of a confirmation code, 3
    Channels,           \* what can be confirmed: "email", "phone"
    MaxBegun            \* bound: requests that read the account or a ticket

ASSUME AccountsAssumption ==
    /\ NoRequest \notin Requests
    /\ Channels \subseteq {"email", "phone"}
    /\ LockAfter \in Nat /\ LockAfter > 1
    /\ MfaAttempts \in Nat \ {0} /\ VerifyAttempts \in Nat \ {0}
    /\ MaxBegun \in Nat

\* Each request makes at most one of each, so the guards that keep to these
\* sets never stop one.
Tokens == 1..MaxBegun
Tickets == 1..MaxBegun
NoToken == 0
NoLock == 0
Gone == -1
Purposes == {"mfa"} \cup Channels

\* lock is Status with LockedUntil (NoLock: ACTIVE), expires the token whose
\* expiry ResetTokenExpires is.
Fields == {"password", "failed", "lock", "reset", "expires"} \cup {"email", "phone"}

VARIABLES
    record,         \* the stored user
    alias,          \* the login whose own record is the stored one and may
                    \* still be written in place
    locks, lapsedLocks,         \* locks made, and how many have run out
    tokens, lapsedTokens,       \* reset tokens made, and expired ones
    tickets,        \* tickets[t]: locks made when its login began, or Gone
    minted,         \* tickets made
    otp,            \* tries left of the code of each purpose; 0: no code
    req,            \* what each request is doing
    begun,          \* how many there were
    meant,          \* history: the record if handlers wrote only the fields
                    \* they are about
    clobbered,      \* history: fields last written from an old copy
    uses,           \* history: password changes with each reset token
    late            \* history: stores from a copy with that token after the
                    \* token had been replaced or used

clock == <<locks, lapsedLocks, tokens, lapsedTokens>>
codes == <<tickets, minted, otp>>
account == <<record, alias, meant, clobbered, late>>
vars == <<account, clock, codes, req, begun, uses>>

\* "restore", "again", "reset", "forgot" and "confirmed" before an UpdateUser,
\* "verify" before a password is compared, "ticket" and "code" before the two
\* writes of a challenge, "mfa" and "confirm" before a code is tried, "consume"
\* before the ticket is deleted, "tokens" when the login has succeeded.
Holding == {"restore", "verify", "again", "reset", "forgot", "confirm", "confirmed"}
Places == Holding \cup {"idle", "ticket", "code", "mfa", "consume", "tokens"}

\* missed: history, the fields others have written since copy was read; asOf:
\* history, the locks made when the login began.
Idle == [at |-> "idle", copy |-> NoCopy, missed |-> {}, asOf |-> 0,
         ticket |-> 0, channel |-> "mfa"]

\* The two accounts of SeedDemoData: the administrator is confirmed and has
\* MFA, the user neither.
Seed(password, admin) ==
    [password |-> password, failed |-> 0, lock |-> NoLock, reset |-> NoToken,
     expires |-> NoToken, email |-> admin, phone |-> admin, mfa |-> admin]

Init ==
    /\ \E p \in Passwords, admin \in BOOLEAN : record = Seed(p, admin)
    /\ alias = NoRequest
    /\ locks = 0 /\ lapsedLocks = 0
    /\ tokens = 0 /\ lapsedTokens = 0
    /\ tickets = [t \in Tickets |-> Gone]
    /\ minted = 0
    /\ otp = [p \in Purposes |-> 0]
    /\ req = [r \in Requests |-> Idle]
    /\ begun = 0
    /\ meant = record
    /\ clobbered = {}
    /\ uses = [t \in Tokens |-> 0]
    /\ late = [t \in Tokens |-> 0]

-----------------------------------------------------------------------------
(* The store *)

\* A request begins.
Begin(r, state) ==
    /\ req[r].at = "idle"
    /\ begun < MaxBegun
    /\ begun' = begun + 1
    /\ req' = [req EXCEPT ![r] = state]

\* One that reads the account.
Reading(place) == [Idle EXCEPT !.at = place, !.copy = record, !.asOf = locks]

\* UpdateUser of r, which goes on as next.  History: the fields it is about
\* become known to whoever holds a copy; what it missed is clobbered, unless
\* it gave the field a value of its own (fresh).
Store(r, new, about, fresh, next) ==
    /\ record' = new
    /\ clobbered' = (clobbered \cup req[r].missed) \ fresh
    /\ late' = [t \in Tokens |->
                  IF "reset" \in req[r].missed /\ req[r].copy.reset = t
                  THEN late[t] + 1 ELSE late[t]]
    /\ req' = [q \in Requests |->
                 IF q = r THEN next
                 ELSE IF req[q].at \in Holding
                 THEN [req[q] EXCEPT !.missed = @ \cup about]
                 ELSE req[q]]

Finish(r) == req' = [req EXCEPT ![r] = Idle]
Move(r, place) == req' = [req EXCEPT ![r].at = place]

-----------------------------------------------------------------------------
(* Login *)

Locked == record.lock > lapsedLocks

\* ErrUserLocked
LoginRefused(r) ==
    /\ req[r].at = "idle"
    /\ Locked
    /\ UNCHANGED vars

\* Fault: the lock is not looked at.
BeginLoginUnchecked(r) ==
    /\ Begin(r, Reading("verify"))
    /\ UNCHANGED <<account, clock, codes, uses>>

BeginLogin(r) ==
    /\ ~Locked
    /\ Begin(r, Reading(IF record.lock = NoLock THEN "verify" ELSE "restore"))
    /\ UNCHANGED <<account, clock, codes, uses>>

\* Fault: the count of failures is not started anew.
RestoreStatusOnly(r) ==
    LET new == [req[r].copy EXCEPT !.lock = NoLock]
    IN  /\ req[r].at = "restore"
        /\ Store(r, new, {"lock", "failed"}, {"lock", "failed"},
                 [req[r] EXCEPT !.at = "verify", !.copy = new, !.missed = {}])
        /\ alias' = r
        /\ meant' = [meant EXCEPT !.lock = NoLock, !.failed = 0]
        /\ UNCHANGED <<clock, codes, begun, uses>>

\* The lock has expired: ACTIVE again.  From here on the stored record is the
\* one this login works on.
RestoreStatus(r) ==
    LET new == [req[r].copy EXCEPT !.lock = NoLock, !.failed = 0]
    IN  /\ req[r].at = "restore"
        /\ Store(r, new, {"lock", "failed"}, {"lock", "failed"},
                 [req[r] EXCEPT !.at = "verify", !.copy = new, !.missed = {}])
        /\ alias' = r
        /\ meant' = [meant EXCEPT !.lock = NoLock, !.failed = 0]
        /\ UNCHANGED <<clock, codes, begun, uses>>

\* A login with the right password goes on to the challenge or the tokens.
Proceed(r, copy) ==
    [Idle EXCEPT !.at = IF copy.mfa THEN "ticket" ELSE "tokens",
                 !.asOf = req[r].asOf]

\* After the verdict: a record written in place, the fields of one verdict
\* taken together, is stored once more.
Judged(r, new, next) ==
    IF alias = r THEN [req[r] EXCEPT !.at = "again", !.copy = new] ELSE next

AliasAfter(r) == IF alias = r THEN r ELSE NoRequest

PasswordRight(r) ==
    LET new == [req[r].copy EXCEPT !.failed = 0]
    IN  /\ req[r].at = "verify"
        /\ Store(r, new, {"failed"}, {"failed"}, Judged(r, new, Proceed(r, new)))
        /\ alias' = AliasAfter(r)
        /\ meant' = [meant EXCEPT !.failed = 0]
        /\ UNCHANGED <<clock, codes, begun, uses>>

\* Fault: the limit is not looked at.
PasswordWrongUnlimited(r) ==
    LET new == [req[r].copy EXCEPT !.failed = @ + 1]
    IN  /\ req[r].at = "verify"
        /\ Store(r, new, {"failed"}, {}, Judged(r, new, Idle))
        /\ alias' = AliasAfter(r)
        /\ meant' = [meant EXCEPT !.failed = IF @ < LockAfter THEN @ + 1 ELSE @]
        /\ UNCHANGED <<clock, codes, begun, uses>>

\* One failure more than in the copy.
PasswordWrong(r) ==
    LET new == [req[r].copy EXCEPT !.failed = @ + 1]
    IN  /\ req[r].at = "verify"
        /\ new.failed < LockAfter
        /\ Store(r, new, {"failed"}, {}, Judged(r, new, Idle))
        /\ alias' = AliasAfter(r)
        /\ meant' = [meant EXCEPT !.failed = IF @ < LockAfter THEN @ + 1 ELSE @]
        /\ UNCHANGED <<clock, codes, begun, uses>>

\* The last failure locks the account.  A login that has just restored it is
\* never at its last.
PasswordLocks(r) ==
    LET new == [req[r].copy EXCEPT !.failed = @ + 1, !.lock = locks + 1]
    IN  /\ req[r].at = "verify"
        /\ new.failed >= LockAfter
        /\ locks < MaxBegun
        /\ locks' = locks + 1
        /\ Store(r, new, {"failed", "lock"}, {"lock"}, Idle)
        /\ alias' = NoRequest
        /\ meant' = [meant EXCEPT !.lock = locks',
                                  !.failed = IF @ < LockAfter THEN @ + 1 ELSE @]
        /\ UNCHANGED <<lapsedLocks, tokens, lapsedTokens, codes, begun, uses>>

\* UpdateUser of the record that was changed in place.
StoreAgain(r) ==
    LET copy == req[r].copy
    IN  /\ req[r].at = "again"
        /\ Store(r, copy, {}, {}, IF copy.failed = 0 THEN Proceed(r, copy) ELSE Idle)
        /\ alias' = NoRequest
        /\ UNCHANGED <<meant, clock, codes, begun, uses>>

\* The MFA challenge: a ticket, then the code, which replaces the last one.
MakeTicket(r) ==
    /\ req[r].at = "ticket"
    /\ minted < MaxBegun
    /\ minted' = minted + 1
    /\ tickets' = [tickets EXCEPT ![minted'] = req[r].asOf]
    /\ Move(r, "code")
    /\ UNCHANGED <<account, clock, otp, begun, uses>>

SendCode(r) ==
    /\ req[r].at = "code"
    /\ otp' = [otp EXCEPT !["mfa"] = MfaAttempts]
    /\ Finish(r)
    /\ UNCHANGED <<account, clock, tickets, minted, begun, uses>>

\* issueTokensAndPublishSuccess, see AuthSessions.
IssueTokens(r) ==
    /\ req[r].at = "tokens"
    /\ Finish(r)
    /\ UNCHANGED <<account, clock, codes, begun, uses>>

-----------------------------------------------------------------------------
(* Codes *)

\* GetSession of the ticket.  The status of the account is not looked at.
BeginVerifyMFA(r, t) ==
    /\ tickets[t] # Gone
    /\ Begin(r, [Idle EXCEPT !.at = "mfa", !.ticket = t, !.asOf = tickets[t]])
    /\ UNCHANGED <<account, clock, codes, uses>>

RequestVerification(r, c) ==
    /\ req[r].at = "idle"
    /\ otp' = [otp EXCEPT ![c] = VerifyAttempts]
    /\ UNCHANGED <<account, clock, tickets, minted, req, begun, uses>>

BeginConfirm(r, c) ==
    /\ Begin(r, [Reading("confirm") EXCEPT !.channel = c])
    /\ UNCHANGED <<account, clock, codes, uses>>

\* VerifyAndDecrementOTP: the right code is used up.
CodeRight(r) ==
    /\ req[r].at \in {"mfa", "confirm"}
    /\ otp[req[r].channel] > 0
    /\ otp' = [otp EXCEPT ![req[r].channel] = 0]
    /\ Move(r, IF req[r].at = "mfa" THEN "consume" ELSE "confirmed")
    /\ UNCHANGED <<account, clock, tickets, minted, begun, uses>>

\* A wrong code costs an attempt; without a code every one is wrong.
CodeWrong(r) ==
    /\ req[r].at \in {"mfa", "confirm"}
    /\ otp' = [otp EXCEPT ![req[r].channel] = IF @ > 0 THEN @ - 1 ELSE 0]
    /\ Finish(r)
    /\ UNCHANGED <<account, clock, tickets, minted, begun, uses>>

ConsumeTicket(r) ==
    /\ req[r].at = "consume"
    /\ tickets' = [tickets EXCEPT ![req[r].ticket] = Gone]
    /\ Move(r, "tokens")
    /\ UNCHANGED <<account, clock, minted, otp, begun, uses>>

EndConfirm(r) ==
    LET c == req[r].channel
    IN  /\ req[r].at = "confirmed"
        /\ Store(r, [req[r].copy EXCEPT ![c] = TRUE], {c}, {c}, Idle)
        /\ alias' = NoRequest
        /\ meant' = [meant EXCEPT ![c] = TRUE]
        /\ UNCHANGED <<clock, codes, begun, uses>>

-----------------------------------------------------------------------------
(* Password reset *)

BeginForgot(r) ==
    /\ Begin(r, Reading("forgot"))
    /\ UNCHANGED <<account, clock, codes, uses>>

\* ForgotPassword stores a fresh token.
EndForgot(r) ==
    /\ req[r].at = "forgot"
    /\ tokens < MaxBegun
    /\ tokens' = tokens + 1
    /\ Store(r, [req[r].copy EXCEPT !.reset = tokens', !.expires = tokens'],
             {"reset", "expires"}, {"reset", "expires"}, Idle)
    /\ alias' = NoRequest
    /\ meant' = [meant EXCEPT !.reset = tokens', !.expires = tokens']
    /\ UNCHANGED <<locks, lapsedLocks, lapsedTokens, codes, begun, uses>>

\* ResetPassword: the token presented is the one of the record, which may be
\* none, and ResetTokenExpires is still to come.
BeginReset(r) ==
    /\ record.expires > lapsedTokens
    /\ Begin(r, Reading("reset"))
    /\ UNCHANGED <<account, clock, codes, uses>>

\* Fault: the token stays in the record.
EndResetKeepingToken(r) ==
    LET copy == req[r].copy
    IN  /\ req[r].at = "reset"
        /\ \E p \in Passwords \ {copy.password} :
               /\ Store(r, [copy EXCEPT !.password = p],
                        {"password", "reset"}, {"password", "reset"}, Idle)
               /\ meant' = [meant EXCEPT !.password = p, !.reset = NoToken]
        /\ uses' = [t \in Tokens |-> IF t = copy.reset THEN uses[t] + 1 ELSE uses[t]]
        /\ alias' = NoRequest
        /\ UNCHANGED <<clock, codes, begun>>

\* The new password is another one than that of the copy.
EndReset(r) ==
    LET copy == req[r].copy
    IN  /\ req[r].at = "reset"
        /\ \E p \in Passwords \ {copy.password} :
               /\ Store(r, [copy EXCEPT !.password = p, !.reset = NoToken],
                        {"password", "reset"}, {"password", "reset"}, Idle)
               /\ meant' = [meant EXCEPT !.password = p, !.reset = NoToken]
        /\ uses' = [t \in Tokens |-> IF t = copy.reset THEN uses[t] + 1 ELSE uses[t]]
        /\ alias' = NoRequest
        /\ UNCHANGED <<clock, codes, begun>>

-----------------------------------------------------------------------------
(* Time *)

LockExpires ==
    /\ lapsedLocks < locks
    /\ lapsedLocks' = lapsedLocks + 1
    /\ UNCHANGED <<account, locks, tokens, lapsedTokens, codes, req, begun, uses>>

TokenExpires ==
    /\ lapsedTokens < tokens
    /\ lapsedTokens' = lapsedTokens + 1
    /\ UNCHANGED <<account, locks, lapsedLocks, tokens, codes, req, begun, uses>>

TicketExpires(t) ==
    /\ tickets[t] # Gone
    /\ tickets' = [tickets EXCEPT ![t] = Gone]
    /\ UNCHANGED <<account, clock, minted, otp, req, begun, uses>>

CodeExpires(p) ==
    /\ otp[p] > 0
    /\ otp' = [otp EXCEPT ![p] = 0]
    /\ UNCHANGED <<account, clock, tickets, minted, req, begun, uses>>

-----------------------------------------------------------------------------
LoginSteps(r) ==
    \/ LoginRefused(r) \/ BeginLogin(r) \/ RestoreStatus(r)
    \/ PasswordRight(r) \/ PasswordWrong(r) \/ PasswordLocks(r) \/ StoreAgain(r)
    \/ MakeTicket(r) \/ SendCode(r) \/ IssueTokens(r)

CodeSteps(r) ==
    \/ \E t \in Tickets : BeginVerifyMFA(r, t)
    \/ \E c \in Channels : RequestVerification(r, c) \/ BeginConfirm(r, c)
    \/ CodeRight(r) \/ CodeWrong(r) \/ ConsumeTicket(r) \/ EndConfirm(r)

ResetSteps(r) ==
    BeginForgot(r) \/ EndForgot(r) \/ BeginReset(r) \/ EndReset(r)

Time ==
    \/ LockExpires \/ TokenExpires
    \/ \E t \in Tickets : TicketExpires(t)
    \/ \E p \in Purposes : CodeExpires(p)

Next == (\E r \in Requests : LoginSteps(r) \/ CodeSteps(r) \/ ResetSteps(r)) \/ Time

Spec == Init /\ [][Next]_vars

-----------------------------------------------------------------------------
Accounts ==
    [password : Passwords, failed : 0..LockAfter, lock : 0..MaxBegun,
     reset : 0..MaxBegun, expires : 0..MaxBegun, email : BOOLEAN,
     phone : BOOLEAN, mfa : BOOLEAN]

RequestStates ==
    [at : Places, copy : Accounts \cup {NoCopy}, missed : SUBSET Fields,
     asOf : 0..MaxBegun, ticket : 0..MaxBegun, channel : Purposes]

TypeOK ==
    /\ record \in Accounts
    /\ alias \in Requests \cup {NoRequest}
    /\ locks \in 0..MaxBegun /\ lapsedLocks \in 0..locks
    /\ tokens \in 0..MaxBegun /\ lapsedTokens \in 0..tokens
    /\ tickets \in [Tickets -> {Gone} \cup 0..MaxBegun]
    /\ minted \in 0..MaxBegun
    /\ otp \in [Purposes -> 0..(MfaAttempts + VerifyAttempts)]
    /\ req \in [Requests -> RequestStates]
    /\ begun \in 0..MaxBegun
    /\ meant \in Accounts
    /\ clobbered \subseteq Fields
    /\ uses \in [Tokens -> Nat]
    /\ late \in [Tokens -> Nat]

\* What one handler decides stands until another decides otherwise: a new
\* password, a lock, the count of failures, a used token or a confirmation is
\* lost only when a record read before it is written after it.
FieldsHold == \A f \in Fields \ clobbered : record[f] = meant[f]

\* A reset token changes the password once, and once more for every store from
\* a copy that still had it when it had been used or replaced.
ResetsCounted == \A t \in Tokens : uses[t] <= 1 + late[t]

\* While a lock is in force no login is completed that began under it, by
\* password or by code, unless the lock was overwritten from an old copy;
\* one that began before the lock may be.
NoEntryUnderLock ==
    \A r \in Requests :
        req[r].at = "tokens" /\ Locked /\ "lock" \notin clobbered =>
            req[r].asOf < record.lock
=============================================================================
