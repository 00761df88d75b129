--------------------------- MODULE IdentityProofs ---------------------------
(***************************************************************************)
(* Proofs about the services of Identity, one after the other.             *)
(*                                                                         *)
(* The accounts first.  Every step of a request either stores a record     *)
(* (StoreStep) or changes nothing but the request, a ticket and a code     *)
(* (MoveStep); each part of the invariant is shown once for each.          *)
(***************************************************************************)
EXTENDS Identity, FiniteSetTheorems, NaturalsInduction, WellFoundedInduction, TLAPS


-----------------------------------------------------------------------------
(* Records with some fields replaced *)

\* b is a but for the fields of S.
SameBut(a, b, S) == \A f \in Fields \ S : b[f] = a[f]

LEMMA SetFailed ==
    ASSUME NEW a \in Accounts, NEW n \in 0..LockAfter
    PROVE  LET b == [a EXCEPT !.failed = n]
           IN  /\ b \in Accounts /\ b.failed = n
               /\ b.lock = a.lock /\ b.reset = a.reset /\ SameBut(a, b, {"failed"})
BY DEF Accounts, Fields, SameBut

Relocked(a, k, n) == [a EXCEPT !.lock = k, !.failed = n]

LEMMA SetLock ==
    ASSUME NEW a \in Accounts, NEW n \in 0..LockAfter, NEW k \in 0..MaxBegun
    PROVE  /\ Relocked(a, k, n) \in Accounts
           /\ Relocked(a, k, n).lock = k /\ Relocked(a, k, n).failed = n
           /\ Relocked(a, k, n).reset = a.reset
           /\ SameBut(a, Relocked(a, k, n), {"lock", "failed"})
BY DEF Relocked, Accounts, Fields, SameBut

LEMMA SetConfirmed ==
    ASSUME NEW a \in Accounts, NEW c \in {"email", "phone"}
    PROVE  LET b == [a EXCEPT ![c] = TRUE]
           IN  /\ b \in Accounts /\ b[c] = TRUE
               /\ b.lock = a.lock /\ b.failed = a.failed
               /\ b.reset = a.reset
               /\ SameBut(a, b, {c})
BY DEF Accounts, Fields, SameBut

LEMMA SetToken ==
    ASSUME NEW a \in Accounts, NEW t \in 0..MaxBegun
    PROVE  LET b == [a EXCEPT !.reset = t, !.expires = t]
           IN  /\ b \in Accounts /\ b.reset = t /\ b.expires = t
               /\ b.lock = a.lock /\ b.failed = a.failed
               /\ SameBut(a, b, {"reset", "expires"})
BY DEF Accounts, Fields, SameBut

LEMMA SetPassword ==
    ASSUME NEW a \in Accounts, NEW p \in Passwords
    PROVE  LET b == [a EXCEPT !.password = p, !.reset = NoToken]
           IN  /\ b \in Accounts /\ b.password = p /\ b.reset = NoToken
               /\ b.lock = a.lock /\ b.failed = a.failed
               /\ SameBut(a, b, {"password", "reset"})
<1>1. NoToken \in 0..MaxBegun
  BY AccountsAssumption DEF NoToken
<1> QED BY <1>1 DEF Accounts, Fields, SameBut

-----------------------------------------------------------------------------
(* The invariants *)

LoginPlaces == {"restore", "verify", "again", "ticket", "code", "mfa", "consume", "tokens"}

\* An account that is not locked has failures to spare.
Sane(a) == a.lock = NoLock => a.failed < LockAfter

\* What is known of a request.
Grounded(q) ==
    /\ q.asOf <= locks
    /\ q.at \in Holding => q.copy \in Accounts /\ Sane(q.copy) /\ q.copy.reset <= tokens
    /\ q.at \in {"verify", "again"} => q.copy.lock = NoLock
    /\ q.at \in {"confirm", "confirmed"} => q.channel \in Channels

TypeInv ==
    /\ TypeOK
    /\ Sane(record) /\ record.reset <= tokens
    /\ \A r \in Requests : Grounded(req[r])
    /\ \A t \in Tickets : tickets[t] <= locks

\* Whoever holds a copy holds what was meant, but for what it missed.
Knows(q) ==
    q.at \in Holding =>
        \A f \in Fields \ (clobbered \cup q.missed) : q.copy[f] = meant[f]

FieldsInv == FieldsHold /\ \A r \in Requests : Knows(req[r])

\* Only the last lock can be in force, and nobody comes by a later one.
LockInv ==
    /\ meant.lock \in {NoLock, locks}
    /\ meant.lock = locks /\ lapsedLocks < locks /\ "lock" \notin clobbered =>
           /\ \A r \in Requests : req[r].at \in LoginPlaces => req[r].asOf < locks
           /\ \A t \in Tickets : tickets[t] < locks

\* A token in the record, or in a copy that missed nothing, has a use left.
Spare(t) == uses[t] <= late[t]

ResetInv ==
    /\ ResetsCounted
    /\ \A t \in Tokens : t > tokens => uses[t] = 0
    /\ \A t \in Tokens : record.reset = t => Spare(t)
    /\ \A r \in Requests, t \in Tokens :
           req[r].at \in Holding /\ "reset" \notin req[r].missed /\ req[r].copy.reset = t =>
               Spare(t)

-----------------------------------------------------------------------------
(* What the steps that store a record have in common *)

\* r stores new, which differs from its copy in the fields of about only, and
\* goes on as next.
Storing(r, new, about, fresh, next) ==
    /\ Store(r, new, about, fresh, next)
    /\ req[r].at \in Holding
    /\ new \in Accounts /\ Sane(new)
    /\ about \subseteq Fields /\ fresh \subseteq about
    /\ next \in RequestStates
    /\ next.at \in Holding => next.copy = new /\ new.lock = NoLock
    /\ next.at \notin {"confirm", "confirmed"}
    /\ next.asOf \in {0, req[r].asOf}
    /\ next.at # "idle" => req[r].at \in LoginPlaces /\ next.asOf = req[r].asOf
    /\ alias' \in Requests \cup {NoRequest}
    /\ UNCHANGED <<lapsedLocks, lapsedTokens, codes, begun>>

\* The fields it is about are those it means to change; a count of failures
\* goes on from its copy.
Meaning(r, new, about, fresh) ==
    /\ meant' \in Accounts
    /\ SameBut(req[r].copy, new, about) /\ SameBut(meant, meant', about)
    /\ \A f \in fresh : new[f] = meant'[f]
    /\ about \ fresh \subseteq {"failed"}
    /\ "failed" \in about \ fresh =>
          /\ new.failed = req[r].copy.failed + 1
          /\ meant'.failed = IF meant.failed < LockAfter THEN meant.failed + 1
                             ELSE meant.failed

\* Locks are made one after the other.
Locking(r, new, about, fresh) ==
    \/ /\ locks' = locks
       /\ IF "lock" \in about THEN "lock" \in fresh /\ new.lock = NoLock
          ELSE new.lock = req[r].copy.lock
    \/ /\ locks < MaxBegun /\ locks' = locks + 1
       /\ "lock" \in fresh /\ new.lock = locks'

\* A token is left, made or used.
Resetting(r, new, about, fresh) ==
    \/ /\ UNCHANGED <<tokens, uses>>
       /\ "reset" \notin about /\ new.reset = req[r].copy.reset
    \/ /\ tokens < MaxBegun /\ tokens' = tokens + 1 /\ uses' = uses
       /\ "reset" \in about /\ new.reset = tokens'
    \/ /\ UNCHANGED tokens
       /\ uses' = [t \in Tokens |-> IF t = req[r].copy.reset THEN uses[t] + 1 ELSE uses[t]]
       /\ "reset" \in about /\ new.reset = NoToken

StoreStep(r) ==
    \E new \in Accounts, next \in RequestStates, about, fresh \in SUBSET Fields :
        /\ Storing(r, new, about, fresh, next)
        /\ Meaning(r, new, about, fresh)
        /\ Locking(r, new, about, fresh)
        /\ Resetting(r, new, about, fresh)

LEMMA IdleState == Idle \in RequestStates
BY AccountsAssumption DEF Idle, RequestStates, Places, Holding, Purposes

LEMMA Holder ==
    ASSUME TypeInv, NEW r \in Requests
    PROVE  /\ req[r] \in RequestStates /\ Grounded(req[r])
           /\ record \in Accounts /\ meant \in Accounts
           /\ locks \in Nat /\ tokens \in Nat
BY AccountsAssumption DEF TypeInv, TypeOK

LEMMA Proceeding ==
    ASSUME TypeInv, NEW r \in Requests, NEW a \in Accounts
    PROVE  /\ Proceed(r, a) \in RequestStates
           /\ Proceed(r, a).at \in {"ticket", "tokens"}
           /\ Proceed(r, a).asOf = req[r].asOf
BY Holder, IdleState DEF Proceed, RequestStates, Places

LEMMA Judging ==
    ASSUME TypeInv, NEW r \in Requests, NEW a \in Accounts, NEW next \in RequestStates
    PROVE  LET j == Judged(r, a, next)
           IN  /\ j \in RequestStates
               /\ IF alias = r THEN j.at = "again" /\ j.copy = a /\ j.asOf = req[r].asOf
                  ELSE j = next
BY Holder DEF Judged, RequestStates, Places, Holding

LEMMA StoresRight ==
    ASSUME TypeInv, NEW r \in Requests, PasswordRight(r)
    PROVE  StoreStep(r)
<1> DEFINE copy == req[r].copy
           new == [copy EXCEPT !.failed = 0]
           next == Judged(r, new, Proceed(r, new))
<1>1. req[r].at = "verify" /\ copy \in Accounts /\ copy.lock = NoLock
  BY Holder DEF PasswordRight, Grounded, Holding
<1>2. 0 \in 0..LockAfter /\ 0 < LockAfter
  BY AccountsAssumption
<1>3. /\ new \in Accounts /\ new.failed = 0 /\ new.lock = copy.lock /\ new.reset = copy.reset
      /\ SameBut(copy, new, {"failed"})
  BY <1>1, <1>2, SetFailed
<1>4. /\ meant' \in Accounts /\ meant'.failed = 0
      /\ SameBut(meant, meant', {"failed"})
  BY <1>2, SetFailed, Holder DEF PasswordRight
<1>5. /\ next \in RequestStates
      /\ next.at \in {"again", "ticket", "tokens"} /\ next.asOf = req[r].asOf
      /\ next.at = "again" => next.copy = new
  <2> HIDE DEF new
  <2> QED BY <1>3, Judging, Proceeding
<1>6. Store(r, new, {"failed"}, {"failed"}, next)
  BY DEF PasswordRight
<1> HIDE DEF copy, new, next
<1>7. Storing(r, new, {"failed"}, {"failed"}, next)
  <2>1. /\ alias' \in Requests \cup {NoRequest}
        /\ UNCHANGED <<lapsedLocks, lapsedTokens, codes, begun>>
    BY DEF PasswordRight, AliasAfter, clock
  <2> QED BY <2>1, <1>1, <1>2, <1>3, <1>5, <1>6 DEF Storing, Fields, Holding, Sane, LoginPlaces
<1>8. Meaning(r, new, {"failed"}, {"failed"})
  BY <1>3, <1>4 DEF Meaning, copy
<1>9. Locking(r, new, {"failed"}, {"failed"}) /\ Resetting(r, new, {"failed"}, {"failed"})
  BY <1>3 DEF Locking, Resetting, PasswordRight, clock, copy
<1> QED BY <1>3, <1>5, <1>7, <1>8, <1>9 DEF StoreStep, Fields

LEMMA StoresRestored ==
    ASSUME TypeInv, NEW r \in Requests, RestoreStatus(r)
    PROVE  StoreStep(r)
<1> DEFINE copy == req[r].copy
           new == [copy EXCEPT !.lock = NoLock, !.failed = 0]
           next == [req[r] EXCEPT !.at = "verify", !.copy = new, !.missed = {}]
           about == {"lock", "failed"}
<1>1. req[r].at = "restore" /\ copy \in Accounts /\ copy.reset <= tokens
  BY Holder DEF RestoreStatus, Grounded, Holding
<1>2. 0 \in 0..LockAfter /\ 0 < LockAfter /\ NoLock \in 0..MaxBegun
  BY AccountsAssumption DEF NoLock
<1>3. /\ new \in Accounts /\ new.failed = 0 /\ new.lock = NoLock /\ new.reset = copy.reset
      /\ SameBut(copy, new, about)
  <2>1. new = Relocked(copy, NoLock, 0)
    BY DEF Relocked
  <2> HIDE DEF new
  <2> QED BY <1>1, <1>2, <2>1, SetLock
<1>4. /\ meant' \in Accounts /\ meant'.failed = 0 /\ meant'.lock = NoLock
      /\ SameBut(meant, meant', about)
  <2>1. meant' = Relocked(meant, NoLock, 0)
    BY DEF Relocked, RestoreStatus
  <2> QED BY <1>2, <2>1, SetLock, Holder
<1>5. /\ next \in RequestStates
      /\ next.at = "verify" /\ next.asOf = req[r].asOf
      /\ next.copy = new
  <2> HIDE DEF new
  <2> QED BY <1>3, Holder DEF RequestStates, Places, Holding
<1>6. Store(r, new, about, about, next)
  BY DEF RestoreStatus
<1> HIDE DEF copy, new, next
<1>7. Storing(r, new, about, about, next)
  <2>1. /\ alias' \in Requests \cup {NoRequest}
        /\ UNCHANGED <<lapsedLocks, lapsedTokens, codes, begun>>
    BY DEF RestoreStatus, clock
  <2> QED BY <2>1, <1>1, <1>2, <1>3, <1>5, <1>6 DEF Storing, Fields, Holding, Sane, LoginPlaces
<1>8. Meaning(r, new, about, about)
  BY <1>3, <1>4 DEF Meaning, copy
<1>9. Locking(r, new, about, about) /\ Resetting(r, new, about, about)
  BY <1>3 DEF Locking, Resetting, RestoreStatus, clock, copy
<1> QED BY <1>3, <1>5, <1>7, <1>8, <1>9 DEF StoreStep, Fields

LEMMA StoresWrong ==
    ASSUME TypeInv, NEW r \in Requests, PasswordWrong(r)
    PROVE  StoreStep(r)
<1> DEFINE copy == req[r].copy
           new == [copy EXCEPT !.failed = @ + 1]
           next == Judged(r, new, Idle)
<1>1. /\ req[r].at = "verify" /\ copy \in Accounts
      /\ copy.lock = NoLock /\ copy.failed \in 0..LockAfter
  BY Holder DEF PasswordWrong, Grounded, Holding, Accounts
<1>2. copy.failed + 1 < LockAfter
  <2>1. new.failed = copy.failed + 1
    BY <1>1 DEF Accounts
  <2> QED BY <2>1 DEF PasswordWrong
<1>3. /\ new \in Accounts /\ new.failed = copy.failed + 1 /\ new.lock = copy.lock
      /\ new.reset = copy.reset
      /\ SameBut(copy, new, {"failed"})
  <2>1. copy.failed + 1 \in 0..LockAfter
    BY <1>1, <1>2, AccountsAssumption
  <2> QED BY <1>1, <2>1, SetFailed
<1>4. /\ meant' \in Accounts
      /\ meant'.failed = IF meant.failed < LockAfter THEN meant.failed + 1 ELSE meant.failed
      /\ SameBut(meant, meant', {"failed"})
  <2> DEFINE n == IF meant.failed < LockAfter THEN meant.failed + 1 ELSE meant.failed
  <2>1. n \in 0..LockAfter
    BY Holder, AccountsAssumption DEF Accounts
  <2>2. meant' = [meant EXCEPT !.failed = n]
    BY DEF PasswordWrong
  <2> HIDE DEF n
  <2>3. meant' \in Accounts /\ meant'.failed = n /\ SameBut(meant, meant', {"failed"})
    BY <2>1, <2>2, SetFailed, Holder
  <2> QED BY <2>3 DEF n
<1>5. /\ next \in RequestStates
      /\ \/ next.at = "again" /\ next.asOf = req[r].asOf /\ next.copy = new
         \/ next = Idle
  <2> HIDE DEF new
  <2> QED BY <1>3, Judging, IdleState
<1>6. Store(r, new, {"failed"}, {}, next)
  BY DEF PasswordWrong
<1> HIDE DEF copy, new, next
<1>7. Storing(r, new, {"failed"}, {}, next)
  <2>1. /\ alias' \in Requests \cup {NoRequest}
        /\ UNCHANGED <<lapsedLocks, lapsedTokens, codes, begun>>
    BY DEF PasswordWrong, AliasAfter, clock
  <2>2. Idle.at = "idle" /\ Idle.asOf = 0
    BY DEF Idle
  <2> QED BY <2>1, <2>2, <1>1, <1>2, <1>3, <1>5, <1>6
      DEF Storing, Fields, Holding, Sane, LoginPlaces
<1>8. Meaning(r, new, {"failed"}, {})
  BY <1>3, <1>4 DEF Meaning, copy
<1>9. Locking(r, new, {"failed"}, {}) /\ Resetting(r, new, {"failed"}, {})
  BY <1>3 DEF Locking, Resetting, PasswordWrong, clock, copy
<1> QED BY <1>3, <1>5, <1>7, <1>8, <1>9 DEF StoreStep, Fields

LEMMA StoresLock ==
    ASSUME TypeInv, NEW r \in Requests, PasswordLocks(r)
    PROVE  StoreStep(r)
<1> DEFINE copy == req[r].copy
           new == [copy EXCEPT !.failed = @ + 1, !.lock = locks + 1]
           about == {"lock", "failed"}
<1>1. /\ req[r].at = "verify" /\ copy \in Accounts /\ copy.failed \in 0..LockAfter
      /\ copy.failed < LockAfter /\ copy.reset <= tokens
  BY Holder DEF PasswordLocks, Grounded, Holding, Accounts, Sane
<1>2. locks + 1 \in 0..MaxBegun /\ locks + 1 # NoLock /\ copy.failed + 1 \in 0..LockAfter
  BY <1>1, Holder, AccountsAssumption DEF PasswordLocks, NoLock
<1>3. /\ new \in Accounts /\ new.failed = copy.failed + 1 /\ new.lock = locks + 1
      /\ new.reset = copy.reset
      /\ SameBut(copy, new, about)
  <2>1. new = Relocked(copy, locks + 1, copy.failed + 1)
    BY <1>1 DEF Relocked, Accounts
  <2> HIDE DEF new
  <2> QED BY <1>1, <1>2, <2>1, SetLock
<1>4. /\ meant' \in Accounts /\ meant'.lock = locks + 1
      /\ meant'.failed = IF meant.failed < LockAfter THEN meant.failed + 1 ELSE meant.failed
      /\ SameBut(meant, meant', about)
  <2> DEFINE n == IF meant.failed < LockAfter THEN meant.failed + 1 ELSE meant.failed
  <2>1. n \in 0..LockAfter
    BY Holder, AccountsAssumption DEF Accounts
  <2>2. meant' = Relocked(meant, locks + 1, n)
    BY Holder DEF PasswordLocks, Accounts, Relocked
  <2> HIDE DEF n
  <2>3. /\ meant' \in Accounts /\ meant'.lock = locks + 1
        /\ meant'.failed = n /\ SameBut(meant, meant', about)
    BY <1>2, <2>1, <2>2, SetLock, Holder
  <2> QED BY <2>3 DEF n
<1>5. Idle \in RequestStates /\ Idle.at = "idle" /\ Idle.asOf = 0
  BY IdleState DEF Idle
<1>6. Store(r, new, about, {"lock"}, Idle)
  BY DEF PasswordLocks
<1> HIDE DEF copy, new
<1>7. Storing(r, new, about, {"lock"}, Idle)
  <2>1. /\ alias' \in Requests \cup {NoRequest}
        /\ UNCHANGED <<lapsedLocks, lapsedTokens, codes, begun>>
    BY DEF PasswordLocks
  <2> QED BY <2>1, <1>1, <1>2, <1>3, <1>5, <1>6 DEF Storing, Fields, Holding, Sane
<1>8. Meaning(r, new, about, {"lock"})
  BY <1>3, <1>4 DEF Meaning, copy
<1>9. Locking(r, new, about, {"lock"}) /\ Resetting(r, new, about, {"lock"})
  BY <1>3 DEF Locking, Resetting, PasswordLocks, copy
<1> QED BY <1>3, <1>5, <1>7, <1>8, <1>9 DEF StoreStep, Fields

LEMMA StoresSame ==
    ASSUME TypeInv, NEW r \in Requests, StoreAgain(r)
    PROVE  StoreStep(r)
<1> DEFINE copy == req[r].copy
           next == IF copy.failed = 0 THEN Proceed(r, copy) ELSE Idle
<1>1. req[r].at = "again" /\ copy \in Accounts /\ copy.lock = NoLock /\ Sane(copy)
  BY Holder DEF StoreAgain, Grounded, Holding
<1>2. /\ next \in RequestStates
      /\ \/ next.at = "idle" /\ next.asOf = 0
         \/ next.at \in {"ticket", "tokens"} /\ next.asOf = req[r].asOf
  <2>1. Idle.at = "idle" /\ Idle.asOf = 0
    BY DEF Idle
  <2> QED BY <2>1, <1>1, Proceeding, IdleState
<1>3. Store(r, copy, {}, {}, next)
  BY DEF StoreAgain
<1> HIDE DEF next
<1>4. Storing(r, copy, {}, {}, next)
  <2>1. /\ alias' \in Requests \cup {NoRequest}
        /\ UNCHANGED <<lapsedLocks, lapsedTokens, codes, begun>>
    BY DEF StoreAgain, clock
  <2> QED BY <2>1, <1>1, <1>2, <1>3 DEF Storing, Holding, LoginPlaces
<1>5. Meaning(r, copy, {}, {})
  BY Holder DEF Meaning, SameBut, StoreAgain
<1>6. Locking(r, copy, {}, {}) /\ Resetting(r, copy, {}, {})
  BY DEF Locking, Resetting, StoreAgain, clock
<1> QED BY <1>1, <1>2, <1>4, <1>5, <1>6 DEF StoreStep

LEMMA StoresConfirmed ==
    ASSUME TypeInv, NEW r \in Requests, EndConfirm(r)
    PROVE  StoreStep(r)
<1> DEFINE copy == req[r].copy
           c == req[r].channel
           new == [copy EXCEPT ![c] = TRUE]
<1>1. /\ req[r].at = "confirmed" /\ copy \in Accounts /\ Sane(copy)
      /\ c \in {"email", "phone"}
  BY Holder, AccountsAssumption DEF EndConfirm, Grounded, Holding
<1>2. /\ new \in Accounts /\ new[c] = TRUE /\ new.lock = copy.lock /\ new.failed = copy.failed
      /\ new.reset = copy.reset
      /\ SameBut(copy, new, {c})
  BY <1>1, SetConfirmed
<1>3. meant' \in Accounts /\ meant'[c] = TRUE /\ SameBut(meant, meant', {c})
  BY <1>1, SetConfirmed, Holder DEF EndConfirm
<1>4. Idle \in RequestStates /\ Idle.at = "idle" /\ Idle.asOf = 0
  BY IdleState DEF Idle
<1>5. Store(r, new, {c}, {c}, Idle)
  BY DEF EndConfirm
<1> HIDE DEF copy, new, c
<1>6. Storing(r, new, {c}, {c}, Idle)
  <2>1. /\ alias' \in Requests \cup {NoRequest}
        /\ UNCHANGED <<lapsedLocks, lapsedTokens, codes, begun>>
    BY DEF EndConfirm, clock
  <2> QED BY <2>1, <1>1, <1>2, <1>4, <1>5 DEF Storing, Fields, Holding, Sane
<1>7. Meaning(r, new, {c}, {c})
  BY <1>2, <1>3 DEF Meaning, copy
<1>8. Locking(r, new, {c}, {c}) /\ Resetting(r, new, {c}, {c})
  BY <1>1, <1>2 DEF Locking, Resetting, EndConfirm, clock, copy
<1> QED BY <1>1, <1>2, <1>4, <1>6, <1>7, <1>8 DEF StoreStep, Fields

LEMMA StoresToken ==
    ASSUME TypeInv, NEW r \in Requests, EndForgot(r)
    PROVE  StoreStep(r)
<1> DEFINE copy == req[r].copy
           new == [copy EXCEPT !.reset = tokens', !.expires = tokens']
           about == {"reset", "expires"}
<1>1. req[r].at = "forgot" /\ copy \in Accounts /\ Sane(copy)
  BY Holder DEF EndForgot, Grounded, Holding
<1>2. tokens < MaxBegun /\ tokens' = tokens + 1 /\ tokens' \in 0..MaxBegun
  BY Holder, AccountsAssumption DEF EndForgot
<1>3. /\ new \in Accounts /\ new.reset = tokens' /\ new.expires = tokens'
      /\ new.lock = copy.lock /\ new.failed = copy.failed
      /\ SameBut(copy, new, about)
  BY <1>1, <1>2, SetToken
<1>4. /\ meant' \in Accounts /\ meant'.reset = tokens' /\ meant'.expires = tokens'
      /\ SameBut(meant, meant', about)
  BY <1>2, SetToken, Holder DEF EndForgot
<1>5. Idle \in RequestStates /\ Idle.at = "idle" /\ Idle.asOf = 0
  BY IdleState DEF Idle
<1>6. Store(r, new, about, about, Idle)
  BY DEF EndForgot
<1> HIDE DEF copy, new
<1>7. Storing(r, new, about, about, Idle)
  <2>1. /\ alias' \in Requests \cup {NoRequest}
        /\ UNCHANGED <<lapsedLocks, lapsedTokens, codes, begun>>
    BY DEF EndForgot
  <2> QED BY <2>1, <1>1, <1>3, <1>5, <1>6 DEF Storing, Fields, Holding, Sane
<1>8. Meaning(r, new, about, about)
  BY <1>3, <1>4 DEF Meaning, copy
<1>9. Locking(r, new, about, about) /\ Resetting(r, new, about, about)
  BY <1>2, <1>3 DEF Locking, Resetting, EndForgot, copy
<1> QED BY <1>3, <1>5, <1>7, <1>8, <1>9 DEF StoreStep, Fields

LEMMA StoresPassword ==
    ASSUME TypeInv, NEW r \in Requests, EndReset(r)
    PROVE  StoreStep(r)
<1> DEFINE copy == req[r].copy
           about == {"password", "reset"}
           New(p) == [copy EXCEPT !.password = p, !.reset = NoToken]
<1>1. req[r].at = "reset" /\ copy \in Accounts /\ Sane(copy)
  BY Holder DEF EndReset, Grounded, Holding
<1>2. PICK p \in Passwords :
        /\ Store(r, New(p), about, about, Idle)
        /\ meant' = [meant EXCEPT !.password = p, !.reset = NoToken]
  BY DEF EndReset
<1> DEFINE new == New(p)
<1>3. /\ new \in Accounts /\ new.password = p /\ new.reset = NoToken
      /\ new.lock = copy.lock /\ new.failed = copy.failed
      /\ SameBut(copy, new, about)
  BY <1>1, SetPassword
<1>4. /\ meant' \in Accounts /\ meant'.password = p /\ meant'.reset = NoToken
      /\ SameBut(meant, meant', about)
  BY <1>2, SetPassword, Holder
<1>5. Idle \in RequestStates /\ Idle.at = "idle" /\ Idle.asOf = 0
  BY IdleState DEF Idle
<1> HIDE DEF copy, New, new
<1>6. Storing(r, new, about, about, Idle)
  <2>1. /\ alias' \in Requests \cup {NoRequest}
        /\ UNCHANGED <<lapsedLocks, lapsedTokens, codes, begun>>
    BY DEF EndReset, clock
  <2> QED BY <2>1, <1>1, <1>2, <1>3, <1>5 DEF Storing, Fields, Holding, Sane, new
<1>7. Meaning(r, new, about, about)
  BY <1>3, <1>4 DEF Meaning, copy
<1>8. Locking(r, new, about, about) /\ Resetting(r, new, about, about)
  BY <1>3 DEF Locking, Resetting, EndReset, clock, copy
<1> QED BY <1>3, <1>5, <1>6, <1>7, <1>8 DEF StoreStep, Fields

-----------------------------------------------------------------------------
(* Storing a record keeps the invariants *)

\* All of a request but what it missed.
SameRequest(p, q) ==
    /\ p.at = q.at /\ p.copy = q.copy /\ p.asOf = q.asOf
    /\ p.ticket = q.ticket /\ p.channel = q.channel

\* Others only learn what a store is about.
Noticing(q, about) ==
    /\ SameRequest(req'[q], req[q])
    /\ req[q].at \in Holding => req'[q].missed = req[q].missed \cup about

\* A token counts one more for a store from a copy that missed its end.
Late(r, t) ==
    late'[t] = IF "reset" \in req[r].missed /\ req[r].copy.reset = t
               THEN late[t] + 1 ELSE late[t]

\* What the other requests and the histories see of a store.
LEMMA Stored ==
    ASSUME TypeInv, NEW r \in Requests, NEW new \in Accounts, NEW next \in RequestStates,
           NEW about \in SUBSET Fields, NEW fresh \in SUBSET Fields,
           Store(r, new, about, fresh, next)
    PROVE  /\ record' = new
           /\ clobbered' = (clobbered \cup req[r].missed) \ fresh
           /\ req' \in [Requests -> RequestStates] /\ req'[r] = next
           /\ \A q \in Requests \ {r} : Noticing(q, about)
           /\ late' \in [Tokens -> Nat] /\ \A t \in Tokens : Late(r, t)
<1>1. \A q \in Requests : req[q] \in RequestStates
  BY Holder
<1>2. ASSUME NEW q \in Requests
      PROVE  [req[q] EXCEPT !.missed = @ \cup about] \in RequestStates
  BY <1>1 DEF RequestStates
<1>3. req' \in [Requests -> RequestStates] /\ req'[r] = next
  BY <1>1, <1>2 DEF Store
<1>4. ASSUME NEW q \in Requests \ {r}
      PROVE  Noticing(q, about)
  <2>1. req'[q] = IF req[q].at \in Holding THEN [req[q] EXCEPT !.missed = @ \cup about]
                  ELSE req[q]
    BY DEF Store
  <2> QED BY <1>1, <2>1 DEF RequestStates, SameRequest, Noticing
<1>5. late \in [Tokens -> Nat]
  BY DEF TypeInv, TypeOK
<1> QED BY <1>3, <1>4, <1>5 DEF Store, Late

LEMMA StoreKeepsTypes ==
    ASSUME TypeInv, NEW r \in Requests, StoreStep(r)
    PROVE  TypeInv'
<1>1. PICK new \in Accounts, next \in RequestStates, about \in SUBSET Fields,
           fresh \in SUBSET Fields :
        /\ Storing(r, new, about, fresh, next)
        /\ Meaning(r, new, about, fresh)
        /\ Locking(r, new, about, fresh)
        /\ Resetting(r, new, about, fresh)
  BY DEF StoreStep
<1>2. /\ record' = new
      /\ clobbered' = (clobbered \cup req[r].missed) \ fresh
      /\ req' \in [Requests -> RequestStates] /\ req'[r] = next
      /\ \A q \in Requests \ {r} : SameRequest(req'[q], req[q])
      /\ late' \in [Tokens -> Nat]
  <2>1. Store(r, new, about, fresh, next)
    BY <1>1 DEF Storing
  <2> QED BY <2>1, Stored DEF Noticing
<1>3. /\ locks' \in 0..MaxBegun /\ locks <= locks' /\ lapsedLocks' \in 0..locks'
  <2>1. locks \in 0..MaxBegun /\ lapsedLocks \in 0..locks /\ lapsedLocks' = lapsedLocks
    BY <1>1 DEF TypeInv, TypeOK, Storing
  <2>2. \/ locks' = locks
        \/ locks < MaxBegun /\ locks' = locks + 1
    BY <1>1 DEF Locking
  <2> QED BY <2>1, <2>2, AccountsAssumption
<1>4. /\ tokens' \in 0..MaxBegun /\ tokens <= tokens' /\ lapsedTokens' \in 0..tokens'
      /\ new.reset <= tokens'
  <2>1. /\ tokens \in 0..MaxBegun /\ lapsedTokens \in 0..tokens
        /\ lapsedTokens' = lapsedTokens /\ req[r].copy.reset <= tokens
    BY <1>1 DEF TypeInv, TypeOK, Storing, Grounded
  <2>2. \/ tokens' = tokens /\ new.reset \in {NoToken, req[r].copy.reset}
        \/ tokens < MaxBegun /\ tokens' = tokens + 1 /\ new.reset = tokens'
    BY <1>1 DEF Resetting
  <2> QED BY <2>1, <2>2, AccountsAssumption DEF NoToken
<1>5. uses' \in [Tokens -> Nat]
  <2>1. uses \in [Tokens -> Nat]
    BY DEF TypeInv, TypeOK
  <2> QED BY <1>1, <2>1 DEF Resetting
<1>6. TypeOK'
  <2>1. /\ clobbered' \subseteq Fields /\ meant' \in Accounts
        /\ alias' \in Requests \cup {NoRequest}
    <3>1. clobbered \subseteq Fields /\ req[r].missed \subseteq Fields
      BY Holder DEF TypeInv, TypeOK, RequestStates
    <3> QED BY <1>1, <1>2, <3>1 DEF Storing, Meaning
  <2>2. UNCHANGED <<tickets, minted, otp, begun>>
    BY <1>1 DEF Storing, codes
  <2> QED BY <1>2, <1>3, <1>4, <1>5, <2>1, <2>2 DEF TypeInv, TypeOK
<1>7. ASSUME NEW q \in Requests PROVE Grounded(req[q])'
  <2>1. Grounded(req[q]) /\ Grounded(req[r]) /\ locks \in Nat /\ tokens \in Nat
    BY Holder
  <2>2. CASE q = r
    <3>1. /\ next.at \in Holding => next.copy = new /\ new.lock = NoLock
          /\ next.at \notin {"confirm", "confirmed"} /\ Sane(new)
          /\ next.asOf \in {0, req[r].asOf}
      BY <1>1 DEF Storing
    <3>2. next.asOf <= locks'
      BY <1>2, <1>3, <2>1, <3>1, Holder DEF Grounded, TypeInv, TypeOK, RequestStates
    <3> QED BY <1>2, <1>4, <2>2, <3>1, <3>2 DEF Grounded, Holding
  <2>3. CASE q # r
    <3>1. SameRequest(req'[q], req[q])
      BY <1>2, <2>3
    <3>2. /\ req[q].asOf \in Nat
          /\ req[q].at \in Holding => req[q].copy.reset \in Nat
      BY Holder, AccountsAssumption DEF RequestStates, Grounded, Accounts
    <3> QED BY <1>3, <1>4, <2>1, <3>1, <3>2 DEF Grounded, SameRequest
  <2> QED BY <2>2, <2>3
<1>8. \A t \in Tickets : tickets'[t] <= locks'
  <2>1. tickets' = tickets /\ tickets \in [Tickets -> {Gone} \cup 0..MaxBegun]
    BY <1>1 DEF TypeInv, TypeOK, Storing, codes
  <2>2. \A t \in Tickets : tickets[t] <= locks
    BY DEF TypeInv
  <2>3. locks \in Nat
    BY Holder
  <2> QED BY <1>3, <2>1, <2>2, <2>3 DEF Gone
<1>9. Sane(new)
  BY <1>1 DEF Storing
<1> QED BY <1>2, <1>4, <1>6, <1>7, <1>8, <1>9 DEF TypeInv, Sane

LEMMA StoreKeepsFields ==
    ASSUME TypeInv, FieldsInv, NEW r \in Requests, StoreStep(r)
    PROVE  FieldsInv'
<1>1. PICK new \in Accounts, next \in RequestStates, about \in SUBSET Fields,
           fresh \in SUBSET Fields :
        /\ Storing(r, new, about, fresh, next)
        /\ Meaning(r, new, about, fresh)
  BY DEF StoreStep
<1>2. /\ record' = new
      /\ clobbered' = (clobbered \cup req[r].missed) \ fresh
      /\ req'[r] = next
      /\ \A q \in Requests \ {r} : Noticing(q, about)
  <2>1. Store(r, new, about, fresh, next)
    BY <1>1 DEF Storing
  <2> QED BY <2>1, Stored
<1>3. fresh \subseteq about /\ req[r].at \in Holding /\ Knows(req[r])
  BY <1>1 DEF Storing, FieldsInv
\* The record stored is what was meant, but for what is clobbered.
<1>4. ASSUME NEW f \in Fields \ clobbered' PROVE new[f] = meant'[f]
  <2>1. CASE f \in fresh
    BY <1>1, <2>1 DEF Meaning
  <2>2. CASE f \notin about
    <3>1. req[r].copy[f] = meant[f]
      BY <1>2, <1>3, <2>2 DEF Knows
    <3>2. new[f] = req[r].copy[f] /\ meant'[f] = meant[f]
      BY <1>1, <2>2 DEF Meaning, SameBut
    <3> QED BY <3>1, <3>2
  <2>3. CASE f \in about \ fresh
    <3>1. f = "failed"
      BY <1>1, <2>3 DEF Meaning
    <3>2. req[r].copy.failed = meant.failed
      BY <1>2, <1>3, <2>3, <3>1 DEF Knows
    <3>3. /\ new.failed = meant.failed + 1
          /\ meant'.failed = IF meant.failed < LockAfter THEN meant.failed + 1 ELSE meant.failed
      BY <1>1, <2>3, <3>1, <3>2 DEF Meaning
    <3>4. new.failed <= LockAfter /\ meant.failed \in Nat
      BY Holder, AccountsAssumption DEF Accounts
    <3> QED BY <3>1, <3>3, <3>4, AccountsAssumption
  <2> QED BY <2>1, <2>2, <2>3
<1>5. FieldsHold'
  BY <1>2, <1>4 DEF FieldsHold
<1>6. ASSUME NEW q \in Requests PROVE Knows(req[q])'
  <2>1. CASE q = r
    BY <1>1, <1>2, <1>4, <2>1 DEF Knows, Storing
  <2>2. CASE q # r /\ req[q].at \in Holding
    <3>1. req'[q].copy = req[q].copy /\ req'[q].missed = req[q].missed \cup about
      BY <1>2, <2>2 DEF SameRequest, Noticing
    <3>2. ASSUME NEW f \in Fields \ (clobbered' \cup req'[q].missed)
          PROVE  req'[q].copy[f] = meant'[f]
      <4>1. f \notin about /\ f \notin clobbered /\ f \notin req[q].missed
        BY <1>2, <1>3, <3>1, <3>2
      <4>2. meant'[f] = meant[f]
        BY <1>1, <4>1 DEF Meaning, SameBut
      <4>3. req[q].copy[f] = meant[f]
        BY <2>2, <4>1 DEF FieldsInv, Knows
      <4> QED BY <3>1, <4>2, <4>3
    <3> QED BY <3>2 DEF Knows
  <2>3. CASE q # r /\ req[q].at \notin Holding
    BY <1>2, <2>3 DEF Knows, SameRequest, Noticing
  <2> QED BY <2>1, <2>2, <2>3
<1> QED BY <1>5, <1>6 DEF FieldsInv

LEMMA StoreKeepsLock ==
    ASSUME TypeInv, LockInv, NEW r \in Requests, StoreStep(r)
    PROVE  LockInv'
<1>1. PICK new \in Accounts, next \in RequestStates, about \in SUBSET Fields,
           fresh \in SUBSET Fields :
        /\ Storing(r, new, about, fresh, next)
        /\ Meaning(r, new, about, fresh)
        /\ Locking(r, new, about, fresh)
  BY DEF StoreStep
<1>2. /\ clobbered' = (clobbered \cup req[r].missed) \ fresh
      /\ req'[r] = next
      /\ \A q \in Requests \ {r} : SameRequest(req'[q], req[q])
  <2>1. Store(r, new, about, fresh, next)
    BY <1>1 DEF Storing
  <2> QED BY <2>1, Stored DEF Noticing
<1>3. lapsedLocks' = lapsedLocks /\ tickets' = tickets
  BY <1>1 DEF Storing, codes
<1>4. /\ locks \in Nat /\ lapsedLocks \in Nat
      /\ \A q \in Requests : req[q].asOf \in Nat /\ req[q].asOf <= locks
      /\ \A t \in Tickets : tickets[t] \in Int /\ tickets[t] <= locks
  BY Holder, AccountsAssumption DEF TypeInv, TypeOK, Grounded, RequestStates, Gone
\* A request that goes on as a login was one, begun no later.
<1>5. ASSUME NEW q \in Requests, req'[q].at \in LoginPlaces
      PROVE  req[q].at \in LoginPlaces /\ req'[q].asOf = req[q].asOf
  BY <1>1, <1>2, <1>5 DEF Storing, SameRequest, LoginPlaces
<1>6. CASE locks' = locks + 1 /\ "lock" \in fresh /\ new.lock = locks'
  <2>1. meant'.lock = locks'
    BY <1>1, <1>6 DEF Meaning
  <2>2. \A q \in Requests : req'[q].at \in LoginPlaces => req'[q].asOf < locks'
    BY <1>4, <1>5, <1>6
  <2>3. \A t \in Tickets : tickets'[t] < locks'
    BY <1>3, <1>4, <1>6
  <2> QED BY <2>1, <2>2, <2>3 DEF LockInv
<1>7. CASE locks' = locks /\ "lock" \in fresh /\ new.lock = NoLock
  <2>1. meant'.lock = NoLock
    BY <1>1, <1>7 DEF Meaning
  <2>2. ~(meant'.lock = locks' /\ lapsedLocks' < locks')
    BY <1>3, <1>4, <1>7, <2>1 DEF NoLock
  <2> QED BY <2>1, <2>2 DEF LockInv
<1>8. CASE locks' = locks /\ "lock" \notin about
  <2>1. meant'.lock = meant.lock /\ "lock" \notin fresh
    BY <1>1, <1>8 DEF Meaning, SameBut, Storing, Fields
  <2>2. "lock" \notin clobbered' => "lock" \notin clobbered
    BY <1>2, <2>1
  <2>3. meant'.lock \in {NoLock, locks'}
    BY <1>8, <2>1 DEF LockInv
  <2>4. ASSUME meant'.lock = locks', lapsedLocks' < locks', "lock" \notin clobbered'
        PROVE  /\ \A q \in Requests : req'[q].at \in LoginPlaces => req'[q].asOf < locks'
               /\ \A t \in Tickets : tickets'[t] < locks'
    <3>1. /\ \A q \in Requests : req[q].at \in LoginPlaces => req[q].asOf < locks
          /\ \A t \in Tickets : tickets[t] < locks
      BY <1>3, <1>8, <2>1, <2>2, <2>4 DEF LockInv
    <3> QED BY <1>3, <1>5, <1>8, <3>1
  <2> QED BY <2>3, <2>4 DEF LockInv
<1> QED BY <1>1, <1>6, <1>7, <1>8 DEF Locking

LEMMA StoreKeepsResets ==
    ASSUME TypeInv, ResetInv, NEW r \in Requests, StoreStep(r)
    PROVE  ResetInv'
<1>1. PICK new \in Accounts, next \in RequestStates, about \in SUBSET Fields,
           fresh \in SUBSET Fields :
        /\ Storing(r, new, about, fresh, next)
        /\ Resetting(r, new, about, fresh)
  BY DEF StoreStep
<1> DEFINE copy == req[r].copy
           missed == "reset" \in req[r].missed
<1>2. /\ record' = new
      /\ req'[r] = next
      /\ \A q \in Requests \ {r} : Noticing(q, about)
      /\ \A t \in Tokens : Late(r, t)
  <2>1. Store(r, new, about, fresh, next)
    BY <1>1 DEF Storing
  <2> QED BY <2>1, Stored
<1>3. /\ \A t \in Tokens : uses[t] \in Nat /\ late[t] \in Nat /\ uses[t] <= 1 + late[t]
      /\ \A t \in Tokens : ~missed /\ copy.reset = t => uses[t] <= late[t]
      /\ \A t \in Tokens : t > tokens => uses[t] = 0
      /\ tokens \in Nat /\ copy.reset \in Nat /\ copy.reset <= tokens
  <2>1. req[r].at \in Holding
    BY <1>1 DEF Storing
  <2>2. copy \in Accounts /\ copy.reset <= tokens /\ tokens \in Nat
    BY <2>1, Holder DEF Grounded
  <2>3. copy.reset \in Nat
    BY <2>2, AccountsAssumption DEF Accounts
  <2> QED BY <2>1, <2>2, <2>3 DEF ResetInv, ResetsCounted, Spare, TypeInv, TypeOK
<1>4. ASSUME NEW t \in Tokens
      PROVE  /\ late'[t] = IF missed /\ copy.reset = t THEN late[t] + 1 ELSE late[t]
             /\ late[t] <= late'[t]
  <2>1. late'[t] = IF missed /\ copy.reset = t THEN late[t] + 1 ELSE late[t]
    BY <1>2 DEF Late
  <2> QED BY <1>3, <2>1
\* The token of the record stored has a use left.
<1>5. ASSUME NEW t \in Tokens
      PROVE  /\ uses'[t] <= 1 + late'[t]
             /\ t > tokens' => uses'[t] = 0
             /\ new.reset = t => uses'[t] <= late'[t]
  <2> DEFINE used == IF t = copy.reset THEN uses[t] + 1 ELSE uses[t]
  <2>1. /\ t \in Nat /\ t # NoToken
        /\ uses[t] \in Nat /\ late[t] \in Nat /\ uses[t] <= 1 + late[t]
        /\ ~missed /\ copy.reset = t => uses[t] <= late[t]
        /\ t > tokens => uses[t] = 0
        /\ tokens \in Nat /\ copy.reset \in Nat /\ copy.reset <= tokens
    BY <1>3, AccountsAssumption DEF Tokens, NoToken
  <2>2. /\ late'[t] = IF missed /\ copy.reset = t THEN late[t] + 1 ELSE late[t]
    BY <1>4
  <2> HIDE DEF copy, missed
  <2>3. CASE tokens' = tokens /\ uses' = uses /\ new.reset = copy.reset
    BY <2>1, <2>2, <2>3
  <2>4. CASE tokens' = tokens + 1 /\ uses' = uses /\ new.reset = tokens'
    BY <2>1, <2>2, <2>4
  <2>5. CASE tokens' = tokens /\ new.reset = NoToken /\ uses'[t] = used
    BY <2>1, <2>2, <2>5
  <2>6. \/ tokens' = tokens /\ uses' = uses /\ new.reset = copy.reset
        \/ tokens' = tokens + 1 /\ uses' = uses /\ new.reset = tokens'
        \/ tokens' = tokens /\ new.reset = NoToken /\ uses'[t] = used
    BY <1>1 DEF Resetting, copy
  <2> QED BY <2>3, <2>4, <2>5, <2>6
<1>6. ASSUME NEW q \in Requests, NEW t \in Tokens, req'[q].at \in Holding,
             "reset" \notin req'[q].missed, req'[q].copy.reset = t
      PROVE  uses'[t] <= late'[t]
  <2>1. CASE q = r
    BY <1>1, <1>2, <1>5, <1>6, <2>1 DEF Storing
  <2>2. CASE q # r
    <3>1. /\ req[q].at \in Holding /\ req[q].copy.reset = t
          /\ "reset" \notin req[q].missed /\ "reset" \notin about
      BY <1>2, <1>6, <2>2 DEF SameRequest, Noticing
    <3>2. uses' = uses
      BY <1>1, <3>1 DEF Resetting
    <3>3. uses[t] <= late[t]
      BY <3>1 DEF ResetInv, Spare
    <3> QED BY <1>3, <1>4, <3>2, <3>3
  <2> QED BY <2>1, <2>2
<1> QED BY <1>2, <1>5, <1>6 DEF ResetInv, ResetsCounted, Spare

-----------------------------------------------------------------------------
(* Steps of a request that store nothing *)

\* What r knows: the record it has just read, or the copy it had.
Reads(r, next) ==
    \/ next.at \notin Holding
    \/ /\ next.copy = record /\ next.missed = {} /\ next.at # "again"
       /\ next.at = "verify" => record.lock = NoLock
    \/ /\ req[r].at \in Holding /\ next.at \notin {"verify", "again"}
       /\ next.copy = req[r].copy /\ next.missed = req[r].missed

\* A login goes on, or begins while no lock is in force, or with a ticket.
Enters(r, next) ==
    \/ next.at \notin LoginPlaces
    \/ req[r].at \in LoginPlaces /\ next.asOf = req[r].asOf
    \/ ~Locked
    \/ \E t \in Tickets : tickets[t] = next.asOf

\* A ticket is gone, or made for the login of r.
Ticketing(r) ==
    \A t \in Tickets :
        \/ tickets'[t] \in {tickets[t], Gone}
        \/ req[r].at \in LoginPlaces /\ tickets'[t] = req[r].asOf

Moving(r, next) ==
    /\ req' = [req EXCEPT ![r] = next]
    /\ next.asOf <= locks
    /\ next.at \in {"confirm", "confirmed"} => next.channel \in Channels
    /\ Reads(r, next) /\ Enters(r, next) /\ Ticketing(r)
    /\ tickets' \in [Tickets -> {Gone} \cup 0..MaxBegun]
    /\ minted' \in 0..MaxBegun
    /\ otp' \in [Purposes -> 0..(MfaAttempts + VerifyAttempts)]
    /\ begun' \in 0..MaxBegun
    /\ UNCHANGED <<account, clock, uses>>

MoveStep(r) == \E next \in RequestStates : Moving(r, next)

LEMMA Bounds ==
    ASSUME TypeInv
    PROVE  /\ MaxBegun \in Nat /\ locks \in 0..MaxBegun /\ begun \in 0..MaxBegun
           /\ minted \in 0..MaxBegun
           /\ tickets \in [Tickets -> {Gone} \cup 0..MaxBegun]
           /\ otp \in [Purposes -> 0..(MfaAttempts + VerifyAttempts)]
           /\ req \in [Requests -> RequestStates]
           /\ record \in Accounts
BY AccountsAssumption DEF TypeInv, TypeOK

\* A code with some of its tries left.
LEMMA CodeState ==
    ASSUME TypeInv, NEW p
    PROVE  /\ [otp EXCEPT ![p] = 0] \in [Purposes -> 0..(MfaAttempts + VerifyAttempts)]
           /\ [otp EXCEPT ![p] = MfaAttempts] \in [Purposes -> 0..(MfaAttempts + VerifyAttempts)]
           /\ [otp EXCEPT ![p] = VerifyAttempts] \in [Purposes -> 0..(MfaAttempts + VerifyAttempts)]
           /\ [otp EXCEPT ![p] = IF @ > 0 THEN @ - 1 ELSE 0]
                 \in [Purposes -> 0..(MfaAttempts + VerifyAttempts)]
<1> DEFINE Tries == 0..(MfaAttempts + VerifyAttempts)
<1>1. /\ 0 \in Tries /\ MfaAttempts \in Tries /\ VerifyAttempts \in Tries
      /\ \A n \in Tries : (IF n > 0 THEN n - 1 ELSE 0) \in Tries
  BY AccountsAssumption
<1>2. otp \in [Purposes -> Tries]
  BY Bounds
<1> HIDE DEF Tries
<1>3. /\ [otp EXCEPT ![p] = 0] \in [Purposes -> Tries]
      /\ [otp EXCEPT ![p] = MfaAttempts] \in [Purposes -> Tries]
      /\ [otp EXCEPT ![p] = VerifyAttempts] \in [Purposes -> Tries]
      /\ [otp EXCEPT ![p] = IF @ > 0 THEN @ - 1 ELSE 0] \in [Purposes -> Tries]
  BY <1>1, <1>2
<1> QED BY <1>3 DEF Tries

\* A request that has ended, or has the record, is in a proper state.
LEMMA ReadingState ==
    ASSUME TypeInv, NEW place \in Holding
    PROVE  /\ Reading(place) \in RequestStates
           /\ Reading(place).at = place /\ Reading(place).copy = record
           /\ Reading(place).missed = {} /\ Reading(place).asOf <= locks
<1>1. Reading(place) = [Idle EXCEPT !.at = place, !.copy = record, !.asOf = locks]
  BY DEF Reading
<1>2. Idle.missed = {} /\ locks <= locks
  BY Bounds DEF Idle
<1>3. Reading(place) \in RequestStates
  BY <1>1, Bounds, IdleState DEF RequestStates, Places
<1>4. /\ Reading(place).at = place /\ Reading(place).copy = record
      /\ Reading(place).missed = {} /\ Reading(place).asOf = locks
  BY <1>1, <1>2, IdleState DEF RequestStates
<1> QED BY <1>2, <1>3, <1>4

LEMMA MovesLogin ==
    ASSUME TypeInv, NEW r \in Requests, BeginLogin(r)
    PROVE  MoveStep(r)
<1> DEFINE place == IF record.lock = NoLock THEN "verify" ELSE "restore"
           next == Reading(place)
<1>1. /\ next \in RequestStates /\ next.at = place /\ next.copy = record
      /\ next.missed = {} /\ next.asOf <= locks
  <2>1. place \in Holding
    BY DEF Holding
  <2> HIDE DEF place
  <2> QED BY <2>1, ReadingState
<1>2. /\ ~Locked /\ begun' \in 0..MaxBegun /\ req' = [req EXCEPT ![r] = next]
      /\ UNCHANGED <<account, clock, uses, tickets, minted, otp>>
  BY Bounds DEF BeginLogin, Begin, codes
<1>3. Reads(r, next) /\ Enters(r, next)
  <2> HIDE DEF next
  <2> QED BY <1>1, <1>2 DEF Reads, Enters
<1> HIDE DEF next
<1> QED BY <1>1, <1>2, <1>3, Bounds DEF MoveStep, Moving, Ticketing

LEMMA MovesReading ==
    ASSUME TypeInv, NEW r \in Requests, NEW place \in {"forgot", "reset"},
           Begin(r, Reading(place)), UNCHANGED <<account, clock, codes, uses>>
    PROVE  MoveStep(r)
<1> DEFINE next == Reading(place)
<1>1. /\ next \in RequestStates /\ next.at = place /\ next.copy = record
      /\ next.missed = {} /\ next.asOf <= locks
  BY ReadingState DEF Holding
<1>2. begun' \in 0..MaxBegun /\ req' = [req EXCEPT ![r] = next]
  BY Bounds DEF Begin
<1> HIDE DEF next
<1>3. Reads(r, next) /\ Enters(r, next)
  BY <1>1 DEF Reads, Enters, LoginPlaces
<1> QED BY <1>1, <1>2, <1>3, Bounds DEF MoveStep, Moving, Ticketing, codes

LEMMA MovesConfirm ==
    ASSUME TypeInv, NEW r \in Requests, NEW c \in Channels, BeginConfirm(r, c)
    PROVE  MoveStep(r)
<1> DEFINE next == [Reading("confirm") EXCEPT !.channel = c]
<1>1. /\ next \in RequestStates /\ next.at = "confirm" /\ next.copy = record
      /\ next.missed = {} /\ next.asOf <= locks /\ next.channel = c
  <2>1. c \in Purposes /\ "confirm" \in Holding
    BY DEF Purposes, Holding
  <2> QED BY <2>1, ReadingState DEF RequestStates
<1>2. begun' \in 0..MaxBegun /\ req' = [req EXCEPT ![r] = next]
      /\ UNCHANGED <<account, clock, uses, tickets, minted, otp>>
  BY Bounds DEF BeginConfirm, Begin, codes
<1> HIDE DEF next
<1>3. Reads(r, next) /\ Enters(r, next)
  BY <1>1 DEF Reads, Enters, LoginPlaces
<1> QED BY <1>1, <1>2, <1>3, Bounds DEF MoveStep, Moving, Ticketing

LEMMA MovesMfa ==
    ASSUME TypeInv, NEW r \in Requests, NEW t \in Tickets, BeginVerifyMFA(r, t)
    PROVE  MoveStep(r)
<1> DEFINE next == [Idle EXCEPT !.at = "mfa", !.ticket = t, !.asOf = tickets[t]]
<1>1. /\ tickets[t] \in 0..MaxBegun /\ tickets[t] <= locks /\ t \in 0..MaxBegun
  BY Bounds DEF BeginVerifyMFA, TypeInv, Tickets
<1>2. next \in RequestStates /\ next.at = "mfa" /\ next.asOf = tickets[t]
  BY <1>1, IdleState DEF RequestStates, Places
<1>3. begun' \in 0..MaxBegun /\ req' = [req EXCEPT ![r] = next]
      /\ UNCHANGED <<account, clock, uses, tickets, minted, otp>>
  BY Bounds DEF BeginVerifyMFA, Begin, codes
<1> HIDE DEF next
<1>4. Reads(r, next) /\ Enters(r, next)
  BY <1>2 DEF Reads, Enters, Holding
<1> QED BY <1>1, <1>2, <1>3, <1>4, Bounds DEF MoveStep, Moving, Ticketing

\* A request ends.
LEMMA MovesEnd ==
    ASSUME TypeInv, NEW r \in Requests, Finish(r),
           UNCHANGED <<account, clock, tickets, minted, begun, uses>>,
           otp' \in [Purposes -> 0..(MfaAttempts + VerifyAttempts)]
    PROVE  MoveStep(r)
<1>1. Idle.at = "idle" /\ Idle.asOf <= locks
  BY Bounds DEF Idle
<1>2. Reads(r, Idle) /\ Enters(r, Idle)
  BY <1>1 DEF Reads, Enters, Holding, LoginPlaces
<1> QED BY <1>1, <1>2, IdleState, Bounds DEF MoveStep, Moving, Ticketing, Finish

\* A request goes on to another place, with what it has.
LEMMA MovesOn ==
    ASSUME TypeInv, NEW r \in Requests, NEW place \in Places, Move(r, place),
           \/ place \in {"code", "consume", "tokens"} /\ req[r].at \in LoginPlaces
           \/ place = "confirmed" /\ req[r].at = "confirm",
           Ticketing(r),
           UNCHANGED <<account, clock, begun, uses>>,
           tickets' \in [Tickets -> {Gone} \cup 0..MaxBegun],
           minted' \in 0..MaxBegun,
           otp' \in [Purposes -> 0..(MfaAttempts + VerifyAttempts)]
    PROVE  MoveStep(r)
<1> DEFINE next == [req[r] EXCEPT !.at = place]
<1>1. /\ next \in RequestStates /\ next.at = place /\ next.copy = req[r].copy
      /\ next.missed = req[r].missed /\ next.asOf = req[r].asOf
      /\ next.channel = req[r].channel
  BY Holder DEF RequestStates
<1>2. req' = [req EXCEPT ![r] = next]
  BY Bounds DEF Move
<1> HIDE DEF next
<1>3. Reads(r, next) /\ Enters(r, next)
  BY <1>1 DEF Reads, Enters, Holding, LoginPlaces
<1>4. /\ next.asOf <= locks
      /\ next.at \in {"confirm", "confirmed"} => next.channel \in Channels
  BY <1>1, Holder DEF Grounded
<1> QED BY <1>1, <1>2, <1>3, <1>4, Bounds DEF MoveStep, Moving

LEMMA Moved ==
    ASSUME TypeInv, NEW r \in Requests, NEW next \in RequestStates, Moving(r, next)
    PROVE  /\ req' \in [Requests -> RequestStates]
           /\ \A q \in Requests : req'[q] = IF q = r THEN next ELSE req[q]
           /\ UNCHANGED <<record, alias, meant, clobbered, late, uses>>
           /\ UNCHANGED <<locks, lapsedLocks, tokens, lapsedTokens>>
BY Bounds DEF Moving, account, clock

LEMMA MoveKeepsTypes ==
    ASSUME TypeInv, NEW r \in Requests, MoveStep(r)
    PROVE  TypeInv'
<1>1. PICK next \in RequestStates : Moving(r, next)
  BY DEF MoveStep
<1>2. /\ req' \in [Requests -> RequestStates]
      /\ \A q \in Requests : req'[q] = IF q = r THEN next ELSE req[q]
      /\ UNCHANGED <<record, alias, meant, clobbered, late, uses>>
      /\ UNCHANGED <<locks, lapsedLocks, tokens, lapsedTokens>>
  BY <1>1, Moved
<1>3. TypeOK'
  BY <1>1, <1>2 DEF TypeInv, TypeOK, Moving
<1>4. ASSUME NEW q \in Requests PROVE Grounded(req[q])'
  <2>1. Grounded(req[q]) /\ Grounded(req[r])
    BY Holder
  <2>2. CASE q # r
    BY <1>2, <2>1, <2>2 DEF Grounded
  <2>3. CASE q = r
    <3>1. /\ next.at \in Holding =>
                next.copy \in Accounts /\ Sane(next.copy) /\ next.copy.reset <= tokens
          /\ next.at \in {"verify", "again"} => next.copy.lock = NoLock
      <4>1. CASE next.at \notin Holding
        BY <4>1 DEF Holding
      <4>2. CASE /\ next.copy = record /\ next.at # "again"
                 /\ next.at = "verify" => record.lock = NoLock
        BY <4>2, Holder DEF TypeInv
      <4>3. CASE /\ req[r].at \in Holding /\ next.at \notin {"verify", "again"}
                 /\ next.copy = req[r].copy
        BY <2>1, <4>3 DEF Grounded
      <4> QED BY <1>1, <4>1, <4>2, <4>3 DEF Moving, Reads
    <3> QED BY <1>1, <1>2, <2>3, <3>1 DEF Moving, Grounded
  <2> QED BY <2>2, <2>3
<1>5. \A t \in Tickets : tickets'[t] <= locks'
  <2>1. \A t \in Tickets : tickets[t] <= locks
    BY DEF TypeInv
  <2>2. req[r].asOf <= locks /\ Gone <= locks
    BY Holder, Bounds DEF Grounded, Gone
  <2> QED BY <1>1, <1>2, <2>1, <2>2 DEF Moving, Ticketing
<1>6. Sane(record)' /\ record'.reset <= tokens'
  BY <1>2 DEF TypeInv, Sane
<1> QED BY <1>3, <1>4, <1>5, <1>6 DEF TypeInv

LEMMA MoveKeepsFields ==
    ASSUME TypeInv, FieldsInv, NEW r \in Requests, MoveStep(r)
    PROVE  FieldsInv'
<1>1. PICK next \in RequestStates : Moving(r, next)
  BY DEF MoveStep
<1>2. /\ \A q \in Requests : req'[q] = IF q = r THEN next ELSE req[q]
      /\ UNCHANGED <<record, meant, clobbered>>
  BY <1>1, Moved
<1>3. FieldsHold'
  BY <1>2 DEF FieldsInv, FieldsHold
<1>4. ASSUME NEW q \in Requests PROVE Knows(req[q])'
  <2>1. Knows(req[q]) /\ FieldsHold
    BY DEF FieldsInv
  <2>2. CASE q # r
    BY <1>2, <2>1, <2>2 DEF Knows
  <2>3. CASE q = r
    BY <1>1, <1>2, <2>1, <2>3 DEF Knows, FieldsHold, Moving, Reads
  <2> QED BY <2>2, <2>3
<1> QED BY <1>3, <1>4 DEF FieldsInv

LEMMA MoveKeepsLock ==
    ASSUME TypeInv, FieldsInv, LockInv, NEW r \in Requests, MoveStep(r)
    PROVE  LockInv'
<1>1. PICK next \in RequestStates : Moving(r, next)
  BY DEF MoveStep
<1>2. /\ \A q \in Requests : req'[q] = IF q = r THEN next ELSE req[q]
      /\ UNCHANGED <<record, meant, clobbered, locks, lapsedLocks>>
  BY <1>1, Moved
<1>3. ASSUME meant.lock = locks, lapsedLocks < locks, "lock" \notin clobbered
      PROVE  /\ \A q \in Requests : req'[q].at \in LoginPlaces => req'[q].asOf < locks
             /\ \A t \in Tickets : tickets'[t] < locks
  <2>1. /\ \A q \in Requests : req[q].at \in LoginPlaces => req[q].asOf < locks
        /\ \A t \in Tickets : tickets[t] < locks
    BY <1>3 DEF LockInv
  <2>2. Locked
    BY <1>3 DEF FieldsInv, FieldsHold, Fields, Locked
  <2>3. next.at \in LoginPlaces => next.asOf < locks
    BY <1>1, <2>1, <2>2 DEF Moving, Enters
  <2>4. Gone < locks
    BY Bounds DEF Gone
  <2>5. \A t \in Tickets : tickets'[t] < locks
    BY <1>1, <2>1, <2>4 DEF Moving, Ticketing
  <2> QED BY <1>2, <2>1, <2>3, <2>5
<1> QED BY <1>2, <1>3 DEF LockInv

LEMMA MoveKeepsResets ==
    ASSUME TypeInv, ResetInv, NEW r \in Requests, MoveStep(r)
    PROVE  ResetInv'
<1>1. PICK next \in RequestStates : Moving(r, next)
  BY DEF MoveStep
<1>2. /\ \A q \in Requests : req'[q] = IF q = r THEN next ELSE req[q]
      /\ UNCHANGED <<record, late, uses, tokens>>
  BY <1>1, Moved
<1>3. ASSUME NEW q \in Requests, NEW t \in Tokens, req'[q].at \in Holding,
             "reset" \notin req'[q].missed, req'[q].copy.reset = t
      PROVE  Spare(t)
  BY <1>1, <1>2, <1>3 DEF ResetInv, Moving, Reads
<1> QED BY <1>2, <1>3 DEF ResetInv, ResetsCounted, Spare

-----------------------------------------------------------------------------
(* The invariant *)

Inv == TypeInv /\ FieldsInv /\ LockInv /\ ResetInv

LEMMA InvInit == Init => Inv
<1> SUFFICES ASSUME Init PROVE Inv
  OBVIOUS
<1>1. record \in Accounts /\ record.failed = 0 /\ record.lock = NoLock /\ record.reset = NoToken
  BY AccountsAssumption DEF Init, Seed, Accounts, NoLock, NoToken
<1>2. TypeOK
  BY <1>1, IdleState, AccountsAssumption DEF Init, TypeOK, Purposes
<1>3. /\ Idle.at \notin Holding /\ Idle.at \notin LoginPlaces
      /\ Idle.at \notin {"confirm", "confirmed", "verify", "again"} /\ Idle.asOf = 0
  BY DEF Idle, Holding, LoginPlaces
<1>4. TypeInv
  BY <1>1, <1>2, <1>3, AccountsAssumption DEF Init, TypeInv, Sane, Grounded, NoToken, Gone
<1>5. FieldsInv
  BY <1>3 DEF Init, FieldsInv, FieldsHold, Knows
<1>6. LockInv
  BY <1>1, <1>3 DEF Init, LockInv, NoLock
<1>7. ResetInv
  BY <1>1, <1>3 DEF Init, ResetInv, ResetsCounted, Spare, Tokens, NoToken
<1> QED BY <1>4, <1>5, <1>6, <1>7 DEF Inv

\* Time runs and what it ends is gone.
LEMMA TimeKeeps ==
    ASSUME Inv, Time
    PROVE  Inv'
<1>1. /\ UNCHANGED <<record, alias, meant, clobbered, late, uses, req, begun, minted>>
      /\ UNCHANGED <<locks, tokens>>
  BY DEF Time, LockExpires, TokenExpires, TicketExpires, CodeExpires, account, clock, codes
<1>2. /\ lapsedLocks' \in 0..locks /\ lapsedLocks <= lapsedLocks'
      /\ lapsedTokens' \in 0..tokens
  <2>1. /\ lapsedLocks \in 0..locks /\ lapsedTokens \in 0..tokens
        /\ locks \in Nat /\ tokens \in Nat
    BY Holder DEF Inv, TypeInv, TypeOK
  <2> QED
    BY <2>1 DEF Time, LockExpires, TokenExpires, TicketExpires, CodeExpires, clock
<1>3. \A t \in Tickets : tickets'[t] \in {tickets[t], Gone}
  BY Bounds DEF Inv, Time, LockExpires, TokenExpires, TicketExpires, CodeExpires, codes
<1>4. /\ tickets' \in [Tickets -> {Gone} \cup 0..MaxBegun]
      /\ otp' \in [Purposes -> 0..(MfaAttempts + VerifyAttempts)]
  BY Bounds, AccountsAssumption
     DEF Inv, Time, LockExpires, TokenExpires, TicketExpires, CodeExpires, codes
<1>5. TypeOK'
  BY <1>1, <1>2, <1>4 DEF Inv, TypeInv, TypeOK
<1>6. Gone < locks /\ Gone <= locks /\ locks \in Nat
  BY Bounds DEF Inv, Gone
<1>7. \A t \in Tickets : tickets'[t] <= locks
  BY <1>3, <1>6 DEF Inv, TypeInv
<1>8. TypeInv'
  BY <1>1, <1>5, <1>7 DEF Inv, TypeInv, Sane, Grounded
<1>9. FieldsInv'
  BY <1>1 DEF Inv, FieldsInv, FieldsHold, Knows
<1>10. LockInv'
  <2>1. lapsedLocks' < locks => lapsedLocks < locks
    BY <1>2, <1>6 DEF Inv, TypeInv, TypeOK
  <2> QED BY <1>1, <1>3, <1>6, <2>1 DEF Inv, LockInv
<1>11. ResetInv'
  BY <1>1 DEF Inv, ResetInv, ResetsCounted, Spare
<1> QED BY <1>8, <1>9, <1>10, <1>11 DEF Inv

LEMMA InvStep == Inv /\ [Next]_vars => Inv'
<1> SUFFICES ASSUME Inv, [Next]_vars PROVE Inv'
  OBVIOUS
<1> USE DEF Inv
<1>1. ASSUME NEW r \in Requests, StoreStep(r) PROVE Inv'
  BY <1>1, StoreKeepsTypes, StoreKeepsFields, StoreKeepsLock, StoreKeepsResets
<1>2. ASSUME NEW r \in Requests, MoveStep(r) PROVE Inv'
  BY <1>2, MoveKeepsTypes, MoveKeepsFields, MoveKeepsLock, MoveKeepsResets
<1>3. CASE UNCHANGED vars
  BY <1>3 DEF vars, account, clock, codes, TypeInv, TypeOK, Sane, Grounded, FieldsInv,
     FieldsHold, Knows, LockInv, ResetInv, ResetsCounted, Spare
<1> HIDE DEF Inv
<1>4. TypeInv
  BY DEF Inv
<1>5. ASSUME NEW r \in Requests, LoginSteps(r) PROVE Inv'
  <2>1. CASE LoginRefused(r)
    BY <1>3, <2>1 DEF LoginRefused
  <2>2. CASE BeginLogin(r)
    BY <1>2, <1>4, <2>2, MovesLogin
  <2>3. CASE RestoreStatus(r)
    BY <1>1, <1>4, <2>3, StoresRestored
  <2>4. CASE PasswordRight(r)
    BY <1>1, <1>4, <2>4, StoresRight
  <2>5. CASE PasswordWrong(r)
    BY <1>1, <1>4, <2>5, StoresWrong
  <2>6. CASE PasswordLocks(r)
    BY <1>1, <1>4, <2>6, StoresLock
  <2>7. CASE StoreAgain(r)
    BY <1>1, <1>4, <2>7, StoresSame
  <2>8. CASE MakeTicket(r)
    <3>1. /\ minted' \in 0..MaxBegun /\ "code" \in Places /\ req[r].at \in LoginPlaces
          /\ req[r].asOf \in 0..MaxBegun
          /\ otp' \in [Purposes -> 0..(MfaAttempts + VerifyAttempts)]
      BY <1>4, <2>8, Bounds, Holder DEF MakeTicket, Places, LoginPlaces, RequestStates
    <3>2. /\ tickets' \in [Tickets -> {Gone} \cup 0..MaxBegun]
          /\ \A t \in Tickets : tickets'[t] \in {tickets[t], req[r].asOf}
      BY <1>4, <2>8, <3>1, Bounds DEF MakeTicket
    <3> QED BY <1>2, <1>4, <2>8, <3>1, <3>2, MovesOn DEF MakeTicket, Ticketing
  <2>9. CASE SendCode(r)
    <3>1. otp' \in [Purposes -> 0..(MfaAttempts + VerifyAttempts)]
      BY <1>4, <2>9, CodeState DEF SendCode
    <3> QED BY <1>2, <1>4, <2>9, <3>1, MovesEnd DEF SendCode
  <2>10. CASE IssueTokens(r)
    <3>1. otp' \in [Purposes -> 0..(MfaAttempts + VerifyAttempts)]
      BY <1>4, <2>10, Bounds DEF IssueTokens, codes
    <3> QED BY <1>2, <1>4, <2>10, <3>1, MovesEnd DEF IssueTokens, codes
  <2> QED BY <1>5, <2>1, <2>2, <2>3, <2>4, <2>5, <2>6, <2>7, <2>8, <2>9, <2>10 DEF LoginSteps
<1>6. ASSUME NEW r \in Requests, CodeSteps(r) PROVE Inv'
  <2>1. ASSUME NEW t \in Tickets, BeginVerifyMFA(r, t) PROVE Inv'
    BY <1>2, <1>4, <2>1, MovesMfa
  <2>2. ASSUME NEW c \in Channels, RequestVerification(r, c) PROVE Inv'
    <3>1. otp' \in [Purposes -> 0..(MfaAttempts + VerifyAttempts)]
      BY <1>4, <2>2, CodeState DEF RequestVerification
    <3>2. req[r] \in RequestStates /\ Moving(r, req[r])
      <4>1. /\ req[r] \in RequestStates /\ req[r].at = "idle" /\ req[r].asOf <= locks
            /\ req' = [req EXCEPT ![r] = req[r]]
        BY <1>4, <2>2, Holder, Bounds DEF RequestVerification, Grounded
      <4> QED BY <1>4, <2>2, <3>1, <4>1, Bounds
          DEF RequestVerification, Moving, Reads, Enters, Ticketing, Holding, LoginPlaces
    <3> QED BY <1>2, <3>2 DEF MoveStep
  <2>3. ASSUME NEW c \in Channels, BeginConfirm(r, c) PROVE Inv'
    BY <1>2, <1>4, <2>3, MovesConfirm
  <2>4. CASE CodeRight(r)
    <3>1. /\ otp' \in [Purposes -> 0..(MfaAttempts + VerifyAttempts)]
          /\ minted' \in 0..MaxBegun /\ tickets' = tickets
      BY <1>4, <2>4, Bounds, CodeState DEF CodeRight
    <3> DEFINE place == IF req[r].at = "mfa" THEN "consume" ELSE "confirmed"
    <3>2. /\ place \in Places /\ Move(r, place)
          /\ \/ place \in {"code", "consume", "tokens"} /\ req[r].at \in LoginPlaces
             \/ place = "confirmed" /\ req[r].at = "confirm"
      BY <2>4 DEF CodeRight, Places, Holding, LoginPlaces
    <3> HIDE DEF place
    <3> QED BY <1>2, <1>4, <2>4, <3>1, <3>2, Bounds, MovesOn DEF CodeRight, Ticketing
  <2>5. CASE CodeWrong(r)
    <3>1. otp' \in [Purposes -> 0..(MfaAttempts + VerifyAttempts)]
      BY <1>4, <2>5, CodeState DEF CodeWrong
    <3> QED BY <1>2, <1>4, <2>5, <3>1, MovesEnd DEF CodeWrong
  <2>6. CASE ConsumeTicket(r)
    <3>1. /\ otp' \in [Purposes -> 0..(MfaAttempts + VerifyAttempts)]
          /\ minted' \in 0..MaxBegun
          /\ tickets' \in [Tickets -> {Gone} \cup 0..MaxBegun]
          /\ \A t \in Tickets : tickets'[t] \in {tickets[t], Gone}
          /\ "tokens" \in Places /\ req[r].at \in LoginPlaces
      BY <1>4, <2>6, Bounds DEF ConsumeTicket, Places, LoginPlaces
    <3> QED BY <1>2, <1>4, <2>6, <3>1, MovesOn DEF ConsumeTicket, Ticketing
  <2>7. CASE EndConfirm(r)
    BY <1>1, <1>4, <2>7, StoresConfirmed
  <2> QED BY <1>6, <2>1, <2>2, <2>3, <2>4, <2>5, <2>6, <2>7 DEF CodeSteps
<1>7. ASSUME NEW r \in Requests, ResetSteps(r) PROVE Inv'
  <2>1. CASE BeginForgot(r)
    BY <1>2, <1>4, <2>1, MovesReading DEF BeginForgot
  <2>2. CASE EndForgot(r)
    BY <1>1, <1>4, <2>2, StoresToken
  <2>3. CASE BeginReset(r)
    BY <1>2, <1>4, <2>3, MovesReading DEF BeginReset
  <2>4. CASE EndReset(r)
    BY <1>1, <1>4, <2>4, StoresPassword
  <2> QED BY <1>7, <2>1, <2>2, <2>3, <2>4 DEF ResetSteps
<1>8. CASE Time
  BY <1>8, TimeKeeps
<1> QED BY <1>3, <1>5, <1>6, <1>7, <1>8 DEF Next

-----------------------------------------------------------------------------
(* Theorems *)

LEMMA InvHolds == Spec => []Inv
<1>1. Inv /\ [Next]_vars => Inv'
  BY InvStep
<1> QED BY InvInit, <1>1, PTL DEF Spec

\* The variables keep their types: the count of failures of Login and
\* UpdateUser never passes the limit, whatever copies are written back.
THEOREM TypeCorrect == Spec => []TypeOK
<1>1. Inv => TypeOK
  BY DEF Inv, TypeInv
<1> QED BY <1>1, InvHolds, PTL

\* What a handler of the auth-service decides about a field is lost only to a
\* record that was read before it was decided and written after.
THEOREM DecisionsHold == Spec => []FieldsHold
<1>1. Inv => FieldsHold
  BY DEF Inv, FieldsInv
<1> QED BY <1>1, InvHolds, PTL

\* ResetPassword spends a token once, and once more for each store from a copy
\* that still had it when it was used or replaced.
THEOREM ResetsAreCounted == Spec => []ResetsCounted
<1>1. Inv => ResetsCounted
  BY DEF Inv, ResetInv
<1> QED BY <1>1, InvHolds, PTL

\* Login and VerifyMFA let nobody in who began under the lock in force, unless
\* the lock was overwritten from an old copy.
THEOREM LocksKeepOut == Spec => []NoEntryUnderLock
<1>1. Inv => NoEntryUnderLock
  <2> SUFFICES ASSUME Inv, NEW r \in Requests, req[r].at = "tokens", Locked,
                      "lock" \notin clobbered
               PROVE  req[r].asOf < record.lock
    BY DEF NoEntryUnderLock
  <2>1. record.lock = meant.lock
    BY DEF Inv, FieldsInv, FieldsHold, Fields
  <2>2. lapsedLocks \in Nat
    BY Holder DEF Inv, TypeInv, TypeOK
  <2>3. record.lock = locks /\ lapsedLocks < locks
    BY <2>1, <2>2 DEF Inv, LockInv, Locked, NoLock
  <2> QED BY <2>1, <2>3 DEF Inv, LockInv, LoginPlaces
<1> QED BY <1>1, InvHolds, PTL

-----------------------------------------------------------------------------
(***************************************************************************)
(* The tenants: what requests that overlap find of a tenant that is being  *)
(* shredded.                                                               *)
(***************************************************************************)
\* What a request that is not idle is about, and how far a shredding has come.
RequestsFit ==
    \A r \in Requests :
        LET t == tenReq[r].tenant IN
        /\ tenReq[r].at = "idle" => tenReq[r] = Vault!Idle
        /\ tenReq[r].at # "idle" => t \in present \cup deleted
        /\ tenReq[r].at \in {"zero", "delete"} => tenReq[r].goal = "TERMINATED"
        /\ tenReq[r].at # "zero" /\ tenReq[r].goal = "TERMINATED" => t \in zeroed

\* Tenants that no two requests were busy with at once have one at most; its
\* shredding finds the key as it was and leaves the status it gave.
OneAtATime ==
    \A t \in Companies \ collided, r \in Requests : tenReq[r].tenant = t =>
        /\ \A other \in Requests : tenReq[other].tenant = t => other = r
        /\ tenReq[r].at = "zero" => t \notin zeroed
        /\ tenReq[r].at = "delete" => t \notin present \/ status[t] = "TERMINATED"

\* Identifiers are not used again, and neither is a key that is gone.
NothingReturns ==
    /\ zeroed \subseteq present \cup deleted
    /\ \A t \in Companies : status[t] = "TERMINATED" => t \in zeroed
    /\ \A t, u \in present : t # u => domain[t] # domain[u]

VaultInv ==
    /\ Vault!TypeOK
    /\ Vault!NoTenantWithoutKey
    /\ RequestsFit
    /\ OneAtATime
    /\ NothingReturns

LEMMA VaultInit == Vault!Init => VaultInv
  BY IdentityAssumption
     DEF Vault!Init, VaultInv, Vault!TypeOK, Vault!NoTenantWithoutKey, RequestsFit, OneAtATime,
     NothingReturns, Vault!Idle, Vault!VaultAssumption

LEMMA ProvisionKeeps ==
    ASSUME VaultInv, NEW t \in Companies, NEW d \in Domains, Vault!ProvisionTenant(t, d)
    PROVE  VaultInv'
  BY IdentityAssumption
     DEF Vault!ProvisionTenant, VaultInv, Vault!TypeOK, Vault!NoTenantWithoutKey,
     Vault!Shredding,
     RequestsFit, OneAtATime, NothingReturns, Vault!VaultAssumption, Vault!Idle

\* The three requests that read a tenant.
LEMMA LookupKeeps ==
    ASSUME VaultInv, NEW r \in Requests, NEW t \in Companies, NEW place, NEW goal,
           \/ place = "update" /\ goal \in {"ACTIVE", "SUSPENDED"}
           \/ place = "zero" /\ goal = "TERMINATED",
           Vault!Begin(r, t, place, goal)
    PROVE  VaultInv'
  <1>1. /\ tenReq[r] = Vault!Idle /\ t \in present /\ t # NoTenant
        /\ tenReq' = [tenReq EXCEPT ![r] = [at |-> place, tenant |-> t, goal |-> goal]]
        /\ tenReq'[r] = [at |-> place, tenant |-> t, goal |-> goal]
        /\ \A s \in Requests \ {r} : tenReq'[s] = tenReq[s]
        /\ collided \subseteq collided'
        /\ t \notin collided' => ~Vault!Busy(t)
        /\ UNCHANGED <<present, domain, status, zeroed, deleted>>
    BY IdentityAssumption
       DEF Vault!Begin, VaultInv, Vault!TypeOK, RequestsFit, Vault!VaultAssumption, Vault!Idle
  <1>2. Vault!TypeOK'
    BY <1>1, IdentityAssumption DEF VaultInv, Vault!TypeOK, Vault!Begin, Vault!VaultAssumption
  <1>3. Vault!NoTenantWithoutKey'
    <2>1. \A u \in Companies : Vault!Shredding(u) => Vault!Shredding(u)'
      BY <1>1 DEF Vault!Shredding, Vault!Idle
    <2> QED BY <1>1, <2>1 DEF VaultInv, Vault!NoTenantWithoutKey, Vault!TypeOK
  <1>4. RequestsFit'
    BY <1>1 DEF VaultInv, RequestsFit, Vault!Idle
  <1>5. OneAtATime'
    BY <1>1 DEF VaultInv, OneAtATime, Vault!NoTenantWithoutKey, Vault!Shredding, Vault!Busy,
       Vault!Idle
  <1>6. NothingReturns'
    BY <1>1 DEF VaultInv, NothingReturns
  <1> QED BY <1>2, <1>3, <1>4, <1>5, <1>6 DEF VaultInv

LEMMA ZeroKeyKeeps ==
    ASSUME VaultInv, NEW r \in Requests, Vault!ZeroKey(r)
    PROVE  VaultInv'
  <1> DEFINE t == tenReq[r].tenant
  <1>1. /\ tenReq[r].at = "zero" /\ tenReq[r].goal = "TERMINATED" /\ t \in present \cup deleted
        /\ tenReq'[r] = [at |-> "update", tenant |-> t, goal |-> "TERMINATED"]
        /\ \A s \in Requests \ {r} : tenReq'[s] = tenReq[s]
        /\ zeroed' = zeroed \cup {t}
        /\ UNCHANGED <<present, domain, status, tenBegun, deleted, collided>>
    BY DEF Vault!ZeroKey, Vault!Goto, VaultInv, Vault!TypeOK, RequestsFit
  <1>2. Vault!TypeOK'
    BY <1>1 DEF VaultInv, Vault!TypeOK, Vault!ZeroKey, Vault!Goto
  <1>3. Vault!NoTenantWithoutKey'
    BY <1>1 DEF VaultInv, Vault!NoTenantWithoutKey, Vault!Shredding
  <1>4. RequestsFit'
    BY <1>1 DEF VaultInv, RequestsFit, Vault!Idle
  <1>5. OneAtATime'
    BY <1>1 DEF VaultInv, OneAtATime
  <1>6. NothingReturns'
    BY <1>1 DEF VaultInv, NothingReturns
  <1> QED BY <1>2, <1>3, <1>4, <1>5, <1>6 DEF VaultInv

LEMMA VaultUpdateKeeps ==
    ASSUME VaultInv, NEW r \in Requests, Vault!Update(r)
    PROVE  VaultInv'
  <1> DEFINE t == tenReq[r].tenant
  <1>1. /\ tenReq[r].at = "update" /\ t \in present \cup deleted
        /\ \A s \in Requests \ {r} : tenReq'[s] = tenReq[s]
        /\ UNCHANGED <<present, domain, zeroed, tenBegun, deleted, collided>>
    BY DEF Vault!Update, Vault!Goto, Vault!End, VaultInv, Vault!TypeOK, RequestsFit
  <1>2. CASE t \notin present
    <2>1. tenReq'[r] = Vault!Idle /\ status' = status
      BY <1>1, <1>2 DEF Vault!Update, Vault!End, VaultInv, Vault!TypeOK
    <2>2. Vault!TypeOK'
      BY <1>1, <1>2, IdentityAssumption
         DEF VaultInv, Vault!TypeOK, Vault!Update, Vault!End, Vault!Idle, Vault!VaultAssumption
    <2>3. Vault!NoTenantWithoutKey'
      <3>1. \A u \in present : Vault!Shredding(u) => Vault!Shredding(u)'
        BY <1>1, <1>2 DEF Vault!Shredding
      <3> QED BY <1>1, <3>1 DEF VaultInv, Vault!NoTenantWithoutKey
    <2>4. RequestsFit'
      BY <1>1, <2>1 DEF VaultInv, RequestsFit, Vault!Idle
    <2>5. OneAtATime'
      BY <1>1, <2>1, IdentityAssumption
         DEF VaultInv, OneAtATime, Vault!Idle, Vault!VaultAssumption
    <2>6. NothingReturns'
      BY <1>1, <2>1 DEF VaultInv, NothingReturns
    <2> QED BY <2>2, <2>3, <2>4, <2>5, <2>6 DEF VaultInv
  <1>3. CASE t \in present /\ tenReq[r].goal = "TERMINATED"
    <2>1. /\ tenReq'[r] = [at |-> "delete", tenant |-> t, goal |-> "TERMINATED"]
          /\ status' = [status EXCEPT ![t] = "TERMINATED"]
          /\ t \in Companies /\ t \in zeroed
      BY <1>1, <1>3 DEF Vault!Update, Vault!Goto, VaultInv, Vault!TypeOK, RequestsFit
    <2>2. Vault!TypeOK'
      BY <1>1, <1>3, <2>1 DEF VaultInv, Vault!TypeOK, Vault!Update, Vault!Goto
    <2>3. Vault!NoTenantWithoutKey'
      BY <1>1, <1>3, <2>1 DEF VaultInv, Vault!NoTenantWithoutKey, Vault!Shredding
    <2>4. RequestsFit'
      BY <1>1, <1>3, <2>1 DEF VaultInv, RequestsFit, Vault!Idle
    <2>5. OneAtATime'
      BY <1>1, <2>1 DEF VaultInv, OneAtATime, Vault!TypeOK
    <2>6. NothingReturns'
      BY <1>1, <2>1 DEF VaultInv, NothingReturns, Vault!TypeOK
    <2> QED BY <2>2, <2>3, <2>4, <2>5, <2>6 DEF VaultInv
  <1>4. CASE t \in present /\ tenReq[r].goal # "TERMINATED"
    <2>1. /\ tenReq'[r] = Vault!Idle
          /\ status' = [status EXCEPT ![t] = tenReq[r].goal]
          /\ t \in Companies /\ tenReq[r].goal \in {"ACTIVE", "SUSPENDED"}
      BY <1>1, <1>4 DEF Vault!Update, Vault!End, VaultInv, Vault!TypeOK
    <2>2. Vault!TypeOK'
      BY <1>1, <1>4, <2>1, IdentityAssumption
         DEF VaultInv, Vault!TypeOK, Vault!Update, Vault!End, Vault!Idle, Vault!VaultAssumption
    <2>3. Vault!NoTenantWithoutKey'
      <3>1. \A u \in present : Vault!Shredding(u) => Vault!Shredding(u)'
        BY <1>1, <1>4 DEF Vault!Shredding
      <3> QED BY <1>1, <3>1 DEF VaultInv, Vault!NoTenantWithoutKey
    <2>4. RequestsFit'
      BY <1>1, <2>1 DEF VaultInv, RequestsFit, Vault!Idle
    <2>5. OneAtATime'
      BY <1>1, <2>1, IdentityAssumption
         DEF VaultInv, OneAtATime, Vault!Idle, Vault!VaultAssumption, Vault!TypeOK
    <2>6. NothingReturns'
      BY <1>1, <2>1 DEF VaultInv, NothingReturns, Vault!TypeOK
    <2> QED BY <2>2, <2>3, <2>4, <2>5, <2>6 DEF VaultInv
  <1> QED BY <1>2, <1>3, <1>4

LEMMA VaultDeleteKeeps ==
    ASSUME VaultInv, NEW r \in Requests, Vault!Delete(r)
    PROVE  VaultInv'
  <1> DEFINE t == tenReq[r].tenant
  <1>1. /\ tenReq[r].at = "delete" /\ t \in present \cup deleted /\ t \in zeroed
        /\ \A s \in Requests \ {r} : tenReq'[s] = tenReq[s]
        /\ tenReq'[r] = Vault!Idle
        /\ present' = present \ {t} /\ deleted' = deleted \cup {t}
        /\ UNCHANGED <<domain, status, zeroed, tenBegun, collided>>
    BY DEF Vault!Delete, Vault!End, VaultInv, Vault!TypeOK, RequestsFit
  <1>2. Vault!TypeOK'
    BY <1>1, IdentityAssumption
       DEF VaultInv, Vault!TypeOK, Vault!Delete, Vault!End, Vault!Idle, Vault!VaultAssumption
  <1>3. Vault!NoTenantWithoutKey'
    <2>1. \A u \in present' : Vault!Shredding(u) => Vault!Shredding(u)'
      BY <1>1 DEF Vault!Shredding
    <2> QED BY <1>1, <2>1 DEF VaultInv, Vault!NoTenantWithoutKey
  <1>4. RequestsFit'
    BY <1>1 DEF VaultInv, RequestsFit, Vault!Idle
  <1>5. OneAtATime'
    BY <1>1, IdentityAssumption DEF VaultInv, OneAtATime, Vault!Idle, Vault!VaultAssumption
  <1>6. NothingReturns'
    BY <1>1 DEF VaultInv, NothingReturns
  <1> QED BY <1>2, <1>3, <1>4, <1>5, <1>6 DEF VaultInv

\* Whatever suspensions, reactivations and shreddings overlap: a tenant does
\* not outlive its key, and TERMINATED is seen while it is being shredded
\* (tenant_service.go:92-150).
THEOREM TenantsStaySound == Vault!Spec => []TenantsAreSound
  <1>1. VaultInv /\ [Vault!Next]_(Vault!vars) => VaultInv'
    <2>1. VaultInv /\ UNCHANGED Vault!vars => VaultInv'
      BY DEF Vault!vars, VaultInv, Vault!TypeOK, Vault!NoTenantWithoutKey, Vault!Shredding,
         RequestsFit,
         OneAtATime, NothingReturns
    <2> QED BY <2>1, ProvisionKeeps, LookupKeeps, ZeroKeyKeeps, VaultUpdateKeeps,
       VaultDeleteKeeps
       DEF Vault!Next, Vault!SuspendTenant, Vault!ReactivateTenant, Vault!CryptoShredTenant
  <1>2. VaultInv => Vault!TerminatedIsPassing
    <2> SUFFICES ASSUME VaultInv,
                        NEW t \in present \ collided, t \in zeroed, status[t] # "TERMINATED"
                 PROVE  \E r \in Requests : tenReq[r].tenant = t /\ tenReq[r].at = "update"
      BY DEF VaultInv, NothingReturns, Vault!TerminatedIsPassing, Vault!TypeOK
    <2>1. PICK r \in Requests : tenReq[r].tenant = t /\ tenReq[r].goal = "TERMINATED"
      BY DEF VaultInv, Vault!NoTenantWithoutKey, Vault!Shredding
    <2> QED BY <2>1 DEF VaultInv, OneAtATime, Vault!TypeOK, RequestsFit, Vault!Idle
  <1> QED BY VaultInit, <1>1, <1>2, PTL DEF Vault!Spec, VaultInv, TenantsAreSound

-----------------------------------------------------------------------------
(***************************************************************************)
(* The members: an invitation or a workspace that no two requests held at  *)
(* once is as its only holder found it.                                    *)
(***************************************************************************)
Verdicts == {"expire", "accept", "revoke"}

RequestType ==
    [at : {"idle", "expire", "accept", "revoke", "enrol", "save"},
     of : Invitations \cup {NoInvitation}, user : Users,
     space : Workspaces \cup {NoWorkspace}, status : Members!SpaceStatuses,
     given : BOOLEAN]

\* A request that is not idle holds the copy of one thing; one that enrols does
\* so for a team, and one that saves for a workspace that was stored.
HoldFits(r) ==
    /\ orgReq[r].at = "idle" => orgReq[r] = Members!Idle
    /\ orgReq[r].at \in Verdicts \cup {"enrol"} =>
           orgReq[r].of \in Invitations /\ orgReq[r].space = NoWorkspace
    /\ orgReq[r].at = "enrol" =>
           invitation[orgReq[r].of].status # "none" /\ invitation[orgReq[r].of].team \in Teams
    /\ orgReq[r].at = "save" =>
           /\ orgReq[r].of = NoInvitation /\ orgReq[r].space \in Workspaces
           /\ orgReq[r].status # "none"
           /\ workspaces[orgReq[r].space] # "none" \/ orgReq[r].space \in removed

HoldsFit == \A r \in Requests : HoldFits(r)

\* What no two requests ever held at once one holds at most.
OneHolder ==
    \A r, other \in Requests :
        /\ orgReq[r].of \in Invitations \ crossed /\ orgReq[other].of = orgReq[r].of => other = r
        /\ orgReq[r].space \in Workspaces \ crossed /\ orgReq[other].space = orgReq[r].space
             => other = r

\* What an invitation says, what its holder may still do to it and whom it has
\* let in fit, if no two requests ever held it at once.
InvitationFits(i) ==
    /\ invitation[i].status # "ACCEPTED" => came[i] = {}
    /\ came[i] = {} \/ \E u \in Users : came[i] = {u}
    /\ invitation[i].status = "EXPIRED" => i \in due
    /\ \A r \in Requests : orgReq[r].of = i =>
         /\ orgReq[r].at \in Verdicts => invitation[i].status = "PENDING"
         /\ orgReq[r].at = "expire" => i \in due
         /\ orgReq[r].at = "enrol" =>
              invitation[i].status = "ACCEPTED" /\ came[i] = {}
    /\ invitation[i].status = "ACCEPTED" /\ invitation[i].team # NoTeam
         /\ came[i] = {} =>
           \E r \in Requests : orgReq[r].of = i /\ orgReq[r].at = "enrol"

\* The workspace is as it was wanted; an update that was given no status
\* stores the one it read, which is still the one wanted.
WorkspaceFits(w) ==
    /\ workspaces[w] = wanted[w]
    /\ \A r \in Requests : orgReq[r].space = w /\ orgReq[r].at = "save" /\ ~orgReq[r].given =>
           orgReq[r].status = wanted[w]

InvitationsFit == \A i \in Invitations \ crossed : InvitationFits(i)
SpacesFit ==
    /\ \A w \in Workspaces \ (crossed \cup removed) : WorkspaceFits(w)
    /\ \A w \in removed : workspaces[w] = "none"

MembershipInv == Members!TypeOK /\ HoldsFit /\ OneHolder /\ InvitationsFit /\ SpacesFit

LEMMA MembershipInit == Members!Init => MembershipInv
  BY IdentityAssumption
     DEF Members!Init, MembershipInv, Members!TypeOK, HoldsFit, HoldFits, OneHolder,
     InvitationsFit, SpacesFit, Members!Idle,
     InvitationFits, WorkspaceFits, Members!NotSent, Verdicts, Members!MembershipAssumption,
     Members!Statuses,
     Members!SpaceStatuses

\* Steps of one call keep what the requests hold.
LEMMA CallsKeep ==
    ASSUME MembershipInv,
           \/ \E t \in Teams : Members!CreateTeam(t)
           \/ \E t \in Teams, u \in Users :
               Members!AddTeamMember(t, u) \/ Members!RemoveTeamMember(t, u)
           \/ \E i \in Invitations : \/ Members!Expire(i)
                                     \/ \E t \in Teams \cup {NoTeam} : Members!InviteUser(i, t)
           \/ \E w \in Workspaces : Members!CreateWorkspace(w) \/ Members!DeleteWorkspace(w)
    PROVE  MembershipInv'
  <1>1. ASSUME NEW t \in Teams,
               \/ Members!CreateTeam(t)
               \/ \E u \in Users : Members!AddTeamMember(t, u) \/ Members!RemoveTeamMember(t, u)
        PROVE  MembershipInv'
    <2>1. /\ teams' \subseteq Teams /\ members' \subseteq Teams \X Users
          /\ orgBegun' \in 0..MaxChanges
      <3>1. orgBegun' \in 0..MaxChanges
        <4>1. Members!Counted
          BY <1>1 DEF Members!CreateTeam, Members!AddTeamMember, Members!RemoveTeamMember
        <4> QED BY <4>1, IdentityAssumption
           DEF Members!Counted, MembershipInv, Members!TypeOK, Members!MembershipAssumption
      <3>2. CASE Members!CreateTeam(t)
        BY <3>1, <3>2 DEF Members!CreateTeam, MembershipInv, Members!TypeOK
      <3>3. ASSUME NEW u \in Users, Members!AddTeamMember(t, u) \/ Members!RemoveTeamMember(t, u)
            PROVE  teams' \subseteq Teams /\ members' \subseteq Teams \X Users
        <4>1. members' = members \cup {<<t, u>>} \/ members' = members \ {<<t, u>>}
          BY <3>3 DEF Members!AddTeamMember, Members!RemoveTeamMember
        <4>2. <<t, u>> \in Teams \X Users
          OBVIOUS
        <4> QED BY <3>3, <4>1, <4>2
            DEF Members!AddTeamMember, Members!RemoveTeamMember, MembershipInv, Members!TypeOK
      <3> QED BY <1>1, <3>1, <3>2, <3>3
    <2>2. UNCHANGED <<invitation, due, workspaces, orgReq, came, crossed, removed, wanted>>
      BY <1>1 DEF Members!CreateTeam, Members!AddTeamMember, Members!RemoveTeamMember
    <2> QED BY <2>1, <2>2 DEF MembershipInv, Members!TypeOK, HoldsFit, HoldFits, OneHolder,
        InvitationsFit, SpacesFit, InvitationFits, WorkspaceFits
  <1>2. ASSUME NEW i \in Invitations, Members!Expire(i)
        PROVE  MembershipInv'
    BY <1>2 DEF Members!Expire, MembershipInv, Members!TypeOK, HoldsFit, HoldFits, OneHolder,
       InvitationsFit, SpacesFit,
       InvitationFits, WorkspaceFits
  <1>3. ASSUME NEW i \in Invitations, NEW t \in Teams \cup {NoTeam}, Members!InviteUser(i, t)
        PROVE  MembershipInv'
    <2>1. /\ invitation[i].status = "none"
          /\ invitation'[i] = [team |-> t, status |-> "PENDING"]
          /\ \A j \in Invitations \ {i} : invitation'[j] = invitation[j]
          /\ UNCHANGED <<teams, members, due, workspaces, orgReq, came, crossed, removed,
                         wanted>>
      BY <1>3 DEF Members!InviteUser, MembershipInv, Members!TypeOK
    <2>2. Members!TypeOK'
      BY <1>3, IdentityAssumption
         DEF Members!InviteUser, Members!Counted, MembershipInv, Members!TypeOK,
         Members!Statuses,
         Members!MembershipAssumption
    <2>3. HoldsFit' /\ OneHolder' /\ SpacesFit'
      BY <2>1 DEF MembershipInv, HoldsFit, HoldFits, OneHolder, SpacesFit, WorkspaceFits
    <2>4. InvitationsFit'
      BY <2>1 DEF MembershipInv, InvitationsFit, InvitationFits
    <2> QED BY <2>2, <2>3, <2>4 DEF MembershipInv
  <1>4. ASSUME NEW w \in Workspaces, Members!CreateWorkspace(w) \/ Members!DeleteWorkspace(w)
        PROVE  MembershipInv'
    <2>1. /\ \/ /\ workspaces[w] = "none" /\ w \notin removed
                /\ workspaces'[w] = "ACTIVE" /\ wanted'[w] = "ACTIVE"
                /\ removed' = removed
             \/ workspaces'[w] = "none" /\ removed' = removed \cup {w}
          /\ \A x \in Workspaces \ {w} :
                 workspaces'[x] = workspaces[x] /\ wanted'[x] = wanted[x]
          /\ UNCHANGED <<teams, members, invitation, due, orgReq, came, crossed>>
      BY <1>4
         DEF Members!CreateWorkspace, Members!DeleteWorkspace, MembershipInv, Members!TypeOK
    <2>2. Members!TypeOK'
      BY <1>4, IdentityAssumption
         DEF Members!CreateWorkspace, Members!DeleteWorkspace, Members!Counted, MembershipInv,
         Members!TypeOK, Members!SpaceStatuses, Members!MembershipAssumption
    <2>3. HoldsFit' /\ OneHolder'
      BY <2>1 DEF MembershipInv, HoldsFit, HoldFits, OneHolder
    <2>4. InvitationsFit'
      BY <2>1 DEF MembershipInv, InvitationsFit, InvitationFits
    <2>5. SpacesFit'
      BY <2>1 DEF MembershipInv, SpacesFit, WorkspaceFits, HoldsFit, HoldFits, Members!TypeOK
    <2> QED BY <2>2, <2>3, <2>4, <2>5 DEF MembershipInv
  <1> QED BY <1>1, <1>2, <1>3, <1>4

\* A request reads an invitation that is pending.
LEMMA JudgingKeeps ==
    ASSUME MembershipInv, NEW r \in Requests, NEW i \in Invitations,
           Members!RevokeInvitation(r, i) \/ \E u \in Users : Members!AcceptInvitation(r, i, u)
    PROVE  MembershipInv'
  <1>1. PICK copy \in RequestType :
          /\ Members!Hold(r, i, copy)
          /\ copy.of = i /\ copy.space = NoWorkspace /\ copy.at \in Verdicts
          /\ copy.at = "expire" => i \in due
          /\ invitation[i].status = "PENDING"
    BY IdentityAssumption
       DEF Members!RevokeInvitation, Members!AcceptInvitation, Verdicts, RequestType,
       Members!Idle,
       Members!MembershipAssumption, Members!SpaceStatuses
  <1>2. /\ orgReq' = [orgReq EXCEPT ![r] = copy] /\ orgReq'[r] = copy
        /\ \A s \in Requests \ {r} : orgReq'[s] = orgReq[s]
        /\ orgReq[r] = Members!Idle
        /\ crossed \subseteq crossed'
        /\ i \notin crossed' => \A s \in Requests : orgReq[s].of # i
        /\ UNCHANGED <<teams, members, invitation, due, workspaces, came, removed, wanted>>
    BY <1>1
       DEF Members!Hold, Members!Holding, MembershipInv, Members!TypeOK, HoldsFit, HoldFits,
       Members!Idle
  <1>3. Members!TypeOK'
    <2>1. crossed' \subseteq Invitations \cup Workspaces /\ orgBegun' \in 0..MaxChanges
      BY <1>1, IdentityAssumption
         DEF Members!Hold, Members!Counted, MembershipInv, Members!TypeOK,
         Members!MembershipAssumption
    <2> QED BY <1>1, <1>2, <2>1 DEF RequestType, MembershipInv, Members!TypeOK
  <1>4. HoldsFit' /\ OneHolder'
    <2>1. HoldFits(r)'
      BY <1>1, <1>2, IdentityAssumption DEF HoldFits, Verdicts, Members!MembershipAssumption
    <2>2. \A s \in Requests \ {r} : HoldFits(s)'
      BY <1>2 DEF MembershipInv, HoldsFit, HoldFits
    <2>3. OneHolder'
      BY <1>1, <1>2, IdentityAssumption
         DEF MembershipInv, OneHolder, Members!MembershipAssumption
    <2> QED BY <2>1, <2>2, <2>3 DEF HoldsFit
  <1>5. InvitationsFit'
    <2> SUFFICES ASSUME NEW j \in Invitations \ crossed'
                 PROVE  InvitationFits(j)'
      BY <1>2 DEF InvitationsFit
    <2>1. InvitationFits(j)
      BY <1>2 DEF MembershipInv, InvitationsFit
    <2> QED BY <1>1, <1>2, <2>1, IdentityAssumption
        DEF InvitationFits, Verdicts, Members!Idle, Members!MembershipAssumption
  <1>6. SpacesFit'
    BY <1>1, <1>2 DEF MembershipInv, SpacesFit, WorkspaceFits, Verdicts
  <1> QED BY <1>3, <1>4, <1>5, <1>6 DEF MembershipInv

LEMMA UpdateInvitationKeeps ==
    ASSUME MembershipInv, NEW r \in Requests, Members!UpdateInvitation(r)
    PROVE  MembershipInv'
  <1>1. PICK i \in Invitations, at \in Verdicts : orgReq[r].of = i /\ orgReq[r].at = at
    BY DEF Members!UpdateInvitation, Verdicts, MembershipInv, HoldsFit, HoldFits
  <1>2. PICK new \in {"EXPIRED", "ACCEPTED", "REVOKED"} :
          /\ new = "EXPIRED" => at = "expire"
          /\ invitation' = [invitation EXCEPT ![i].status = new]
          /\ IF new = "ACCEPTED" /\ invitation[i].team # NoTeam
             THEN orgReq' = [orgReq EXCEPT ![r].at = "enrol"] ELSE Members!End(r)
    BY <1>1 DEF Members!UpdateInvitation, Verdicts
  <1>3. /\ invitation'[i].status = new /\ invitation'[i].team = invitation[i].team
        /\ \A j \in Invitations \ {i} : invitation'[j] = invitation[j]
        /\ \A s \in Requests \ {r} : orgReq'[s] = orgReq[s]
        /\ UNCHANGED <<teams, members, due, workspaces, came, crossed, removed, wanted>>
    BY <1>1, <1>2 DEF Members!UpdateInvitation, Members!End, MembershipInv, Members!TypeOK
  <1>4. IF new = "ACCEPTED" /\ invitation[i].team # NoTeam
        THEN /\ orgReq'[r].at = "enrol" /\ orgReq'[r].of = i
             /\ orgReq'[r].space = NoWorkspace
        ELSE orgReq'[r] = Members!Idle
    BY <1>1, <1>2 DEF Members!End, MembershipInv, Members!TypeOK, HoldsFit, HoldFits
  <1>5. Members!TypeOK'
    <2>1. invitation' \in [Invitations -> [team : Teams \cup {NoTeam}, status : Members!Statuses]]
      BY <1>1, <1>2 DEF MembershipInv, Members!TypeOK, Members!Statuses
    <2>2. CASE orgReq' = [orgReq EXCEPT ![r].at = "enrol"]
      <3>1. orgReq' \in [Requests -> RequestType]
        BY <2>2 DEF RequestType, MembershipInv, Members!TypeOK
      <3> QED BY <1>3, <2>1, <3>1
         DEF RequestType, Members!UpdateInvitation, MembershipInv, Members!TypeOK
    <2>3. CASE Members!End(r)
      <3>1. Members!Idle \in RequestType
        BY IdentityAssumption
           DEF Members!Idle, RequestType, Members!SpaceStatuses, Members!MembershipAssumption
      <3>2. orgReq' \in [Requests -> RequestType]
        BY <2>3, <3>1 DEF Members!End, RequestType, MembershipInv, Members!TypeOK
      <3> QED BY <1>3, <2>1, <3>2
         DEF RequestType, Members!UpdateInvitation, MembershipInv, Members!TypeOK
    <2> QED BY <1>2, <2>2, <2>3
  <1>6. HoldsFit' /\ OneHolder'
    <2>1. HoldFits(r)'
      BY <1>1, <1>2, <1>3, <1>4, IdentityAssumption
         DEF HoldFits, Verdicts, Members!Idle, Members!MembershipAssumption, MembershipInv,
            Members!TypeOK
    <2>2. \A s \in Requests \ {r} : HoldFits(s)'
      BY <1>1, <1>2, <1>3 DEF MembershipInv, HoldsFit, HoldFits, Verdicts
    <2>3. OneHolder'
      BY <1>1, <1>3, <1>4, IdentityAssumption
         DEF MembershipInv, OneHolder, Members!Idle, Members!MembershipAssumption
    <2> QED BY <2>1, <2>2, <2>3 DEF HoldsFit
  <1>7. InvitationsFit'
    <2> SUFFICES ASSUME NEW j \in Invitations \ crossed
                 PROVE  InvitationFits(j)'
      BY <1>3 DEF InvitationsFit
    <2>1. InvitationFits(j)
      BY DEF MembershipInv, InvitationsFit
    <2>2. CASE j # i
      <3>1. /\ invitation'[j] = invitation[j] /\ came'[j] = came[j] /\ due' = due
            /\ \A s \in Requests : orgReq'[s].of = j \/ orgReq[s].of = j => orgReq'[s] = orgReq[s]
        BY <1>1, <1>3, <1>4, <2>2, IdentityAssumption
           DEF Members!Idle, Members!MembershipAssumption
      <3> QED BY <2>1, <3>1 DEF InvitationFits
    <2>3. CASE j = i
      <3>1. \A s \in Requests : orgReq[s].of = i => s = r
        BY <1>1, <2>3 DEF MembershipInv, OneHolder
      <3>2. came[i] = {}
        BY <1>1, <2>1, <2>3 DEF InvitationFits
      <3>3. at = "expire" => i \in due
        BY <1>1, <2>1, <2>3 DEF InvitationFits
      <3>4. \A s \in Requests : orgReq'[s].of = i => s = r /\ orgReq'[s].at = "enrol"
        BY <1>3, <1>4, <3>1, IdentityAssumption DEF Members!Idle, Members!MembershipAssumption
      <3> QED BY <1>1, <1>2, <1>3, <1>4, <2>3, <3>1, <3>2, <3>3, <3>4
          DEF InvitationFits, Verdicts, Members!Idle
    <2> QED BY <2>2, <2>3
  <1>8. SpacesFit'
    BY <1>1, <1>3, <1>4
       DEF MembershipInv, SpacesFit, WorkspaceFits, Members!Idle, Verdicts, Members!TypeOK
  <1> QED BY <1>5, <1>6, <1>7, <1>8 DEF MembershipInv

LEMMA EnrolKeeps ==
    ASSUME MembershipInv, NEW r \in Requests, Members!Enrol(r)
    PROVE  MembershipInv'
  <1>1. PICK i \in Invitations : orgReq[r].of = i /\ orgReq[r].at = "enrol"
    BY DEF Members!Enrol, MembershipInv, HoldsFit, HoldFits
  <1>2. /\ came'[i] = came[i] \cup {orgReq[r].user} /\ orgReq[r].user \in Users
        /\ \A j \in Invitations \ {i} : came'[j] = came[j]
        /\ orgReq'[r] = Members!Idle
        /\ \A s \in Requests \ {r} : orgReq'[s] = orgReq[s]
        /\ UNCHANGED <<teams, invitation, due, workspaces, orgBegun, crossed, removed, wanted>>
    BY <1>1 DEF Members!Enrol, Members!End, MembershipInv, Members!TypeOK
  <1>3. Members!TypeOK'
    <2>1. came' \in [Invitations -> SUBSET Users]
      BY <1>1, <1>2 DEF Members!Enrol, MembershipInv, Members!TypeOK
    <2>2. orgReq' \in [Requests -> RequestType]
      BY IdentityAssumption
         DEF Members!Enrol, Members!End, Members!Idle, RequestType, MembershipInv,
         Members!TypeOK, Members!SpaceStatuses,
         Members!MembershipAssumption
    <2>3. members' \subseteq Teams \X Users
      BY <1>1, <1>2 DEF Members!Enrol, MembershipInv, Members!TypeOK, HoldsFit, HoldFits
    <2> QED BY <1>2, <2>1, <2>2, <2>3 DEF RequestType, MembershipInv, Members!TypeOK
  <1>4. HoldsFit' /\ OneHolder'
    <2>1. HoldFits(r)'
      BY <1>1, <1>2, IdentityAssumption
         DEF HoldFits, Verdicts, Members!Idle, Members!MembershipAssumption
    <2>2. \A s \in Requests \ {r} : HoldFits(s)'
      BY <1>2 DEF MembershipInv, HoldsFit, HoldFits
    <2>3. OneHolder'
      BY <1>1, <1>2, IdentityAssumption
         DEF MembershipInv, OneHolder, Members!Idle, Members!MembershipAssumption
    <2> QED BY <2>1, <2>2, <2>3 DEF HoldsFit
  <1>5. InvitationsFit'
    <2> SUFFICES ASSUME NEW j \in Invitations \ crossed
                 PROVE  InvitationFits(j)'
      BY <1>2 DEF InvitationsFit
    <2>1. InvitationFits(j)
      BY DEF MembershipInv, InvitationsFit
    <2>2. \A s \in Requests : j = i /\ orgReq[s].of = i => s = r
      BY <1>1 DEF MembershipInv, OneHolder
    <2> QED BY <1>1, <1>2, <2>1, <2>2, IdentityAssumption
        DEF InvitationFits, Verdicts, Members!Idle, Members!MembershipAssumption
  <1>6. SpacesFit'
    BY <1>1, <1>2 DEF MembershipInv, SpacesFit, WorkspaceFits, Members!Idle
  <1> QED BY <1>3, <1>4, <1>5, <1>6 DEF MembershipInv

LEMMA UpdateWorkspaceKeeps ==
    ASSUME MembershipInv, NEW r \in Requests, NEW w \in Workspaces,
           NEW told \in {"ACTIVE", "ARCHIVED"}, NEW given \in BOOLEAN,
           Members!UpdateWorkspace(r, w, told, given)
    PROVE  MembershipInv'
  <1>1. PICK new \in Members!SpaceStatuses \ {"none"} :
          /\ new = IF given THEN told ELSE workspaces[w]
          /\ orgReq' = [orgReq EXCEPT ![r] = [Members!Idle EXCEPT !.at = "save", !.space = w,
                                          !.given = given, !.status = new]]
    BY DEF Members!UpdateWorkspace, Members!Hold, MembershipInv, Members!TypeOK,
       Members!SpaceStatuses
  <1>2. /\ orgReq'[r] = [at |-> "save", of |-> NoInvitation, user |-> Leader, space |-> w,
                      status |-> new, given |-> given]
        /\ \A s \in Requests \ {r} : orgReq'[s] = orgReq[s]
        /\ orgReq[r] = Members!Idle /\ workspaces[w] # "none"
        /\ crossed \subseteq crossed'
        /\ w \notin crossed' => \A s \in Requests : orgReq[s].space # w
        /\ UNCHANGED <<teams, members, invitation, due, workspaces, came, removed, wanted>>
    BY <1>1 DEF Members!UpdateWorkspace, Members!Hold, Members!Holding, MembershipInv,
       Members!TypeOK, HoldsFit, HoldFits, Members!Idle
  <1>3. Members!TypeOK'
    <2>1. crossed' \subseteq Invitations \cup Workspaces /\ orgBegun' \in 0..MaxChanges
      BY IdentityAssumption
         DEF Members!UpdateWorkspace, Members!Hold, Members!Counted, MembershipInv,
         Members!TypeOK,
         Members!MembershipAssumption
    <2> QED BY <1>1, <1>2, <2>1, IdentityAssumption
        DEF MembershipInv, Members!TypeOK, Members!MembershipAssumption, Members!SpaceStatuses,
           Members!Idle
  <1>4. HoldsFit' /\ OneHolder'
    <2>1. HoldFits(r)'
      BY <1>1, <1>2, IdentityAssumption
         DEF HoldFits, Verdicts, Members!Idle, Members!MembershipAssumption
    <2>2. \A s \in Requests \ {r} : HoldFits(s)'
      BY <1>2 DEF MembershipInv, HoldsFit, HoldFits
    <2>3. OneHolder'
      BY <1>1, <1>2, IdentityAssumption
         DEF MembershipInv, OneHolder, Members!Idle, Members!MembershipAssumption
    <2> QED BY <2>1, <2>2, <2>3 DEF HoldsFit
  <1>5. InvitationsFit'
    <2> SUFFICES ASSUME NEW j \in Invitations \ crossed'
                 PROVE  InvitationFits(j)'
      BY <1>2 DEF InvitationsFit
    <2>1. InvitationFits(j)
      BY <1>2 DEF MembershipInv, InvitationsFit
    <2> QED BY <1>2, <2>1, IdentityAssumption
        DEF InvitationFits, Verdicts, Members!Idle, Members!MembershipAssumption
  <1>6. SpacesFit'
    BY <1>1, <1>2, IdentityAssumption
       DEF MembershipInv, SpacesFit, WorkspaceFits, Members!Idle, Members!MembershipAssumption
  <1> QED BY <1>3, <1>4, <1>5, <1>6 DEF MembershipInv

LEMMA SaveWorkspaceKeeps ==
    ASSUME MembershipInv, NEW r \in Requests, Members!SaveWorkspace(r)
    PROVE  MembershipInv'
  <1>1. PICK w \in Workspaces :
          orgReq[r].space = w /\ orgReq[r].at = "save" /\ orgReq[r].status # "none"
    BY DEF Members!SaveWorkspace, MembershipInv, HoldsFit, HoldFits
  <1>2. /\ orgReq'[r] = Members!Idle
        /\ \A s \in Requests \ {r} : orgReq'[s] = orgReq[s]
        /\ \A x \in Workspaces \ {w} :
               workspaces'[x] = workspaces[x] /\ wanted'[x] = wanted[x]
        /\ IF workspaces[w] = "none"
           THEN workspaces'[w] = workspaces[w] /\ wanted'[w] = wanted[w]
           ELSE /\ workspaces'[w] = orgReq[r].status
                /\ wanted'[w] = IF orgReq[r].given THEN orgReq[r].status ELSE wanted[w]
        /\ UNCHANGED <<teams, members, invitation, due, orgBegun, came, crossed, removed>>
    BY <1>1 DEF Members!SaveWorkspace, Members!End, MembershipInv, Members!TypeOK
  <1>3. Members!TypeOK'
    <2>1. /\ workspaces' \in [Workspaces -> Members!SpaceStatuses]
          /\ wanted' \in [Workspaces -> Members!SpaceStatuses]
      BY <1>1, <1>2 DEF Members!SaveWorkspace, MembershipInv, Members!TypeOK
    <2>2. orgReq' \in [Requests -> RequestType]
      BY IdentityAssumption
         DEF Members!SaveWorkspace, Members!End, Members!Idle, RequestType, MembershipInv,
         Members!TypeOK, Members!SpaceStatuses,
         Members!MembershipAssumption
    <2> QED BY <1>2, <2>1, <2>2 DEF RequestType, MembershipInv, Members!TypeOK
  <1>4. HoldsFit' /\ OneHolder'
    <2>1. HoldFits(r)'
      BY <1>1, <1>2, IdentityAssumption
         DEF HoldFits, Verdicts, Members!Idle, Members!MembershipAssumption
    <2>2. \A s \in Requests \ {r} : HoldFits(s)'
      BY <1>1, <1>2 DEF MembershipInv, HoldsFit, HoldFits
    <2>3. OneHolder'
      BY <1>1, <1>2, IdentityAssumption
         DEF MembershipInv, OneHolder, Members!Idle, Members!MembershipAssumption
    <2> QED BY <2>1, <2>2, <2>3 DEF HoldsFit
  <1>5. InvitationsFit'
    <2> SUFFICES ASSUME NEW j \in Invitations \ crossed
                 PROVE  InvitationFits(j)'
      BY <1>2 DEF InvitationsFit
    <2>1. InvitationFits(j)
      BY DEF MembershipInv, InvitationsFit
    <2> QED BY <1>1, <1>2, <2>1, IdentityAssumption
        DEF InvitationFits, Verdicts, Members!Idle, Members!MembershipAssumption
  <1>6. SpacesFit'
    <2>1. ASSUME NEW x \in Workspaces \ (crossed \cup removed)
          PROVE  WorkspaceFits(x)'
      <3>1. WorkspaceFits(x)
        BY DEF MembershipInv, SpacesFit
      <3>2. \A s \in Requests : x = w /\ orgReq[s].space = w => s = r
        BY <1>1 DEF MembershipInv, OneHolder
      <3> QED BY <1>1, <1>2, <3>1, <3>2 DEF WorkspaceFits, Members!Idle
    <2>2. \A x \in removed : workspaces'[x] = "none"
      BY <1>1, <1>2 DEF MembershipInv, SpacesFit, Members!TypeOK
    <2> QED BY <1>2, <2>1, <2>2 DEF SpacesFit
  <1> QED BY <1>3, <1>4, <1>5, <1>6 DEF MembershipInv

\* Whatever acceptances, revocations and updates overlap: an invitation that
\* they did not is settled once, and a workspace that was deleted stays so
\* (org_service.go:199-345).
THEOREM MembersStaySound == Members!Spec => []MembershipHolds
  <1>1. MembershipInv /\ [Members!Next]_(Members!vars) => MembershipInv'
    <2>1. MembershipInv /\ UNCHANGED Members!vars => MembershipInv'
      BY DEF Members!vars, MembershipInv, Members!TypeOK, HoldsFit, HoldFits, OneHolder,
         InvitationsFit, SpacesFit,
         InvitationFits, WorkspaceFits
    <2> QED BY <2>1, CallsKeep, JudgingKeeps, UpdateInvitationKeeps, EnrolKeeps,
       UpdateWorkspaceKeeps, SaveWorkspaceKeeps DEF Members!Next
  <1>2. MembershipInv => Members!SettledOnce
    <2> SUFFICES ASSUME MembershipInv, NEW i \in Invitations \ crossed
                 PROVE  /\ Members!Cardinality(came[i]) <= 1
                        /\ came[i] # {} => invitation[i].status = "ACCEPTED"
                        /\ invitation[i].status = "ACCEPTED" /\ invitation[i].team # NoTeam
                             /\ Members!Holding(i) = {} => came[i] # {}
                        /\ invitation[i].status = "EXPIRED" => i \in due
      BY DEF Members!SettledOnce
    <2>1. InvitationFits(i)
      BY DEF MembershipInv, InvitationsFit
    <2>2. Members!Cardinality(came[i]) \in {0, 1}
      <3>1. Members!Cardinality(came[i]) = Cardinality(came[i])
        BY Zenon DEF Members!Cardinality, Cardinality, Members!IsFiniteSet, IsFiniteSet
      <3> QED BY <2>1, <3>1, FS_EmptySet, FS_Singleton DEF InvitationFits
    <2> QED BY <2>1, <2>2 DEF InvitationFits, Members!Holding
  <1>3. MembershipInv => Members!WorkspacesHold
    BY DEF MembershipInv, SpacesFit, WorkspaceFits, Members!WorkspacesHold, Members!TypeOK
  <1> QED BY MembershipInit, <1>1, <1>2, <1>3, PTL
     DEF Members!Spec, MembershipInv, MembershipHolds

-----------------------------------------------------------------------------
(***************************************************************************)
(* The walk.  What it gathers from a name, some names having been visited, *)
(* is stated without recursion: the permissions of the names in every set  *)
(* that holds the name and the unvisited parents of its members.  That     *)
(* much satisfies the equation of the walk, and as each step visits one    *)
(* name more and names are finitely many, nothing else does.               *)
(***************************************************************************)
Less == {p \in Nat \X Nat : p[1] < p[2]}

LEMMA LessIsWellFounded == IsWellFoundedOn(Less, Nat)
  BY NatLessThanWellFounded, Zenon DEF OpToRel, Less

LEMMA LeastNumber ==
    ASSUME NEW T, T \subseteq Nat, T # {}
    PROVE  \E x \in T : \A y \in T : x <= y
  <1>1. PICK x \in T : \A y \in T : ~(<<y, x>> \in Less)
    BY WFMin, LessIsWellFounded
  <1>2. ASSUME NEW y \in T
        PROVE  x <= y
    <2>1. x \in Nat /\ y \in Nat /\ ~(y < x)
      BY <1>1 DEF Less
    <2> QED BY <2>1
  <1> QED BY <1>2

\* up gives the parent of each name, has its permissions.
Closed(S, visited, up) == \A k \in S : up[k] \in S \cup visited \cup {NoRole}

Reach(m, visited, up) ==
    {k \in Names : /\ m \in Names \ visited
                   /\ \A S \in SUBSET (Names \ visited) :
                        m \in S /\ Closed(S, visited, up) => k \in S}

Gathered(m, visited, up, has) == UNION {has[k] : k \in Reach(m, visited, up)}

WalkStep(w, up, has) ==
    [visited \in SUBSET Names |->
       [m \in Names \cup {NoRole} |->
          IF m = NoRole \/ m \in visited THEN {}
          ELSE has[m] \cup w[visited \cup {m}][up[m]]]]

LEMMA ReachStep ==
    ASSUME NEW up \in [Names -> Names \cup {NoRole}], NoRole \notin Names,
           NEW visited \in SUBSET Names, NEW m \in Names \ visited
    PROVE  Reach(m, visited, up) = {m} \cup Reach(up[m], visited \cup {m}, up)
  <1> DEFINE further == Reach(up[m], visited \cup {m}, up)
             S == {m} \cup further
  <1>1. S \in SUBSET (Names \ visited)
    <2>1. ASSUME NEW k \in further, k \in visited
          PROVE  FALSE
      <3>1. up[m] \in Names \ (visited \cup {m})
        BY DEF Reach
      <3>2. Closed(Names \ (visited \cup {m}), visited \cup {m}, up)
        BY DEF Closed
      <3> QED BY <2>1, <3>1, <3>2 DEF Reach
    <2> QED BY <2>1 DEF Reach
  <1>2. Closed(S, visited, up)
    <2>1. up[m] \in S \cup visited \cup {NoRole}
      <3> SUFFICES ASSUME up[m] \in Names \ (visited \cup {m})
                   PROVE  up[m] \in further
        OBVIOUS
      <3> QED BY DEF Reach
    <2>2. ASSUME NEW k \in further, up[k] \in Names \ (visited \cup {m})
          PROVE  up[k] \in further
      <3>1. /\ up[m] \in Names \ (visited \cup {m})
            /\ \A T \in SUBSET (Names \ (visited \cup {m})) :
                 up[m] \in T /\ Closed(T, visited \cup {m}, up) => k \in T
        BY <2>2 DEF Reach
      <3>2. ASSUME NEW T \in SUBSET (Names \ (visited \cup {m})),
                   up[m] \in T, Closed(T, visited \cup {m}, up)
            PROVE  up[k] \in T
        BY <2>2, <3>1, <3>2 DEF Closed
      <3> QED BY <2>2, <3>1, <3>2 DEF Reach
    <2>3. \A k \in further : up[k] \in Names \cup {NoRole}
      BY <1>1
    <2> QED BY <2>1, <2>2, <2>3 DEF Closed
  <1>3. Reach(m, visited, up) \subseteq S
    BY <1>1, <1>2 DEF Reach
  <1>4. m \in Reach(m, visited, up)
    BY DEF Reach
  <1>5. ASSUME NEW k \in further
        PROVE  k \in Reach(m, visited, up)
    <2>1. k \in Names /\ up[m] \in Names \ (visited \cup {m})
      BY DEF Reach
    <2>2. ASSUME NEW T \in SUBSET (Names \ visited), m \in T, Closed(T, visited, up)
          PROVE  k \in T
      <3>1. T \ {m} \in SUBSET (Names \ (visited \cup {m})) /\ up[m] \in T \ {m}
        BY <2>1, <2>2 DEF Closed
      <3>2. Closed(T \ {m}, visited \cup {m}, up)
        BY <2>2 DEF Closed
      <3> QED BY <3>1, <3>2 DEF Reach
    <2> QED BY <2>1, <2>2 DEF Reach
  <1> QED BY <1>3, <1>4, <1>5

LEMMA GatheredStep ==
    ASSUME NEW up \in [Names -> Names \cup {NoRole}], NoRole \notin Names, NEW has,
           NEW visited \in SUBSET Names, NEW m \in Names \cup {NoRole}
    PROVE  Gathered(m, visited, up, has)
             = IF m = NoRole \/ m \in visited THEN {}
               ELSE has[m] \cup Gathered(up[m], visited \cup {m}, up, has)
  <1>1. CASE m = NoRole \/ m \in visited
    <2>1. Reach(m, visited, up) = {}
      BY <1>1 DEF Reach
    <2> QED BY <1>1, <2>1 DEF Gathered
  <1>2. CASE m \in Names \ visited
    <2>1. Reach(m, visited, up) = {m} \cup Reach(up[m], visited \cup {m}, up)
      BY <1>2, ReachStep
    <2> HIDE DEF Reach
    <2> QED BY <1>2, <2>1 DEF Gathered
  <1> QED BY <1>1, <1>2

LEMMA WalkIsDefined ==
    ASSUME NEW up \in [Names -> Names \cup {NoRole}], NoRole \notin Names, NEW has
    PROVE  \E w : w = WalkStep(w, up, has)
  <1>0. \A visited \in SUBSET Names : \A m \in Names \ visited :
          Gathered(m, visited, up, has)
            = has[m] \cup Gathered(up[m], visited \cup {m}, up, has)
    BY GatheredStep
  <1> DEFINE w == [visited \in SUBSET Names |->
                     [m \in Names \cup {NoRole} |-> Gathered(m, visited, up, has)]]
  <1>1. ASSUME NEW visited \in SUBSET Names
        PROVE  w[visited] = WalkStep(w, up, has)[visited]
    <2>1. ASSUME NEW m \in Names \cup {NoRole}
          PROVE  w[visited][m] = WalkStep(w, up, has)[visited][m]
      <3>1. CASE m = NoRole \/ m \in visited
        BY <3>1, GatheredStep DEF WalkStep
      <3>2. CASE m \in Names \ visited
        <4>1. w[visited \cup {m}][up[m]] = Gathered(up[m], visited \cup {m}, up, has)
          BY <3>2
        <4>2. Gathered(m, visited, up, has)
                = has[m] \cup Gathered(up[m], visited \cup {m}, up, has)
          BY <3>2, <1>0
        <4> QED BY <3>2, <4>1, <4>2 DEF WalkStep
      <3> QED BY <3>1, <3>2
    <2> QED BY <2>1 DEF WalkStep
  <1>2. w = WalkStep(w, up, has)
    BY <1>1 DEF WalkStep
  <1> QED BY <1>2

LEMMA WalkIsGathered ==
    ASSUME NEW up \in [Names -> Names \cup {NoRole}], NoRole \notin Names, NEW has,
           IsFiniteSet(Names), NEW w, w = WalkStep(w, up, has),
           NEW visited \in SUBSET Names, NEW m \in Names \cup {NoRole}
    PROVE  w[visited][m] = Gathered(m, visited, up, has)
  <1> DEFINE Left(v) == Cardinality(Names \ v)
             Bad == {v \in SUBSET Names : \E k \in Names \cup {NoRole} :
                       w[v][k] # Gathered(k, v, up, has)}
  <1>1. \A v \in SUBSET Names : Left(v) \in Nat
    BY FS_Difference, FS_CardinalityType
  <1>2. ASSUME NEW v \in SUBSET Names, NEW k \in Names \ v
        PROVE  Left(v \cup {k}) < Left(v)
    <2>1. Names \ (v \cup {k}) = (Names \ v) \ {k} /\ k \in Names \ v
      OBVIOUS
    <2>2. IsFiniteSet(Names \ v) /\ Cardinality(Names \ v) \in Nat
      BY FS_Difference, FS_CardinalityType
    <2>3. Cardinality((Names \ v) \ {k}) = Cardinality(Names \ v) - 1
      BY <2>1, <2>2, FS_RemoveElement
    <2> QED BY <2>1, <2>2, <2>3
  <1>3. ASSUME Bad # {}
        PROVE  FALSE
    <2> DEFINE T == {Left(v) : v \in Bad}
    <2>1. PICK v \in Bad : \A u \in Bad : Left(v) <= Left(u)
      <3>1. T \subseteq Nat /\ T # {}
        <4>1. Bad \subseteq SUBSET Names
          OBVIOUS
        <4> HIDE DEF Bad, Left
        <4> QED BY <1>1, <1>3, <4>1
      <3> HIDE DEF Bad, Left
      <3>2. PICK x \in T : \A y \in T : x <= y
        <4> HIDE DEF T
        <4> QED BY <3>1, LeastNumber
      <3>3. PICK v \in Bad : x = Left(v)
        BY <3>2
      <3>4. \A u \in Bad : Left(u) \in T
        OBVIOUS
      <3> QED BY <3>2, <3>3, <3>4
    <2>2. PICK k \in Names \cup {NoRole} : w[v][k] # Gathered(k, v, up, has)
      BY <2>1
    <2>3. w[v][k] = IF k = NoRole \/ k \in v THEN {}
                    ELSE has[k] \cup w[v \cup {k}][up[k]]
      <3>1. v \in SUBSET Names
        OBVIOUS
      <3>2. w[v][k] = WalkStep(w, up, has)[v][k]
        OBVIOUS
      <3> HIDE DEF Bad
      <3> QED BY <3>1, <3>2 DEF WalkStep
    <2>4. k \in Names \ v
      BY <2>2, <2>3, GatheredStep
    <2>5. v \cup {k} \in SUBSET Names /\ Left(v \cup {k}) < Left(v)
      BY <1>2, <2>4
    <2>6. v \cup {k} \notin Bad
      <3>1. Left(v) \in Nat /\ Left(v \cup {k}) \in Nat
        BY <1>1, <2>5
      <3> HIDE DEF Left, Bad
      <3> QED BY <2>1, <2>5, <3>1
    <2>7. w[v \cup {k}][up[k]] = Gathered(up[k], v \cup {k}, up, has)
      BY <2>4, <2>5, <2>6
    <2> QED BY <2>2, <2>3, <2>4, <2>7, GatheredStep
  <1> QED BY <1>3

\* The roles of a tenant, in any state.
LEMMA ResolveType ==
    ASSUME Authz!TypeOK, NEW t \in Tenants, NEW m \in Names
    PROVE  /\ Authz!Resolve(t, m).parent \in Names \cup {NoRole}
           /\ Authz!Resolve(t, m).permissions \in SUBSET (Permissions \cup {Authz!NoPermission})
  <1>1. Authz!Resolve(t, m) \in Authz!Role \cup {Authz!Unmade}
    BY IdentityAssumption DEF Authz!AuthorizationAssumption, Authz!TypeOK, Authz!Resolve
  <1> QED BY <1>1 DEF Authz!Role, Authz!Unmade

LEMMA WalkIsRight == Authz!TypeOK => Authz!WalkFindsAncestry
  <1> SUFFICES ASSUME Authz!TypeOK, NEW t \in Tenants, NEW n \in Names
               PROVE  Authz!GetEffectivePermissions(t, n) = Authz!Inherited(t, n)
    BY DEF Authz!WalkFindsAncestry
  <1> DEFINE up == [m \in Names |-> Authz!Resolve(t, m).parent]
             has == [m \in Names |-> Authz!Resolve(t, m).permissions]
             Walk(w) == [visited \in SUBSET Names |->
                           [m \in Names \cup {NoRole} |->
                              IF m = NoRole \/ m \in visited THEN {}
                              ELSE Authz!Resolve(t, m).permissions
                                     \cup w[visited \cup {m}][Authz!Resolve(t, m).parent]]]
  <1>1. up \in [Names -> Names \cup {NoRole}]
    BY ResolveType
  <1>2. ASSUME NEW w
        PROVE  Walk(w) = WalkStep(w, up, has)
    <2>1. ASSUME NEW visited \in SUBSET Names, NEW m \in Names \cup {NoRole}
          PROVE  Walk(w)[visited][m] = WalkStep(w, up, has)[visited][m]
      BY DEF WalkStep
    <2>2. ASSUME NEW visited \in SUBSET Names
          PROVE  Walk(w)[visited] = WalkStep(w, up, has)[visited]
      BY <2>1 DEF WalkStep
    <2> QED BY <2>2 DEF WalkStep
  <1>3. NoRole \notin Names /\ IsFiniteSet(Names)
    BY IdentityAssumption
       DEF Authz!AuthorizationAssumption, Authz!IsFiniteSet, IsFiniteSet
  <1>4. \E w : w = Walk(w)
    <2> HIDE DEF up, has, Walk
    <2> QED BY <1>1, <1>2, <1>3, WalkIsDefined
  <1>5. PICK w : w = Walk(w) /\ Authz!GetEffectivePermissions(t, n) = w[{}][n]
    BY <1>4, Zenon DEF Authz!GetEffectivePermissions
  <1>6. Authz!GetEffectivePermissions(t, n) = Gathered(n, {}, up, has)
    <2> HIDE DEF up, has, Walk
    <2>1. w = WalkStep(w, up, has)
      BY <1>2, <1>5
    <2> QED BY <1>1, <1>3, <1>5, <2>1, WalkIsGathered
  <1>7. Reach(n, {}, up) = Authz!Ancestry(t, n)
    <2>1. ASSUME NEW S \in SUBSET Names
          PROVE  Closed(S, {}, up)
                   <=> \A k \in S : Authz!Resolve(t, k).parent \in S \cup {NoRole}
      BY DEF Closed
    <2> QED BY <2>1 DEF Reach, Authz!Ancestry
  <1>8. \A m \in Authz!Ancestry(t, n) : has[m] = Authz!Resolve(t, m).permissions
    BY DEF Authz!Ancestry
  <1> QED BY <1>6, <1>7, <1>8 DEF Gathered, Authz!Inherited

-----------------------------------------------------------------------------
(***************************************************************************)
(* The rules, and what an evaluation has established at each step.         *)
(***************************************************************************)
LEMMA RulesAreRight == Authz!RulesAreThese
  <1> SUFFICES ASSUME NEW c \in Authz!Contexts
               PROVE  IF c.secret
                      THEN Authz!EvaluateABACAndOPA(c) => c.finance /\ c.cleared /\ c.calm
                      ELSE Authz!EvaluateABACAndOPA(c)
                             <=> (c.mutates => c.internal)
                                   /\ (c.billing => c.finance /\ c.inHours)
    BY DEF Authz!RulesAreThese
  <1>1. DOMAIN Authz!Rules = {1, 2, 3}
    BY DEF Authz!Rules
  <1>2. /\ Authz!Tells(Authz!Rules[1], c) <=> c.secret
        /\ c \in Authz!Rules[1].satisfied <=> c.finance /\ c.cleared /\ c.calm
    BY DEF Authz!Rules, Authz!Tells
  <1>3. /\ Authz!Tells(Authz!Rules[2], c) <=> c.mutates /\ ~c.internal
        /\ c \in Authz!Rules[2].satisfied <=> c.internal
    BY DEF Authz!Rules, Authz!Tells
  <1>4. /\ Authz!Tells(Authz!Rules[3], c) <=> c.billing
        /\ c \in Authz!Rules[3].satisfied <=> c.finance /\ c.inHours
    BY DEF Authz!Rules, Authz!Tells
  <1> DEFINE telling == {i \in DOMAIN Authz!Rules : Authz!Tells(Authz!Rules[i], c)}
  <1>5. telling = (IF c.secret THEN {1} ELSE {})
                  \cup (IF c.mutates /\ ~c.internal THEN {2} ELSE {})
                  \cup (IF c.billing THEN {3} ELSE {})
    BY <1>1, <1>2, <1>3, <1>4
  <1>6. Authz!EvaluateABACAndOPA(c) <=>
          IF telling = {} THEN ~c.secret
          ELSE \E i \in telling : (\A j \in telling : i <= j) /\ c \in Authz!Rules[i].satisfied
    BY DEF Authz!EvaluateABACAndOPA
  <1> HIDE DEF telling
  <1>7. CASE c.secret
    BY <1>2, <1>5, <1>6, <1>7
  <1>8. CASE ~c.secret /\ c.mutates /\ ~c.internal
    BY <1>3, <1>5, <1>6, <1>8
  <1>9. CASE ~c.secret /\ ~(c.mutates /\ ~c.internal) /\ c.billing
    BY <1>4, <1>5, <1>6, <1>9
  <1>10. CASE ~c.secret /\ ~(c.mutates /\ ~c.internal) /\ ~c.billing
    BY <1>5, <1>6, <1>10
  <1> QED BY <1>7, <1>8, <1>9, <1>10

\* A role of this name that the tenant finds stays found.
Found(t, n) == Authz!Resolve(t, n) # Authz!Unmade

\* A request whose key was dead when it came finds it dead: a key that is
\* revoked or lapsed does not come back.
KeyFits(q) ==
    LET a == q.ask IN
    /\ q.at # "idle" /\ a.by \in Keys => keys[a.by] # "none"
    /\ q.dead => q.at # "idle" /\ a.by \in Keys /\ ~Authz!Usable(a.by)
    /\ q.at = "key" => q.role = a.role

\* Past the key, then past the role.
PastKey(q) ==
    LET a == q.ask IN
    /\ a.by # "forgery" /\ ~q.dead
    /\ a.by \in Keys =>
         /\ a.scope # Authz!NoPermission => Authz!CheckPermission(KeyScopes[a.by], a.scope)
         /\ q.role = "API_CLIENT" /\ q.tenant = KeyTenant[a.by]
    /\ a.by \notin Keys => q.role = a.role

PastRole(q) ==
    LET a == q.ask IN
    a.need # Authz!NoPermission /\ q.role # NoRole =>
      /\ Authz!CheckPermission(q.earned, a.need)
      /\ a.by \in Keys => Found(KeyTenant[a.by], "API_CLIENT")

AuthInv ==
    /\ Authz!TypeOK
    /\ \A r \in Requests :
         /\ KeyFits(authReq[r])
         /\ authReq[r].at \in {"role", "policy"} => PastKey(authReq[r])
         /\ authReq[r].at = "policy" => PastRole(authReq[r])
    /\ Authz!GrantsAreEarned

LEMMA IdleType == Authz!Idle \in Authz!Request /\ Authz!Idle.at = "idle" /\ ~Authz!Idle.dead
  BY IdentityAssumption DEF Authz!Idle, Authz!Request, Authz!AuthorizationAssumption

LEMMA AuthInit == Authz!Init => AuthInv
  <1> SUFFICES ASSUME Authz!Init PROVE AuthInv
    OBVIOUS
  <1>1. Authz!TypeOK
    BY IdentityAssumption, IdleType
       DEF Authz!Init, Authz!TypeOK, Authz!NoAnswer, Authz!AuthorizationAssumption
  <1>2. Authz!GrantsAreEarned
    BY DEF Authz!Init, Authz!NoAnswer, Authz!GrantsAreEarned
  <1> QED BY <1>1, <1>2, IdleType DEF Authz!Init, AuthInv, KeyFits

LEMMA KeyFacts ==
    /\ \A k \in Keys : KeyTenant[k] \in Tenants
    /\ "API_CLIENT" \in Names /\ "API_CLIENT" # NoRole
  BY IdentityAssumption DEF Authz!AuthorizationAssumption

\* Steps of no request: keys do not come back, roles that were found stay.
LEMMA OthersKeep ==
    ASSUME AuthInv, Authz!TypeOK', authReq' = authReq, answer' = answer,
           \A k \in Keys : /\ keys[k] # "none" => keys'[k] # "none"
                           /\ keys[k] # "none" /\ ~Authz!Usable(k) => ~Authz!Usable(k)',
           \A t \in Tenants : Found(t, "API_CLIENT") => Found(t, "API_CLIENT")'
    PROVE  AuthInv'
  <1>1. ASSUME NEW r \in Requests
        PROVE  /\ KeyFits(authReq[r])'
               /\ authReq[r].at \in {"role", "policy"} => PastKey(authReq[r])'
               /\ authReq[r].at = "policy" => PastRole(authReq[r])'
    <2>1. KeyFits(authReq[r])'
      BY DEF AuthInv, KeyFits
    <2>2. authReq[r].at \in {"role", "policy"} => PastKey(authReq[r])'
      BY DEF AuthInv, PastKey, Authz!CheckPermission
    <2>3. authReq[r].at = "policy" => PastRole(authReq[r])'
      BY KeyFacts DEF AuthInv, PastRole, Authz!CheckPermission
    <2> QED BY <2>1, <2>2, <2>3
  <1>2. Authz!GrantsAreEarned'
    <2>1. \A k \in Keys : Found(KeyTenant[k], "API_CLIENT")
                            => Found(KeyTenant[k], "API_CLIENT")'
      BY KeyFacts
    <2> QED BY <2>1 DEF AuthInv, Authz!GrantsAreEarned, Found, Authz!CheckPermission,
       Authz!EvaluateABACAndOPA
  <1> QED BY <1>1, <1>2 DEF AuthInv

LEMMA CreateRoleKeeps ==
    ASSUME AuthInv, NEW new \in NewRoles, Authz!CreateRole(new)
    PROVE  AuthInv'
  <1>1. /\ new.tenant \in Tenants /\ new.name \in Names /\ new.role \in Authz!Role
        /\ "global" \in Tenants
    BY IdentityAssumption DEF Authz!AuthorizationAssumption
  <1>2. new.role # Authz!Unmade
    BY <1>1, IdentityAssumption DEF Authz!AuthorizationAssumption, Authz!Role, Authz!Unmade
  <1>3. roles' \in [Tenants -> [Names -> Authz!Role \cup {Authz!Unmade}]]
    BY <1>1 DEF Authz!CreateRole, AuthInv, Authz!TypeOK
  <1>4. made' \in 0..MaxRoles
    BY IdentityAssumption
       DEF Authz!CreateRole, AuthInv, Authz!TypeOK, Authz!AuthorizationAssumption
  <1>5. Authz!TypeOK'
    BY <1>3, <1>4 DEF Authz!CreateRole, AuthInv, Authz!TypeOK
  <1>6. \A t \in Tenants, n \in Names : roles[t][n] # Authz!Unmade => roles'[t][n] = roles[t][n]
    BY <1>1 DEF Authz!CreateRole, AuthInv, Authz!TypeOK
  <1>7. \A t \in Tenants, n \in Names : roles'[t][n] \in {roles[t][n], new.role}
    BY <1>1 DEF Authz!CreateRole, AuthInv, Authz!TypeOK
  <1>8. \A t \in Tenants : Found(t, "API_CLIENT") => Found(t, "API_CLIENT")'
    BY <1>1, <1>2, <1>6, <1>7, KeyFacts DEF Found, Authz!Resolve
  <1> QED BY <1>5, <1>8, OthersKeep DEF Authz!CreateRole, Authz!Usable

LEMMA KeysKeep ==
    ASSUME AuthInv, NEW k \in Keys,
           Authz!GenerateAPIKey(k) \/ Authz!RevokeAPIKey(k) \/ Authz!Lapse(k)
    PROVE  AuthInv'
  <1>1. Authz!TypeOK'
    BY DEF Authz!GenerateAPIKey, Authz!RevokeAPIKey, Authz!Lapse, AuthInv, Authz!TypeOK
  <1>2. \A j \in Keys : /\ keys[j] # "none" => keys'[j] # "none"
                        /\ keys[j] # "none" /\ ~Authz!Usable(j) => ~Authz!Usable(j)'
    BY DEF Authz!GenerateAPIKey, Authz!RevokeAPIKey, Authz!Lapse, AuthInv, Authz!TypeOK,
       Authz!Usable
  <1>3. UNCHANGED <<roles, authReq, answer>>
    BY DEF Authz!GenerateAPIKey, Authz!RevokeAPIKey, Authz!Lapse
  <1> QED BY <1>1, <1>2, <1>3, OthersKeep DEF Found, Authz!Resolve

\* Steps of one request: the others are as they were.
LEMMA EvaluatingKeeps ==
    ASSUME AuthInv, Authz!TypeOK', NEW r \in Requests, NEW next,
           UNCHANGED <<roles, keys, lapsed>>, authReq' = [authReq EXCEPT ![r] = next],
           Authz!GrantsAreEarned',
           KeyFits(next),
           next.at \in {"role", "policy"} => PastKey(next),
           next.at = "policy" => PastRole(next)
    PROVE  AuthInv'
  <1>1. authReq'[r] = next /\ \A s \in Requests \ {r} : authReq'[s] = authReq[s]
    BY DEF AuthInv, Authz!TypeOK
  <1>2. \A q : /\ KeyFits(q)' <=> KeyFits(q)
               /\ PastKey(q)' <=> PastKey(q)
               /\ PastRole(q)' <=> PastRole(q)
    BY DEF KeyFits, PastKey, PastRole, Authz!CheckPermission, Authz!Usable, Found, Authz!Resolve
  <1> QED BY <1>1, <1>2 DEF AuthInv

LEMMA EvaluationKeeps ==
    ASSUME AuthInv, NEW r \in Requests, NEW a \in Asked, Authz!Begin(r, a)
    PROVE  AuthInv'
  <1>1. PICK next \in Authz!Request :
          /\ authReq' = [authReq EXCEPT ![r] = next]
          /\ next.at = "key" /\ next.ask = a /\ next.role = a.role
          /\ next.dead <=> a.by \in Keys /\ ~Authz!Usable(a.by)
    <2> DEFINE next == [Authz!Idle EXCEPT !.at = "key", !.ask = a, !.tenant = a.tenant,
                                    !.role = a.role,
                                    !.dead = (a.by \in Keys /\ ~Authz!Usable(a.by))]
    <2>1. a.tenant \in Tenants /\ a.role \in Names \cup {NoRole}
      BY IdentityAssumption DEF Authz!AuthorizationAssumption, Authz!Evaluations
    <2>2. (a.by \in Keys /\ ~Authz!Usable(a.by)) \in BOOLEAN
      BY DEF Authz!Usable
    <2>3. next \in Authz!Request
      BY <2>1, <2>2, IdleType DEF Authz!Request
    <2>4. /\ next.at = "key" /\ next.ask = a /\ next.role = a.role
          /\ next.dead = (a.by \in Keys /\ ~Authz!Usable(a.by))
      BY IdleType DEF Authz!Request
    <2>5. authReq' = [authReq EXCEPT ![r] = next]
      BY DEF Authz!Begin
    <2> HIDE DEF next
    <2> QED BY <2>3, <2>4, <2>5
  <1>2. /\ a.by \in Keys => keys[a.by] # "none"
        /\ UNCHANGED <<roles, made, keys, lapsed, answer>>
    BY DEF Authz!Begin
  <1>3. Authz!TypeOK'
    <2>1. authBegun' \in 0..MaxEvaluations
      BY IdentityAssumption
         DEF Authz!Begin, AuthInv, Authz!TypeOK, Authz!AuthorizationAssumption
    <2> QED BY <1>1, <1>2, <2>1 DEF AuthInv, Authz!TypeOK
  <1>4. Authz!GrantsAreEarned'
    BY <1>2 DEF AuthInv, Authz!GrantsAreEarned, Authz!CheckPermission, Authz!Resolve,
       Authz!EvaluateABACAndOPA
  <1> QED BY <1>1, <1>2, <1>3, <1>4, EvaluatingKeeps DEF KeyFits

\* An answer that is no.
LEMMA DenyKeeps ==
    ASSUME AuthInv, NEW r \in Requests, Authz!Deny(r),
           UNCHANGED <<roles, made, keys, lapsed, authBegun>>
    PROVE  AuthInv'
  <1>1. Authz!TypeOK'
    BY IdleType DEF Authz!Deny, AuthInv, Authz!TypeOK
  <1>2. Authz!GrantsAreEarned'
    BY DEF Authz!Deny, Authz!GrantsAreEarned
  <1> QED BY <1>1, <1>2, IdleType, EvaluatingKeeps DEF Authz!Deny, KeyFits

LEMMA AuthenticateKeeps ==
    ASSUME AuthInv, NEW r \in Requests, Authz!Authenticate(r)
    PROVE  AuthInv'
  <1> DEFINE a == authReq[r].ask
  <1>1. /\ authReq[r] \in Authz!Request /\ authReq[r].at = "key" /\ KeyFits(authReq[r])
        /\ UNCHANGED <<roles, made, keys, lapsed, authBegun>>
    BY DEF Authz!Authenticate, AuthInv, Authz!TypeOK
  <1>2. CASE Authz!Deny(r)
    BY <1>1, <1>2, DenyKeeps
  <1>3. CASE /\ a.by \in Keys /\ Authz!ValidateAPIKey(a.by, a.scope)
             /\ Authz!Goto(r, [authReq[r] EXCEPT !.at = "role", !.tenant = KeyTenant[a.by],
                                       !.role = "API_CLIENT"])
    <2> DEFINE next == [authReq[r] EXCEPT !.at = "role", !.tenant = KeyTenant[a.by],
                                      !.role = "API_CLIENT"]
    <2>1. /\ next \in Authz!Request
          /\ next.at = "role" /\ next.ask = a /\ next.tenant = KeyTenant[a.by]
          /\ next.role = "API_CLIENT" /\ next.dead = authReq[r].dead
      BY <1>1, <1>3, KeyFacts DEF Authz!Request
    <2>2. authReq' = [authReq EXCEPT ![r] = next] /\ answer' = answer
      BY <1>3 DEF Authz!Goto
    <2> HIDE DEF next
    <2>3. Authz!TypeOK'
      BY <1>1, <2>1, <2>2 DEF AuthInv, Authz!TypeOK
    <2>4. Authz!GrantsAreEarned'
      BY <1>1, <2>2 DEF AuthInv, Authz!GrantsAreEarned, Authz!CheckPermission, Authz!Resolve,
         Authz!EvaluateABACAndOPA
    <2>5. KeyFits(next)
      BY <1>1, <2>1 DEF KeyFits
    <2>6. PastKey(next)
      <3>1. a.by # "forgery"
        BY <1>3, IdentityAssumption DEF Authz!AuthorizationAssumption
      <3> QED BY <1>1, <1>3, <2>1, <3>1
         DEF PastKey, KeyFits, Authz!ValidateAPIKey, Authz!Request
    <2> QED BY <1>1, <2>1, <2>2, <2>3, <2>4, <2>5, <2>6, EvaluatingKeeps
  <1>4. CASE /\ a.by \notin Keys /\ a.by # "forgery"
             /\ Authz!Goto(r, [authReq[r] EXCEPT !.at = "role"])
    <2> DEFINE next == [authReq[r] EXCEPT !.at = "role"]
    <2>1. /\ next \in Authz!Request
          /\ next.at = "role" /\ next.ask = a /\ next.role = authReq[r].role
          /\ next.dead = authReq[r].dead
      BY <1>1 DEF Authz!Request
    <2>2. authReq' = [authReq EXCEPT ![r] = next] /\ answer' = answer
      BY <1>4 DEF Authz!Goto
    <2> HIDE DEF next
    <2>3. Authz!TypeOK'
      BY <1>1, <2>1, <2>2 DEF AuthInv, Authz!TypeOK
    <2>4. Authz!GrantsAreEarned'
      BY <1>1, <2>2 DEF AuthInv, Authz!GrantsAreEarned, Authz!CheckPermission, Authz!Resolve,
         Authz!EvaluateABACAndOPA
    <2>5. KeyFits(next)
      BY <1>1, <2>1 DEF KeyFits
    <2>6. PastKey(next)
      BY <1>1, <1>4, <2>1 DEF PastKey, KeyFits, Authz!Request
    <2> QED BY <1>1, <2>1, <2>2, <2>3, <2>4, <2>5, <2>6, EvaluatingKeeps
  <1> QED BY <1>2, <1>3, <1>4 DEF Authz!Authenticate

\* A role that is allowed something exists: the walk brings NoPermission from
\* one that does not.
LEMMA AllowedRoleIsFound ==
    ASSUME Authz!TypeOK, NEW t \in Tenants, NEW n \in Names, NEW p, Authz!EvaluateAccess(t, n, p)
    PROVE  Authz!CheckPermission(Authz!Inherited(t, n), p) /\ Found(t, n)
  <1>1. Authz!GetEffectivePermissions(t, n) = Authz!Inherited(t, n)
    BY WalkIsRight DEF Authz!WalkFindsAncestry
  <1>2. /\ Authz!CheckPermission(Authz!Inherited(t, n), p)
        /\ Authz!NoPermission \notin Authz!Inherited(t, n)
    BY <1>1 DEF Authz!EvaluateAccess
  <1>3. n \in Authz!Ancestry(t, n)
    BY DEF Authz!Ancestry
  <1>4. Authz!NoPermission \notin Authz!Resolve(t, n).permissions
    BY <1>2, <1>3 DEF Authz!Inherited
  <1> QED BY <1>2, <1>4 DEF Found, Authz!Unmade

LEMMA CheckRoleKeeps ==
    ASSUME AuthInv, NEW r \in Requests, Authz!CheckRole(r)
    PROVE  AuthInv'
  <1> DEFINE need == authReq[r].ask.need
             asked == need # Authz!NoPermission /\ authReq[r].role # NoRole
  <1>1. /\ authReq[r] \in Authz!Request
  /\ authReq[r].at = "role"
  /\ KeyFits(authReq[r])
  /\ PastKey(authReq[r])
        /\ UNCHANGED <<roles, made, keys, lapsed, authBegun>>
    BY DEF Authz!CheckRole, AuthInv, Authz!TypeOK
  <1>2. CASE Authz!Deny(r)
    BY <1>1, <1>2, DenyKeeps
  <1>3. ASSUME asked => Authz!EvaluateAccess(authReq[r].tenant, authReq[r].role, need),
               NEW earned,
               earned = IF asked THEN Authz!Inherited(authReq[r].tenant, authReq[r].role) ELSE {},
               Authz!Goto(r, [authReq[r] EXCEPT !.at = "policy", !.earned = earned])
        PROVE  AuthInv'
    <2> DEFINE next == [authReq[r] EXCEPT !.at = "policy", !.earned = earned]
    <2>1. earned \in SUBSET (Permissions \cup {Authz!NoPermission})
      <3>1. ASSUME asked
            PROVE  Authz!Inherited(authReq[r].tenant, authReq[r].role)
                     \in SUBSET (Permissions \cup {Authz!NoPermission})
        <4>1. \A m \in Names : Authz!Resolve(authReq[r].tenant, m).permissions
                 \in SUBSET (Permissions \cup {Authz!NoPermission})
          BY <1>1, ResolveType DEF AuthInv, Authz!Request
        <4> QED BY <4>1 DEF Authz!Inherited, Authz!Ancestry
      <3> QED BY <1>3, <3>1
    <2>2. /\ next \in Authz!Request
          /\ next.at = "policy" /\ next.ask = authReq[r].ask /\ next.role = authReq[r].role
          /\ next.tenant = authReq[r].tenant
          /\ next.dead = authReq[r].dead /\ next.earned = earned
      BY <1>1, <2>1 DEF Authz!Request
    <2>3. authReq' = [authReq EXCEPT ![r] = next] /\ answer' = answer
      BY <1>3 DEF Authz!Goto
    <2> HIDE DEF next
    <2>4. Authz!TypeOK'
      BY <1>1, <2>2, <2>3 DEF AuthInv, Authz!TypeOK
    <2>5. Authz!GrantsAreEarned'
      BY <1>1, <2>3 DEF AuthInv, Authz!GrantsAreEarned, Authz!CheckPermission, Authz!Resolve,
         Authz!EvaluateABACAndOPA
    <2>6. KeyFits(next) /\ PastKey(next)
      BY <1>1, <2>2 DEF KeyFits, PastKey
    <2>7. PastRole(next)
      <3> SUFFICES ASSUME asked
                   PROVE  /\ Authz!CheckPermission(earned, need)
                          /\ authReq[r].ask.by \in Keys =>
                               Found(KeyTenant[authReq[r].ask.by], "API_CLIENT")
        BY <2>2 DEF PastRole
      <3>1. authReq[r].tenant \in Tenants /\ authReq[r].role \in Names
        BY <1>1 DEF Authz!Request
      <3>2. /\ Authz!CheckPermission(Authz!Inherited(authReq[r].tenant, authReq[r].role), need)
            /\ Found(authReq[r].tenant, authReq[r].role)
        BY <1>3, <3>1, AllowedRoleIsFound DEF AuthInv
      <3> QED BY <1>1, <1>3, <3>2 DEF PastKey
    <2> QED BY <1>1, <2>2, <2>3, <2>4, <2>5, <2>6, <2>7, EvaluatingKeeps
  <1> QED BY <1>2, <1>3 DEF Authz!CheckRole

LEMMA CheckPolicyKeeps ==
    ASSUME AuthInv, NEW r \in Requests, Authz!CheckPolicy(r)
    PROVE  AuthInv'
  <1>1. /\ authReq[r] \in Authz!Request /\ authReq[r].at = "policy"
        /\ PastKey(authReq[r]) /\ PastRole(authReq[r])
        /\ UNCHANGED <<roles, made, keys, lapsed, authBegun>>
    BY DEF Authz!CheckPolicy, AuthInv, Authz!TypeOK
  <1>2. CASE Authz!Deny(r)
    BY <1>1, <1>2, DenyKeeps
  <1>3. CASE Authz!Allow(r) /\ \A c \in authReq[r].ask.about : Authz!EvaluateABACAndOPA(c)
    <2>1. Authz!TypeOK'
      BY <1>1, <1>3, IdleType DEF Authz!Allow, AuthInv, Authz!TypeOK
    <2>2. Authz!GrantsAreEarned'
      <3>1. answer'.to = authReq[r]
        BY <1>3 DEF Authz!Allow
      <3>2. authReq[r].ask.by \in Keys => authReq[r].role # NoRole
        BY <1>1, KeyFacts DEF PastKey
      <3>3. \A c : Authz!EvaluateABACAndOPA(c)' <=> Authz!EvaluateABACAndOPA(c)
        BY DEF Authz!EvaluateABACAndOPA, Authz!Tells, Authz!Rules
      <3>4. \A t, n : Authz!Resolve(t, n)' = Authz!Resolve(t, n)
        BY <1>1 DEF Authz!Resolve
      <3> QED BY <1>1, <1>3, <3>1, <3>2, <3>3, <3>4
          DEF Authz!GrantsAreEarned, PastKey, PastRole, Found, Authz!CheckPermission
    <2> QED BY <1>1, <1>3, <2>1, <2>2, IdleType, EvaluatingKeeps DEF Authz!Allow, KeyFits
  <1> QED BY <1>2, <1>3 DEF Authz!CheckPolicy

\* For any names, roles, keys and requests: the walk finds what a role inherits,
\* the rules come to what they should and who is allowed has earned it.
THEOREM AccessStaysDecided == Authz!Spec => []AccessIsDecided
  <1>1. AuthInv /\ [Authz!Next]_(Authz!vars) => AuthInv'
    <2>1. AuthInv /\ UNCHANGED Authz!vars => AuthInv'
      <3> SUFFICES ASSUME AuthInv, UNCHANGED Authz!vars PROVE AuthInv'
        OBVIOUS
      <3>1. Authz!TypeOK'
        BY DEF Authz!vars, AuthInv, Authz!TypeOK
      <3> QED BY <3>1, OthersKeep DEF Authz!vars, Authz!Usable, Found, Authz!Resolve
    <2> QED BY <2>1, CreateRoleKeeps, KeysKeep, EvaluationKeeps, AuthenticateKeeps,
       CheckRoleKeeps, CheckPolicyKeeps DEF Authz!Next
  <1>2. AuthInv => AccessIsDecided
    BY WalkIsRight, RulesAreRight DEF AuthInv, AccessIsDecided
  <1> QED BY AuthInit, <1>1, <1>2, PTL DEF Authz!Spec

-----------------------------------------------------------------------------
(***************************************************************************)
(* The users, proved in UserDirectoryProofs, and the composition.  The     *)
(* directory of Identity and the one the proofs are about are two          *)
(* instances of one module: that they agree is seen by expanding both.     *)
(***************************************************************************)
People == INSTANCE UserDirectoryProofs WITH
    MaxBegun <- MaxDirectory, present <- people, req <- dirReq, begun <- dirBegun,
    meant <- dirMeant, clobbered <- stale

\* Whatever requests overlap on a user: archived is for good, addresses are
\* shared by moving only, confirmations, fields and the audit trail tell what
\* they should (user_service.go).
THEOREM UsersStaySound == Directory!Spec => []UsersAreSound
  <1>1. Directory!Init => People!Init
    BY Zenon DEF Directory!Shredded, People!Shredded, Directory!Fields, People!Fields,
       Directory!Choices, People!Choices, Directory!Idle, People!Idle, Directory!Fresh,
       People!Fresh, Directory!Anonymous, People!Anonymous, Directory!Init, People!Init
  <1>2. [Directory!Next]_(Directory!vars) => [People!Next]_(People!vars)
    BY Zenon DEF Directory!Shredded, People!Shredded, Directory!Fields, People!Fields,
       Directory!Choices, People!Choices, Directory!store, People!store, Directory!history,
       People!history, Directory!vars, People!vars, Directory!Idle, People!Idle,
       Directory!Fresh, People!Fresh, Directory!Anonymous, People!Anonymous, Directory!Busy,
       People!Busy, Directory!Archived, People!Archived, Directory!Begin, People!Begin,
       Directory!End, People!End, Directory!Stored, People!Stored, Directory!Read, People!Read,
       Directory!Taken, People!Taken, Directory!CreateUnchecked, People!CreateUnchecked,
       Directory!CreateUser, People!CreateUser, Directory!Change, People!Change,
       Directory!Replace, People!Replace, Directory!Update, People!Update, Directory!Shred,
       People!Shred, Directory!Erase, People!Erase, Directory!CreateAuditLog,
       People!CreateAuditLog, Directory!SearchUsers, People!SearchUsers, Directory!Next,
       People!Next
  <1>3. People!DirectoryAssumption
    BY Zenon, IdentityAssumption
       DEF IdentityAssumption, Directory!DirectoryAssumption, People!DirectoryAssumption,
           Directory!Shredded, People!Shredded
  <1>4. /\ People!TypeOK /\ People!ArchivedForGood /\ People!SharedOnlyByMoving
        /\ People!ConfirmedIsSeeded /\ People!ChangesHold /\ People!TrailTellsStatus
        => UsersAreSound
    BY Zenon DEF UsersAreSound, Directory!Texts, People!Texts, Directory!Record, People!Record,
       Directory!StatusWords, People!StatusWords, Directory!Words, People!Words,
       Directory!RequestStates, People!RequestStates, Directory!TypeOK, People!TypeOK,
       Directory!ArchivedForGood, People!ArchivedForGood, Directory!SharedOnlyByMoving,
       People!SharedOnlyByMoving, Directory!ConfirmedIsSeeded, People!ConfirmedIsSeeded,
       Directory!ChangesHold, People!ChangesHold, Directory!About, People!About, Directory!Now,
       People!Now, Directory!Told, People!Told, Directory!TrailTellsStatus,
       People!TrailTellsStatus, Directory!Shredded, People!Shredded, Directory!Fields,
       People!Fields, Directory!Choices, People!Choices, Directory!Idle, People!Idle,
       Directory!Busy, People!Busy, Directory!Archived, People!Archived, Directory!Begin,
       People!Begin, Directory!Taken, People!Taken, Directory!Anonymous, People!Anonymous,
       Directory!Fresh, People!Fresh
  <1>5. People!Spec => [](/\ People!TypeOK /\ People!ArchivedForGood
                         /\ People!SharedOnlyByMoving /\ People!ConfirmedIsSeeded
                         /\ People!ChangesHold /\ People!TrailTellsStatus)
    BY <1>3, People!DirectoryTypes, People!RemovedStaysRemoved,
       People!AddressesStayApart, People!ConfirmationsStayEarned,
       People!ChangesStayUnlessOverlapped, People!TrailStaysTrue, PTL
  <1> QED BY <1>1, <1>2, <1>4, <1>5, PTL DEF Directory!Spec, People!Spec

\* What is archived, erased or shredded stays so, among users and tenants.
THEOREM DirectoriesStaySound == Directory!Spec /\ Vault!Spec => []DirectoriesAreSound
  BY UsersStaySound, TenantsStaySound, PTL DEF DirectoriesAreSound

\* The composition of Identity runs each service as it runs alone, so that what
\* is proved of one holds in every behaviour of the composition.
THEOREM IdentityRunsItsParts ==
    IdentitySpec =>
      Spec /\ Directory!Spec /\ Vault!Spec /\ Members!Spec /\ Authz!Spec
  <1>1. IdentityInit => Init /\ Directory!Init /\ Vault!Init /\ Members!Init /\ Authz!Init
    BY DEF IdentityInit
  <1> DEFINE all == <<part, vars, dirVars, tenVars, orgVars, authzVars>>
  <1>2. [IdentityNext]_all =>
          /\ [Next]_vars /\ [Directory!Next]_(Directory!vars) /\ [Vault!Next]_(Vault!vars)
          /\ [Members!Next]_(Members!vars) /\ [Authz!Next]_(Authz!vars)
    BY Zenon DEF IdentityNext, OfAccounts, OfDirectory, OfTenants, OfMembers, OfAuthz,
       dirVars, tenVars, orgVars, authzVars, vars, Directory!vars, Directory!store,
       Directory!history, Vault!vars, Members!vars, Authz!vars
  <1> QED BY <1>1, <1>2, PTL
      DEF IdentitySpec, Spec, Directory!Spec, Vault!Spec, Members!Spec, Authz!Spec

=============================================================================
