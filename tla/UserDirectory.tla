---------------------------- MODULE UserDirectory ----------------------------
(***************************************************************************)
(* The user-service: accounts are created, changed, deactivated, archived  *)
(* and erased, and each request leaves an entry in the audit trail         *)
(* (service/user_service.go over db/user_db.go).                           *)
(*                                                                         *)
(* Each call of the store holds its mutex; a request makes two or three of *)
(* them and others run in between.  GetByID returns a copy and Update      *)
(* stores the whole of it, so a change of one field writes them all.       *)
(*                                                                         *)
(* Identifiers are random and never given twice.  Answers, metrics and     *)
(* the texts of the trail are left out.                                    *)
(***************************************************************************)
EXTENDS Integers, Sequences

CONSTANTS
    Requests,
    Users, NoUser,      \* identifiers
    Seeded, Confirmed,  \* the users of seedDemoUsers, and who is confirmed
    Channels,           \* "email", "phone"
    Attributes,         \* "profile", "avatar"
    Addresses,          \* of any channel
    SeedAddress,        \* those of the seeded users
    MaxBegun            \* bound: requests

Shredded == "shredded"

DirectoryAssumption ==
    /\ NoUser \notin Users /\ Seeded \subseteq Users /\ Confirmed \subseteq Seeded
    /\ "email" \in Channels /\ Channels \subseteq {"email", "phone"}
    /\ Attributes \subseteq {"profile", "avatar"}
    /\ Addresses \cap {Shredded, "ARCHIVED"} = {}
    /\ SeedAddress \in [Users -> Addresses]
    /\ \A u, v \in Seeded : u # v => SeedAddress[u] # SeedAddress[v]
    /\ MaxBegun \in Nat

Fields == {"status"} \cup Channels \cup Attributes

\* What a field may be changed to.
Choices(f) == CASE f = "status" -> {"ACTIVE", "DEACTIVATED"}
                [] f \in Channels -> Addresses
                [] f \in Attributes -> {"edited"}

VARIABLES
    present,        \* users in the store
    value,          \* their fields
    verified,       \* their confirmed channels
    trail,          \* the audit log
    req,            \* what each request is doing
    begun,
    meant,          \* history: value if a change wrote only its own field
    clobbered,      \* history: fields last written from an older copy
    archived, erased,   \* history: users who ever were
    moved,          \* history: users whose e-mail address was changed
    overlapped      \* history: users two requests were busy with at once

store == <<present, value, verified>>
history == <<meant, clobbered, archived, erased, moved, overlapped>>
vars == <<store, trail, req, begun, history>>

\* "update", "shred" and "erase" before the second call of the store, "log"
\* before the trail is written, with what.
Idle == [at |-> "idle", user |-> NoUser, field |-> "status", what |-> "none",
         copy |-> [f \in Fields |-> Shredded], confirmed |-> {}, missed |-> {}]

\* A record with one address in all its channels, and what DeleteSoft leaves.
Fresh(address) == [f \in Fields |->
    IF f = "status" THEN "ACTIVE" ELSE IF f \in Channels THEN address ELSE "first"]
Anonymous == [f \in Fields |-> IF f = "status" THEN "ARCHIVED" ELSE Shredded]

Init ==
    /\ present = Seeded
    /\ value = [u \in Users |-> Fresh(SeedAddress[u])]
    /\ verified = [u \in Users |-> IF u \in Confirmed THEN Channels ELSE {}]
    /\ trail = <<>>
    /\ req = [r \in Requests |-> Idle]
    /\ begun = 0
    /\ meant = value
    /\ clobbered = [u \in Users |-> {}]
    /\ archived = {} /\ erased = {} /\ moved = {} /\ overlapped = {}

-----------------------------------------------------------------------------
Busy(u) == \E r \in Requests : req[r].user = u
Archived(u) == value[u]["status"] = "ARCHIVED"

Begin(r, state) ==
    /\ req[r].at = "idle" /\ begun < MaxBegun
    /\ begun' = begun + 1
    /\ req' = [req EXCEPT ![r] = state]
    /\ overlapped' = IF state.user \in Users /\ Busy(state.user)
                     THEN overlapped \cup {state.user} ELSE overlapped

End(r) ==
    /\ req' = [req EXCEPT ![r] = Idle]
    /\ UNCHANGED <<store, meant, clobbered, archived, erased, moved>>

\* r has only its entry left to write; whoever holds a copy of the user
\* misses the fields it has stored.
Stored(r, fields) ==
    req' = [q \in Requests |->
        IF q = r THEN [req[r] EXCEPT !.at = "log"]
        ELSE IF req[q].user = req[r].user
        THEN [req[q] EXCEPT !.missed = @ \cup fields] ELSE req[q]]

\* GetByID fails for a user who is gone; an archived one is found.
Read(r, u, place, what) ==
    /\ u \in present
    /\ Begin(r, [Idle EXCEPT !.at = place, !.user = u, !.what = what])
    /\ UNCHANGED <<store, trail, meant, clobbered, archived, erased, moved>>

-----------------------------------------------------------------------------
(* CreateUser *)

Taken(address) == \E v \in present : ~Archived(v) /\ value[v]["email"] = address

\* Fault: nobody is looked for.
CreateUnchecked(r, u, address) ==
    /\ u \notin present \cup erased
    /\ Begin(r, [Idle EXCEPT !.at = "log", !.user = u, !.what = "ACTIVE"])
    /\ present' = present \cup {u}
    /\ value' = [value EXCEPT ![u] = Fresh(address)]
    /\ meant' = [meant EXCEPT ![u] = Fresh(address)]
    /\ UNCHANGED <<verified, trail, clobbered, archived, erased, moved>>

\* The e-mail address must belong to nobody who is not archived.
CreateUser(r, u, address) == ~Taken(address) /\ CreateUnchecked(r, u, address)

-----------------------------------------------------------------------------
(* UpdateProfile, UpdateAvatar, UpdateEmail, UpdatePhone, DeactivateUser,   *)
(* ReactivateUser *)

\* The field is changed in a copy, where a new address is unconfirmed.
Change(r, u, f, v) ==
    /\ u \in present
    /\ Begin(r, [Idle EXCEPT !.at = "update", !.user = u, !.field = f,
                   !.what = IF f = "status" THEN v ELSE f,
                   !.copy = [value[u] EXCEPT ![f] = v],
                   !.confirmed = verified[u] \ {f}])
    /\ UNCHANGED <<store, trail, meant, clobbered, archived, erased, moved>>

\* Update replaces the record.
Replace(r) ==
    LET u == req[r].user
        f == req[r].field
    IN  /\ value' = [value EXCEPT ![u] = req[r].copy]
        /\ verified' = [verified EXCEPT ![u] = req[r].confirmed]
        /\ meant' = [meant EXCEPT ![u][f] = req[r].copy[f]]
        /\ clobbered' = [clobbered EXCEPT ![u] = (@ \cup req[r].missed) \ {f}]
        /\ moved' = IF f = "email" THEN moved \cup {u} ELSE moved
        /\ Stored(r, {f})
        /\ UNCHANGED <<present, archived, erased>>

\* Fault: an archived record is replaced like any other.
UpdateUnchecked(r) ==
    /\ req[r].at = "update"
    /\ IF req[r].user \in present THEN Replace(r) ELSE End(r)
    /\ UNCHANGED <<trail, begun, overlapped>>

Update(r) ==
    /\ req[r].at = "update"
    /\ IF req[r].user \in present /\ ~Archived(req[r].user) THEN Replace(r) ELSE End(r)
    /\ UNCHANGED <<trail, begun, overlapped>>

-----------------------------------------------------------------------------
(* SoftDeleteUser, HardDeleteUser *)

\* DeleteSoft writes over every personal field where it stands, but not over
\* the confirmations; a record that is archived stays as it is.
Shred(r) ==
    LET u == req[r].user IN
    /\ req[r].at = "shred"
    /\ IF u \notin present THEN End(r)
       ELSE /\ value' = [value EXCEPT ![u] = Anonymous]
            /\ meant' = [meant EXCEPT ![u] = Anonymous]
            /\ clobbered' = [clobbered EXCEPT ![u] = {}]
            /\ archived' = archived \cup {u}
            /\ Stored(r, Fields)
            /\ UNCHANGED <<present, verified, erased, moved>>
    /\ UNCHANGED <<trail, begun, overlapped>>

\* DeleteHard.
Erase(r) ==
    /\ req[r].at = "erase"
    /\ IF req[r].user \notin present THEN End(r)
       ELSE /\ present' = present \ {req[r].user}
            /\ erased' = erased \cup {req[r].user}
            /\ Stored(r, Fields)
            /\ UNCHANGED <<value, verified, meant, clobbered, archived, moved>>
    /\ UNCHANGED <<trail, begun, overlapped>>

-----------------------------------------------------------------------------
\* CreateAuditLog, the last call of every request that did not fail.
CreateAuditLog(r) ==
    /\ req[r].at = "log"
    /\ trail' = Append(trail, [user |-> req[r].user, what |-> req[r].what])
    /\ req' = [req EXCEPT ![r] = Idle]
    /\ UNCHANGED <<store, begun, history>>

\* SearchUsers names nobody.
SearchUsers(r) ==
    /\ Begin(r, [Idle EXCEPT !.at = "log", !.what = "SEARCH"])
    /\ UNCHANGED <<store, trail, meant, clobbered, archived, erased, moved>>

Next ==
    \E r \in Requests :
        \/ \E u \in Users, a \in Addresses : CreateUser(r, u, a)
        \/ \E u \in Users, f \in Fields : \E v \in Choices(f) : Change(r, u, f, v)
        \/ \E u \in Users : \/ Read(r, u, "shred", "ARCHIVED")
                            \/ Read(r, u, "erase", "ERASED")
                            \/ Read(r, u, "log", "READ")
        \/ Update(r) \/ Shred(r) \/ Erase(r) \/ SearchUsers(r) \/ CreateAuditLog(r)

Spec == Init /\ [][Next]_vars

-----------------------------------------------------------------------------
(* Properties *)

Texts == Addresses \cup {"ACTIVE", "DEACTIVATED", "ARCHIVED", "first", "edited", Shredded}
Record == [Fields -> Texts]
StatusWords == {"ACTIVE", "DEACTIVATED", "ARCHIVED", "ERASED"}
Words == StatusWords \cup Channels \cup Attributes \cup {"READ", "SEARCH", "none"}

RequestStates ==
    [at : {"idle", "update", "shred", "erase", "log"}, user : Users \cup {NoUser},
     field : Fields, what : Words, copy : Record, confirmed : SUBSET Channels,
     missed : SUBSET Fields]

TypeOK ==
    /\ present \subseteq Users
    /\ value \in [Users -> Record] /\ meant \in [Users -> Record]
    /\ verified \in [Users -> SUBSET Channels]
    /\ trail \in Seq([user : Users \cup {NoUser}, what : Words])
    /\ req \in [Requests -> RequestStates]
    /\ begun \in 0..MaxBegun
    /\ clobbered \in [Users -> SUBSET Fields]
    /\ archived \cup erased \cup moved \cup overlapped \subseteq Users

\* Archived is for good: none of the handlers that still hold an older copy
\* brings the personal data back (user_db.go:168, 259), nor an erased user.
ArchivedForGood ==
    /\ present \cap erased = {}
    /\ \A u \in present : IF u \in archived
         THEN value[u] = Anonymous
         ELSE \A f \in Fields : value[u][f] \notin {Shredded, "ARCHIVED"}

\* Two users who are not archived have one e-mail address only after one of
\* them changed it: only CreateUser looks (user_service.go:196, user_db.go:121).
SharedOnlyByMoving ==
    \A u, v \in present : u # v /\ ~Archived(u) /\ ~Archived(v)
        /\ value[u]["email"] = value[v]["email"] => {u, v} \cap moved # {}

\* A confirmation is about the address that was confirmed, whichever copy of
\* the record was stored last: none of the handlers confirms anything.
ConfirmedIsSeeded ==
    \A u \in present : \A c \in verified[u] :
        u \in Confirmed /\ value[u][c] \in {SeedAddress[u], Shredded}

\* A field has the value the last request about it gave it, unless a request
\* about another field stored a copy older than that.
ChangesHold ==
    \A u \in present, f \in Fields :
        value[u][f] # meant[u][f] => f \in clobbered[u] /\ u \in overlapped

\* The entries of the trail about the status of u; the last one tells it.
About(u) ==
    {i \in DOMAIN trail : trail[i].user = u /\ trail[i].what \in StatusWords}
Now(u) == IF u \in present THEN value[u]["status"] ELSE "ERASED"
Told(u) == About(u) # {} =>
    \E i \in About(u) : (\A j \in About(u) : j <= i) /\ trail[i].what = Now(u)

\* The last entry of the trail about the status of a user tells it, once no
\* request about the user is under way, if no two ever were at once.
TrailTellsStatus == \A u \in Users \ overlapped : ~Busy(u) => Told(u)
=============================================================================
