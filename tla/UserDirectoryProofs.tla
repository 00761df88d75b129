------------------------ MODULE UserDirectoryProofs ------------------------
(***************************************************************************)
(* Proofs about UserDirectory.  A step begins a request (Begin), ends one, *)
(* or stores a record; each part of the invariant says what the copies the *)
(* requests hold are worth beside what is stored.  What is assumed of the  *)
(* constants is a hypothesis of every statement.                           *)
(***************************************************************************)
EXTENDS UserDirectory, TLAPS

-----------------------------------------------------------------------------
(* Records *)

LEMMA FieldFacts ==
    ASSUME DirectoryAssumption
    PROVE  /\ "status" \in Fields /\ "email" \in Fields /\ "email" \in Channels
           /\ "status" \notin Channels /\ Channels \subseteq Fields
           /\ Fields \cap StatusWords = {} /\ Fields \ {"status"} \subseteq Words
           /\ StatusWords \subseteq Words
           /\ StatusWords \cap {"READ", "SEARCH", "none"} = {}
BY DEF DirectoryAssumption, Fields, StatusWords, Words

\* None of the personal data is what shredding leaves.
Clean(v) == \A f \in Fields : v[f] \notin {Shredded, "ARCHIVED"}

LEMMA ChoiceFacts ==
    ASSUME DirectoryAssumption, NEW f \in Fields, NEW v \in Choices(f)
    PROVE  /\ v \in Texts /\ v \notin {Shredded, "ARCHIVED"}
           /\ f = "status" => v \in StatusWords
<1>1. CASE f = "status"
  <2>1. Choices(f) = {"ACTIVE", "DEACTIVATED"}
    BY <1>1 DEF DirectoryAssumption, Choices
  <2> QED BY <1>1, <2>1 DEF Texts, StatusWords, Shredded
<1>2. CASE f \in Channels
  BY <1>2, FieldFacts DEF DirectoryAssumption, Choices, Texts
<1>3. CASE f \in Attributes
  <2>1. f # "status" /\ f \notin Channels
    BY <1>3 DEF DirectoryAssumption
  <2> QED BY <1>3, <2>1 DEF Choices, Texts, Shredded
<1> QED BY <1>1, <1>2, <1>3 DEF Fields

LEMMA FreshFacts ==
    ASSUME DirectoryAssumption, NEW a \in Addresses
    PROVE  /\ Fresh(a) \in Record /\ Clean(Fresh(a))
           /\ Fresh(a)["status"] = "ACTIVE"
           /\ \A c \in Channels : Fresh(a)[c] = a
BY FieldFacts DEF DirectoryAssumption, Fresh, Record, Texts, Clean, Shredded

LEMMA AnonymousFacts ==
    ASSUME DirectoryAssumption
    PROVE  /\ Anonymous \in Record
           /\ Anonymous["status"] = "ARCHIVED"
           /\ \A c \in Channels : Anonymous[c] = Shredded
BY FieldFacts DEF Anonymous, Record, Texts

LEMMA ChangedFacts ==
    ASSUME NEW a \in Record, NEW f \in Fields, NEW v \in Texts
    PROVE  /\ [a EXCEPT ![f] = v] \in Record
           /\ [a EXCEPT ![f] = v][f] = v
           /\ \A g \in Fields \ {f} : [a EXCEPT ![f] = v][g] = a[g]
BY DEF Record

LEMMA IdleType ==
    ASSUME DirectoryAssumption
    PROVE  Idle \in RequestStates /\ Idle.at = "idle" /\ Idle.user = NoUser
BY FieldFacts DEF Idle, RequestStates, Record, Texts, Words

-----------------------------------------------------------------------------
(* The invariants *)

Names ==
    /\ present \cap erased = {}
    /\ archived \subseteq present \cup erased
    /\ \A r \in Requests : req[r].user \in present \cup erased \cup {NoUser}
    /\ \A r \in Requests :
         req[r].at \in {"update", "shred", "erase"} => req[r].user \in Users
    /\ \A u \in Users \ (present \cup erased) : verified[u] = {}

Holds(r) == req[r].at = "update"

\* Only archived users are anonymous, and only copies of theirs may be.
Privacy ==
    /\ \A u \in present :
         IF u \in archived THEN value[u] = Anonymous ELSE Clean(value[u])
    /\ \A r \in Requests :
         Holds(r) /\ req[r].user \notin archived => Clean(req[r].copy)

\* Of a user whose address was never changed every copy has the address.
Mail ==
    /\ SharedOnlyByMoving
    /\ \A r \in Requests :
         Holds(r) /\ req[r].user \in present \ (archived \cup moved)
             /\ req[r].field # "email" =>
           req[r].copy["email"] = value[req[r].user]["email"]

\* A copy confirms no more than the record did.
SeedConfirmed(u, v, cs) ==
    \A c \in cs : u \in Confirmed /\ v[c] \in {SeedAddress[u], Shredded}
Confirmations ==
    /\ \A u \in present : SeedConfirmed(u, value[u], verified[u])
    /\ \A r \in Requests :
         Holds(r) => SeedConfirmed(req[r].user, req[r].copy, req[r].confirmed)

Overlaps ==
    /\ \A r, q \in Requests :
         r # q /\ req[r].user = req[q].user /\ req[r].user \in Users =>
           req[r].user \in overlapped
    /\ \A r \in Requests : req[r].missed # {} => req[r].user \in overlapped
    /\ \A u \in Users : clobbered[u] # {} => u \in overlapped

\* Where a copy differs from what was meant, the record does so too or the
\* request has missed a change.
Changes ==
    /\ \A u \in present, f \in Fields :
         value[u][f] # meant[u][f] => f \in clobbered[u]
    /\ \A r \in Requests :
         Holds(r) /\ req[r].user \in present \ archived =>
           \A f \in Fields \ {req[r].field} :
             req[r].copy[f] # meant[req[r].user][f] =>
               f \in clobbered[req[r].user] \cup req[r].missed

\* What a request will write into the trail is what it stores.
Entries ==
    \A r \in Requests :
        /\ Holds(r) /\ req[r].field = "status" =>
             req[r].what = req[r].copy["status"] /\ req[r].what \in StatusWords
        /\ Holds(r) /\ req[r].field # "status" => req[r].what \notin StatusWords
        /\ req[r].at = "shred" => req[r].what = "ARCHIVED"
        /\ req[r].at = "erase" => req[r].what = "ERASED"

\* The trail, or the entry that is about to be written, tells the status.
Announces(r) == req[r].at = "log" /\ req[r].what \in StatusWords
Trail ==
    \A u \in Users \ overlapped :
        /\ \A r \in Requests :
             req[r].user = u /\ Announces(r) => req[r].what = Now(u)
        /\ (\A r \in Requests : req[r].user = u => ~Announces(r)) => Told(u)

Inv ==
    /\ TypeOK /\ Names /\ Privacy /\ Mail /\ Confirmations /\ Overlaps /\ Changes
    /\ Entries /\ Trail

-----------------------------------------------------------------------------
(* What a step does to the requests *)

\* What is true of a request that has just begun about a user who is there.
Starting(s) ==
    /\ s \in RequestStates /\ s.missed = {} /\ s.at # "idle"
    /\ s.user \in present \cup {NoUser} /\ (s.at # "log" => s.user \in present)
    /\ s.at = "update" =>
         /\ s.confirmed = verified[s.user] \ {s.field}
         /\ s.copy \in Record /\ s.copy[s.field] \notin {Shredded, "ARCHIVED"}
         /\ \A g \in Fields \ {s.field} : s.copy[g] = value[s.user][g]
         /\ s.field = "status" => s.what = s.copy["status"] /\ s.what \in StatusWords
         /\ s.field # "status" => s.what \notin StatusWords
    /\ s.at = "shred" => s.what = "ARCHIVED"
    /\ s.at = "erase" => s.what = "ERASED"
    /\ s.at = "log" => s.what \notin StatusWords

Starts(r, s) ==
    /\ Begin(r, s)
    /\ UNCHANGED <<store, trail, meant, clobbered, archived, erased, moved>>

LEMMA ChangeStarts ==
    ASSUME DirectoryAssumption, TypeOK, NEW r \in Requests, NEW u \in Users,
           NEW f \in Fields, NEW v \in Choices(f), Change(r, u, f, v)
    PROVE  \E s : Starting(s) /\ Starts(r, s)
<1> DEFINE s == [Idle EXCEPT !.at = "update", !.user = u, !.field = f,
                   !.what = IF f = "status" THEN v ELSE f,
                   !.copy = [value[u] EXCEPT ![f] = v],
                   !.confirmed = verified[u] \ {f}]
<1>1. u \in present /\ Starts(r, s)
  BY DEF Change, Starts
<1>2. value[u] \in Record /\ verified[u] \in SUBSET Channels
  BY DEF TypeOK
<1>3. /\ v \in Texts /\ v \notin {Shredded, "ARCHIVED"}
      /\ f = "status" => v \in StatusWords
  BY ChoiceFacts
<1>4. /\ [value[u] EXCEPT ![f] = v] \in Record
      /\ [value[u] EXCEPT ![f] = v][f] = v
      /\ \A g \in Fields \ {f} : [value[u] EXCEPT ![f] = v][g] = value[u][g]
  BY <1>2, <1>3, ChangedFacts
<1>5. (IF f = "status" THEN v ELSE f) \in Words
  BY <1>3, FieldFacts
<1>6. /\ s.at = "update" /\ s.user = u /\ s.field = f
      /\ s.what = (IF f = "status" THEN v ELSE f)
      /\ s.copy = [value[u] EXCEPT ![f] = v]
      /\ s.confirmed = verified[u] \ {f} /\ s.missed = {}
  BY DEF Idle
<1>7. s \in RequestStates
  BY <1>2, <1>4, <1>5 DEF Idle, RequestStates
<1>8. f # "status" => f \notin StatusWords
  BY FieldFacts
<1>9. Starting(s)
  BY <1>1, <1>2, <1>3, <1>4, <1>6, <1>7, <1>8 DEF Starting
<1> QED BY <1>1, <1>9

LEMMA ReadStarts ==
    ASSUME DirectoryAssumption, NEW r \in Requests, NEW u \in Users, NEW place, NEW what,
           <<place, what>> \in {<<"shred", "ARCHIVED">>, <<"erase", "ERASED">>,
                                <<"log", "READ">>},
           Read(r, u, place, what)
    PROVE  \E s : Starting(s) /\ Starts(r, s)
<1> DEFINE s == [Idle EXCEPT !.at = place, !.user = u, !.what = what]
<1>1. u \in present /\ Starts(r, s)
  BY DEF Read, Starts
<1>2. place \in {"shred", "erase", "log"} /\ what \in Words
  BY DEF Words, StatusWords
<1>3. s.at = place /\ s.user = u /\ s.what = what /\ s.missed = {}
  BY DEF Idle
<1>4. s \in RequestStates
  BY <1>2, IdleType DEF Idle, RequestStates
<1>5. Starting(s)
  BY <1>1, <1>2, <1>3, <1>4, FieldFacts DEF Starting
<1> QED BY <1>1, <1>5

LEMMA SearchStarts ==
    ASSUME DirectoryAssumption, NEW r \in Requests, SearchUsers(r)
    PROVE  \E s : Starting(s) /\ Starts(r, s)
<1> DEFINE s == [Idle EXCEPT !.at = "log", !.what = "SEARCH"]
<1>1. Starts(r, s)
  BY DEF SearchUsers, Starts
<1>2. s.at = "log" /\ s.user = NoUser /\ s.what = "SEARCH" /\ s.missed = {}
  BY DEF Idle
<1>3. s \in RequestStates
  BY IdleType DEF Idle, RequestStates, Words
<1>4. Starting(s)
  BY <1>2, <1>3, FieldFacts DEF Starting
<1> QED BY <1>1, <1>4

LEMMA BeginFacts ==
    ASSUME DirectoryAssumption, TypeOK, NEW r \in Requests, NEW s \in RequestStates,
           Begin(r, s)
    PROVE  /\ req' \in [Requests -> RequestStates] /\ begun' \in 0..MaxBegun
           /\ req'[r] = s /\ \A q \in Requests \ {r} : req'[q] = req[q]
           /\ overlapped \subseteq overlapped' /\ overlapped' \subseteq Users
           /\ \A q \in Requests :
                req[q].user = s.user /\ s.user \in Users => s.user \in overlapped'
BY DEF DirectoryAssumption, TypeOK, Begin, Busy

LEMMA EndFacts ==
    ASSUME DirectoryAssumption, TypeOK, NEW r \in Requests,
           req' = [req EXCEPT ![r] = Idle]
    PROVE  /\ req' \in [Requests -> RequestStates]
           /\ req'[r] = Idle /\ \A q \in Requests \ {r} : req'[q] = req[q]
BY IdleType DEF TypeOK

\* All but its place and what it has missed.
Keeps(q) ==
    /\ req'[q].user = req[q].user /\ req'[q].field = req[q].field
    /\ req'[q].what = req[q].what /\ req'[q].copy = req[q].copy
    /\ req'[q].confirmed = req[q].confirmed

LEMMA StoredFacts ==
    ASSUME TypeOK, NEW r \in Requests, NEW fields \in SUBSET Fields, Stored(r, fields)
    PROVE  /\ req' \in [Requests -> RequestStates]
           /\ req'[r].at = "log" /\ Keeps(r) /\ req'[r].missed = req[r].missed
           /\ \A q \in Requests \ {r} :
                /\ req'[q].at = req[q].at /\ Keeps(q)
                /\ req'[q].missed = IF req[q].user = req[r].user
                                    THEN req[q].missed \cup fields ELSE req[q].missed
<1>1. \A q \in Requests : req[q] \in RequestStates
  BY DEF TypeOK
<1>2. \A q \in Requests : req'[q] =
        IF q = r THEN [req[r] EXCEPT !.at = "log"]
        ELSE IF req[q].user = req[r].user
        THEN [req[q] EXCEPT !.missed = @ \cup fields] ELSE req[q]
  BY DEF Stored
<1>3. DOMAIN req' = Requests /\ req' = [q \in Requests |-> req'[q]]
  BY DEF Stored
<1>4. /\ [req[r] EXCEPT !.at = "log"] \in RequestStates
      /\ [req[r] EXCEPT !.at = "log"].at = "log"
  BY <1>1 DEF RequestStates
<1>5. \A q \in Requests : [req[q] EXCEPT !.missed = @ \cup fields] \in RequestStates
  BY <1>1 DEF RequestStates
<1>6. \A q \in Requests : req'[q] \in RequestStates
  BY <1>1, <1>2, <1>4, <1>5
<1>7. req'[r].at = "log" /\ Keeps(r) /\ req'[r].missed = req[r].missed
  BY <1>1, <1>2 DEF Keeps, RequestStates
<1>8. ASSUME NEW q \in Requests \ {r}
      PROVE  /\ req'[q].at = req[q].at /\ Keeps(q)
             /\ req'[q].missed = IF req[q].user = req[r].user
                                 THEN req[q].missed \cup fields ELSE req[q].missed
  BY <1>1, <1>2 DEF Keeps, RequestStates
<1> QED BY <1>3, <1>6, <1>7, <1>8

-----------------------------------------------------------------------------
(* The kinds of steps *)

Creates(r, u, a) == u \in Users /\ a \in Addresses /\ CreateUser(r, u, a)
Others == UNCHANGED <<trail, begun, overlapped>>
Pending(r) == req[r].at \in {"update", "shred", "erase"}
Ends(r) == Pending(r) /\ End(r) /\ Others
Replaces(r) ==
    Holds(r) /\ req[r].user \in present /\ ~Archived(req[r].user) /\ Replace(r) /\ Others
Shreds(r) == req[r].at = "shred" /\ req[r].user \in present /\ Shred(r)
Erases(r) == req[r].at = "erase" /\ req[r].user \in present /\ Erase(r)

Kinds(r) ==
    \/ \E s : Starting(s) /\ Starts(r, s)
    \/ \E u, a : Creates(r, u, a)
    \/ Ends(r) \/ Replaces(r) \/ Shreds(r) \/ Erases(r) \/ CreateAuditLog(r)

LEMMA StepKinds ==
    ASSUME DirectoryAssumption, TypeOK, Next
    PROVE  \E r \in Requests : Kinds(r)
<1>1. PICK r \in Requests :
        \/ \E u \in Users, a \in Addresses : CreateUser(r, u, a)
        \/ \E u \in Users, f \in Fields : \E v \in Choices(f) : Change(r, u, f, v)
        \/ \E u \in Users : \/ Read(r, u, "shred", "ARCHIVED")
                            \/ Read(r, u, "erase", "ERASED")
                            \/ Read(r, u, "log", "READ")
        \/ Update(r) \/ Shred(r) \/ Erase(r) \/ SearchUsers(r) \/ CreateAuditLog(r)
  BY DEF Next
<1>2. ASSUME NEW u \in Users, NEW f \in Fields, NEW v \in Choices(f), Change(r, u, f, v)
      PROVE  Kinds(r)
  BY <1>2, ChangeStarts DEF Kinds
<1>3. ASSUME NEW u \in Users,
             \/ Read(r, u, "shred", "ARCHIVED")
             \/ Read(r, u, "erase", "ERASED")
             \/ Read(r, u, "log", "READ")
      PROVE  Kinds(r)
  BY <1>3, ReadStarts DEF Kinds
<1>4. CASE SearchUsers(r)
  BY <1>4, SearchStarts DEF Kinds
<1>5. ASSUME NEW u \in Users, NEW a \in Addresses, CreateUser(r, u, a)
      PROVE  Kinds(r)
  BY <1>5 DEF Kinds, Creates
<1>6. CASE Update(r)
  BY <1>6 DEF Kinds, Update, Ends, Replaces, Pending, Others, Holds
<1>7. CASE Shred(r)
  BY <1>7 DEF Kinds, Shred, Ends, Shreds, Pending, Others
<1>8. CASE Erase(r)
  BY <1>8 DEF Kinds, Erase, Ends, Erases, Pending, Others
<1>9. CASE CreateAuditLog(r)
  BY <1>9 DEF Kinds
<1> QED BY <1>1, <1>2, <1>3, <1>4, <1>5, <1>6, <1>7, <1>8, <1>9

-----------------------------------------------------------------------------
(* The trail *)

LEMMA TrailKept ==
    ASSUME NEW u \in Users, UNCHANGED trail, Now(u)' = Now(u), Told(u)
    PROVE  Told(u)'
<1>1. About(u)' = About(u)
  BY DEF About
<1> QED BY <1>1 DEF Told

\* Requests that are not about u, or tell nothing, may come and go.
LEMMA TrailOfOthers ==
    ASSUME Trail, NEW u \in Users \ overlapped, NEW r \in Requests,
           UNCHANGED trail, Now(u)' = Now(u),
           \A q \in Requests \ {r} : req[q].user = u \/ req'[q].user = u =>
               req'[q].at = req[q].at /\ req'[q].user = req[q].user
               /\ req'[q].what = req[q].what,
           req[r].user = u => ~Announces(r),
           req'[r].user = u => ~Announces(r)'
    PROVE  /\ \A q \in Requests : req'[q].user = u /\ Announces(q)' =>
                 req'[q].what = Now(u)'
           /\ (\A q \in Requests : req'[q].user = u => ~Announces(q)') => Told(u)'
<1>1. \A q \in Requests \ {r} : req'[q].user = u \/ req[q].user = u =>
        /\ Announces(q)' <=> Announces(q)
        /\ req'[q].what = req[q].what /\ req'[q].user = req[q].user
  BY DEF Announces
<1>2. /\ \A q \in Requests : req[q].user = u /\ Announces(q) => req[q].what = Now(u)
      /\ (\A q \in Requests : req[q].user = u => ~Announces(q)) => Told(u)
  BY DEF Trail
<1>3. ASSUME \A q \in Requests : req'[q].user = u => ~Announces(q)'
      PROVE  Told(u)'
  <2>1. \A q \in Requests : req[q].user = u => ~Announces(q)
    BY <1>1, <1>3
  <2> QED BY <1>2, <2>1, TrailKept
<1> QED BY <1>1, <1>2, <1>3

\* The only request about a user who never had two at once.
LEMMA Alone ==
    ASSUME Overlaps, NEW r \in Requests, req[r].user \in Users \ overlapped
    PROVE  \A q \in Requests \ {r} : req[q].user # req[r].user
BY DEF Overlaps

-----------------------------------------------------------------------------
(* A request begins *)

LEMMA StartsKeep ==
    ASSUME DirectoryAssumption, Inv, NEW r \in Requests, NEW s, Starting(s), Starts(r, s)
    PROVE  Inv'
<1> USE DEF Starts, Holds
<1>1. /\ req' \in [Requests -> RequestStates] /\ begun' \in 0..MaxBegun
      /\ req'[r] = s /\ \A q \in Requests \ {r} : req'[q] = req[q]
      /\ overlapped \subseteq overlapped' /\ overlapped' \subseteq Users
      /\ \A q \in Requests :
           req[q].user = s.user /\ s.user \in Users => s.user \in overlapped'
  BY BeginFacts DEF Inv, Starting
<1>2. /\ UNCHANGED <<present, value, verified, trail, meant, clobbered>>
      /\ UNCHANGED <<archived, erased, moved>>
  BY DEF store
<1>3. req[r].at = "idle"
  BY DEF Begin
<1>4. TypeOK'
  BY <1>1, <1>2 DEF Inv, TypeOK
<1>5. Names'
  <2>1. /\ s.user \in present \cup erased \cup {NoUser}
        /\ s.at \in {"update", "shred", "erase"} => s.user \in Users
    BY DEF Inv, TypeOK, Starting
  <2> QED BY <1>1, <1>2, <2>1 DEF Inv, Names
<1>6. Privacy'
  <2>1. s.at = "update" /\ s.user \notin archived => Clean(s.copy)
    BY DEF Inv, Privacy, Starting, Clean
  <2> QED BY <1>1, <1>2, <2>1 DEF Inv, Privacy
<1>7. Mail'
  <2>1. SharedOnlyByMoving'
    BY <1>2 DEF Inv, Mail, SharedOnlyByMoving, Archived
  <2>2. s.at = "update" /\ s.field # "email" => s.copy["email"] = value[s.user]["email"]
    BY FieldFacts DEF Starting
  <2> QED BY <1>1, <1>2, <2>1, <2>2 DEF Inv, Mail
<1>8. Confirmations'
  <2>1. s.at = "update" => SeedConfirmed(s.user, s.copy, s.confirmed)
    BY FieldFacts DEF Inv, TypeOK, Confirmations, SeedConfirmed, Starting
  <2> QED BY <1>1, <1>2, <2>1 DEF Inv, Confirmations
<1>9. Overlaps'
  BY <1>1, <1>2 DEF Inv, Overlaps, Starting
<1>10. Changes'
  <2>1. s.at = "update" =>
          \A f \in Fields \ {s.field} :
            s.copy[f] # meant[s.user][f] => f \in clobbered[s.user] \cup s.missed
    BY DEF Inv, Changes, Starting
  <2> QED BY <1>1, <1>2, <2>1 DEF Inv, Changes
<1>11. Entries'
  BY <1>1 DEF Inv, Entries, Starting
<1>12. Trail'
  <2> SUFFICES ASSUME NEW u \in Users \ overlapped'
               PROVE  /\ \A q \in Requests : req'[q].user = u /\ Announces(q)' =>
                            req'[q].what = Now(u)'
                      /\ (\A q \in Requests : req'[q].user = u => ~Announces(q)')
                           => Told(u)'
    BY DEF Trail
  <2>1. Now(u)' = Now(u)
    BY <1>2 DEF Now
  <2>2. ~Announces(r) /\ ~Announces(r)'
    BY <1>1, <1>3 DEF Announces, Starting
  <2> QED BY <1>1, <1>2, <2>1, <2>2, TrailOfOthers DEF Inv
<1> QED BY <1>4, <1>5, <1>6, <1>7, <1>8, <1>9, <1>10, <1>11, <1>12 DEF Inv

-----------------------------------------------------------------------------
(* A request fails, or an account is created *)

LEMMA EndsKeep ==
    ASSUME DirectoryAssumption, Inv, NEW r \in Requests, Ends(r)
    PROVE  Inv'
<1> USE DEF Holds
<1>1. /\ req' \in [Requests -> RequestStates]
      /\ req'[r] = Idle /\ \A q \in Requests \ {r} : req'[q] = req[q]
  BY EndFacts DEF Inv, Ends, End
<1>2. /\ UNCHANGED <<present, value, verified, trail, meant, clobbered>>
      /\ UNCHANGED <<archived, erased, moved, begun, overlapped>>
  BY DEF Ends, End, Others, store
<1>3. Idle.at = "idle" /\ Idle.user = NoUser /\ Idle.missed = {}
  BY DEF Idle
<1>4. TypeOK'
  BY <1>1, <1>2 DEF Inv, TypeOK
<1>5. Names'
  BY <1>1, <1>2, <1>3 DEF Inv, Names
<1>6. Privacy'
  BY <1>1, <1>2, <1>3 DEF Inv, Privacy
<1>7. Mail'
  <2>1. SharedOnlyByMoving'
    BY <1>2 DEF Inv, Mail, SharedOnlyByMoving, Archived
  <2> QED BY <1>1, <1>2, <1>3, <2>1 DEF Inv, Mail
<1>8. Confirmations'
  BY <1>1, <1>2, <1>3 DEF Inv, Confirmations
<1>9. Overlaps'
  BY <1>1, <1>2, <1>3 DEF DirectoryAssumption, Inv, Overlaps
<1>10. Changes'
  BY <1>1, <1>2, <1>3 DEF Inv, Changes
<1>11. Entries'
  BY <1>1, <1>3 DEF Inv, Entries
<1>12. Trail'
  <2> SUFFICES ASSUME NEW u \in Users \ overlapped'
               PROVE  /\ \A q \in Requests : req'[q].user = u /\ Announces(q)' =>
                            req'[q].what = Now(u)'
                      /\ (\A q \in Requests : req'[q].user = u => ~Announces(q)')
                           => Told(u)'
    BY DEF Trail
  <2>1. Now(u)' = Now(u)
    BY <1>2 DEF Now
  <2>2. ~Announces(r) /\ ~Announces(r)'
    BY <1>1, <1>3 DEF Announces, Ends, Pending
  <2> QED BY <1>1, <1>2, <2>1, <2>2, TrailOfOthers DEF Inv
<1> QED BY <1>4, <1>5, <1>6, <1>7, <1>8, <1>9, <1>10, <1>11, <1>12 DEF Inv

\* Nobody has the new identifier, and nobody who is live the address.
LEMMA CreatesKeep ==
    ASSUME DirectoryAssumption, Inv, NEW r \in Requests, NEW u, NEW a, Creates(r, u, a)
    PROVE  Inv'
<1> USE DEF Holds
<1> DEFINE s == [Idle EXCEPT !.at = "log", !.user = u, !.what = "ACTIVE"]
<1>1. /\ u \in Users \ (present \cup erased) /\ a \in Addresses /\ ~Taken(a)
      /\ Begin(r, s) /\ present' = present \cup {u}
      /\ value' = [value EXCEPT ![u] = Fresh(a)]
      /\ meant' = [meant EXCEPT ![u] = Fresh(a)]
      /\ UNCHANGED <<verified, trail, clobbered, archived, erased, moved>>
  BY DEF Creates, CreateUser, CreateUnchecked
<1>2. /\ s \in RequestStates /\ s.at = "log" /\ s.user = u /\ s.what = "ACTIVE"
      /\ s.missed = {}
  BY <1>1, IdleType DEF Idle, RequestStates, Words, StatusWords
<1>3. /\ req' \in [Requests -> RequestStates] /\ begun' \in 0..MaxBegun
      /\ req'[r] = s /\ \A q \in Requests \ {r} : req'[q] = req[q]
      /\ overlapped \subseteq overlapped' /\ overlapped' \subseteq Users
  BY <1>1, <1>2, BeginFacts DEF Inv
<1>4. \A q \in Requests : req[q].user # u
  BY <1>1 DEF DirectoryAssumption, Inv, Names
<1>5. /\ Fresh(a) \in Record /\ Clean(Fresh(a)) /\ Fresh(a)["status"] = "ACTIVE"
      /\ Fresh(a)["email"] = a
  BY <1>1, FreshFacts, FieldFacts
<1>6. /\ value'[u] = Fresh(a) /\ meant'[u] = Fresh(a)
      /\ \A w \in Users \ {u} : value'[w] = value[w] /\ meant'[w] = meant[w]
  BY <1>1 DEF Inv, TypeOK
<1>7. u \notin archived /\ verified[u] = {} /\ present \subseteq Users
  BY <1>1 DEF Inv, Names, TypeOK
<1>8. ASSUME NEW q \in Requests, Holds(q)'
      PROVE  /\ Holds(q) /\ req'[q] = req[q]
             /\ req[q].user \in present' =>
                  /\ req[q].user \in present
                  /\ value'[req[q].user] = value[req[q].user]
                  /\ meant'[req[q].user] = meant[req[q].user]
  <2>1. q # r /\ req'[q] = req[q]
    BY <1>2, <1>3, <1>8
  <2>2. Holds(q)
    BY <1>8, <2>1
  <2>3. req[q].user \in present' => req[q].user \in present /\ req[q].user \in Users \ {u}
    BY <1>1, <1>4, <1>7
  <2> QED BY <1>6, <2>1, <2>2, <2>3
<1>9. TypeOK'
  BY <1>1, <1>3, <1>5 DEF Inv, TypeOK
<1>10. Names'
  BY <1>1, <1>2, <1>3 DEF Inv, Names
<1>11. Privacy'
  BY <1>1, <1>2, <1>3, <1>5, <1>6, <1>7 DEF Inv, Privacy
<1>12. Mail'
  <2>1. SharedOnlyByMoving'
    <3> SUFFICES ASSUME NEW v \in present', NEW w \in present',
                        v # w, ~Archived(v)', ~Archived(w)',
                        value'[v]["email"] = value'[w]["email"]
                 PROVE  {v, w} \cap moved # {}
      BY <1>1 DEF SharedOnlyByMoving
    <3>1. \A x \in present : value'[x] = value[x] /\ (Archived(x)' <=> Archived(x))
      BY <1>1, <1>6, <1>7 DEF Archived
    <3>2. \A x \in present : ~Archived(x) => value[x]["email"] # a
      BY <1>1 DEF Taken
    <3> QED BY <1>1, <1>5, <1>6, <3>1, <3>2 DEF Inv, Mail, SharedOnlyByMoving
  <2>2. ASSUME NEW q \in Requests, Holds(q)',
               req'[q].user \in present' \ (archived' \cup moved'),
               req'[q].field # "email"
        PROVE  req'[q].copy["email"] = value'[req'[q].user]["email"]
    BY <1>1, <1>8, <2>2 DEF Inv, Mail
  <2> QED BY <2>1, <2>2 DEF Mail
<1>13. Confirmations'
  BY <1>1, <1>2, <1>3, <1>6, <1>7 DEF Inv, Confirmations, SeedConfirmed
<1>14. Overlaps'
  <2>1. req'[r].user = u /\ \A q \in Requests \ {r} : req'[q].user # u
    BY <1>2, <1>3, <1>4
  <2>2. \A q \in Requests : req'[q].missed # {} => q # r /\ req'[q] = req[q]
    BY <1>2, <1>3
  <2>3. \A w \in Users : clobbered'[w] # {} => w \in overlapped'
    BY <1>1, <1>3 DEF Inv, Overlaps
  <2>4. \A p, q \in Requests :
          p # q /\ req'[p].user = req'[q].user => req'[p] = req[p] /\ req'[q] = req[q]
    BY <1>3, <2>1
  <2> QED BY <1>3, <2>2, <2>3, <2>4 DEF Inv, Overlaps
<1>15. Changes'
  <2>1. \A w \in present', f \in Fields :
          value'[w][f] # meant'[w][f] => f \in clobbered'[w]
    BY <1>1, <1>6, <1>7 DEF Inv, Changes
  <2>2. ASSUME NEW q \in Requests, Holds(q)', req'[q].user \in present' \ archived'
        PROVE  \A f \in Fields \ {req'[q].field} :
                 req'[q].copy[f] # meant'[req'[q].user][f] =>
                   f \in clobbered'[req'[q].user] \cup req'[q].missed
    BY <1>1, <1>8, <2>2 DEF Inv, Changes
  <2> QED BY <2>1, <2>2 DEF Changes
<1>16. Entries'
  <2>1. req'[r].at = "log" /\ \A q \in Requests \ {r} : req'[q] = req[q]
    BY <1>2, <1>3
  <2> QED BY <2>1 DEF Inv, Entries
<1>17. Trail'
  <2> SUFFICES ASSUME NEW w \in Users \ overlapped'
               PROVE  /\ \A q \in Requests : req'[q].user = w /\ Announces(q)' =>
                            req'[q].what = Now(w)'
                      /\ (\A q \in Requests : req'[q].user = w => ~Announces(q)')
                           => Told(w)'
    BY DEF Trail
  <2>1. CASE w = u
    <3>1. Now(w)' = "ACTIVE" /\ Announces(r)'
      BY <1>1, <1>2, <1>3, <1>5, <1>6, <2>1 DEF Now, Announces, StatusWords
    <3>2. \A q \in Requests : req'[q].user = w => q = r
      BY <1>3, <1>4, <2>1
    <3> QED BY <1>2, <1>3, <2>1, <3>1, <3>2
  <2>2. CASE w # u
    <3>1. Now(w)' = Now(w)
      BY <1>1, <1>6, <2>2 DEF Now
    <3>2. ~Announces(r)
      BY <1>1 DEF Announces, Begin
    <3> QED BY <1>1, <1>2, <1>3, <2>2, <3>1, <3>2, TrailOfOthers DEF Inv
  <2> QED BY <2>1, <2>2
<1> QED BY <1>9, <1>10, <1>11, <1>12, <1>13, <1>14, <1>15, <1>16, <1>17 DEF Inv

-----------------------------------------------------------------------------
(* A record is stored *)

\* What StoredFacts says of a request, with what r was doing before.
StoredBy(r, fields) ==
    /\ req'[r].at = "log" /\ Keeps(r) /\ req'[r].missed = req[r].missed
    /\ \A q \in Requests \ {r} :
         /\ req'[q].at = req[q].at /\ Keeps(q)
         /\ req'[q].missed = IF req[q].user = req[r].user
                             THEN req[q].missed \cup fields ELSE req[q].missed

LEMMA StoredNames ==
    ASSUME Names, NEW r \in Requests, NEW fields, StoredBy(r, fields),
           present' \cup erased' = present \cup erased, present' \cap erased' = {},
           archived' \subseteq present \cup erased,
           \A u \in Users : verified'[u] # verified[u] => u \in present
    PROVE  Names'
<1>1. \A q \in Requests : /\ req'[q].user = req[q].user
                          /\ req'[q].at = req[q].at \/ req'[q].at = "log"
  BY DEF StoredBy, Keeps
<1> QED BY <1>1 DEF Names

LEMMA StoredOverlaps ==
    ASSUME Overlaps, NEW r \in Requests, NEW fields, StoredBy(r, fields),
           req[r].user \in Users, UNCHANGED overlapped,
           \A u \in Users : clobbered'[u] # {} /\ clobbered'[u] # clobbered[u] =>
               u = req[r].user /\ clobbered'[u] \subseteq clobbered[u] \cup req[r].missed
    PROVE  Overlaps'
<1>1. \A q \in Requests : req'[q].user = req[q].user
  BY DEF StoredBy, Keeps
<1>2. ASSUME NEW q \in Requests, req'[q].missed # {}
      PROVE  req[q].user \in overlapped
  BY <1>2 DEF StoredBy, Overlaps
<1>3. ASSUME NEW u \in Users, clobbered'[u] # {}
      PROVE  u \in overlapped
  BY <1>3 DEF Overlaps
<1> QED BY <1>1, <1>2, <1>3 DEF Overlaps

LEMMA StoredEntries ==
    ASSUME Entries, NEW r \in Requests, NEW fields, StoredBy(r, fields)
    PROVE  Entries'
<1>1. req'[r].at = "log"
  BY DEF StoredBy
<1>2. \A q \in Requests \ {r} :
        /\ req'[q].at = req[q].at /\ req'[q].field = req[q].field
        /\ req'[q].what = req[q].what /\ req'[q].copy = req[q].copy
  BY DEF StoredBy, Keeps
<1> QED BY <1>1, <1>2 DEF Entries, Holds

\* Only the record of r's user is another.
LEMMA StoredTrail ==
    ASSUME Inv, NEW r \in Requests, NEW fields, StoredBy(r, fields), Pending(r),
           NEW w \in Users, w = req[r].user, UNCHANGED <<trail, overlapped>>,
           \A u \in Users \ {w} : Now(u)' = Now(u),
           req[r].what \in StatusWords => req[r].what = Now(w)',
           req[r].what \notin StatusWords /\ w \notin overlapped => Now(w)' = Now(w)
    PROVE  Trail'
<1> SUFFICES ASSUME NEW u \in Users \ overlapped'
             PROVE  /\ \A q \in Requests : req'[q].user = u /\ Announces(q)' =>
                          req'[q].what = Now(u)'
                    /\ (\A q \in Requests : req'[q].user = u => ~Announces(q)')
                         => Told(u)'
  BY DEF Trail
<1>1. /\ ~Announces(r) /\ req'[r].user = req[r].user /\ req'[r].what = req[r].what
      /\ Announces(r)' <=> req[r].what \in StatusWords
  BY DEF Announces, Pending, StoredBy, Keeps
<1>2. \A q \in Requests \ {r} : req'[q].at = req[q].at /\ req'[q].user = req[q].user
        /\ req'[q].what = req[q].what
  BY DEF StoredBy, Keeps
<1>3. CASE u = w
  <2>1. \A q \in Requests : req'[q].user = u => q = r
    BY <1>2, <1>3, Alone DEF Inv
  <2>2. CASE req[r].what \in StatusWords
    BY <1>1, <1>3, <2>1, <2>2
  <2>3. CASE req[r].what \notin StatusWords
    <3>1. Now(u)' = Now(u) /\ ~Announces(r)'
      BY <1>1, <1>3, <2>3
    <3> QED BY <1>1, <1>2, <3>1, TrailOfOthers DEF Inv
  <2> QED BY <2>2, <2>3
<1>4. CASE u # w
  <2>1. Now(u)' = Now(u)
    BY <1>4
  <2> QED BY <1>1, <1>2, <1>4, <2>1, TrailOfOthers DEF Inv
<1> QED BY <1>3, <1>4

LEMMA MeantFacts ==
    ASSUME NEW m \in [Users -> Record], NEW u \in Users, NEW f \in Fields, NEW v \in Texts
    PROVE  /\ [m EXCEPT ![u][f] = v] \in [Users -> Record]
           /\ [m EXCEPT ![u][f] = v][u][f] = v
           /\ \A g \in Fields \ {f} : [m EXCEPT ![u][f] = v][u][g] = m[u][g]
           /\ \A w \in Users \ {u} : [m EXCEPT ![u][f] = v][w] = m[w]
<1> DEFINE n == [m[u] EXCEPT ![f] = v]
<1>1. [m EXCEPT ![u][f] = v] = [m EXCEPT ![u] = n]
  OBVIOUS
<1>2. /\ n \in Record /\ n[f] = v /\ \A g \in Fields \ {f} : n[g] = m[u][g]
  BY ChangedFacts
<1> HIDE DEF n
<1> QED BY <1>1, <1>2

LEMMA ReplacesKeep ==
    ASSUME DirectoryAssumption, Inv, NEW r \in Requests, Replaces(r)
    PROVE  Inv'
<1>0. PICK u, f, c : u = req[r].user /\ f = req[r].field /\ c = req[r].copy
  OBVIOUS
<1>1. /\ Holds(r) /\ u \in present /\ ~Archived(u)
      /\ value' = [value EXCEPT ![u] = c]
      /\ verified' = [verified EXCEPT ![u] = req[r].confirmed]
      /\ meant' = [meant EXCEPT ![u][f] = c[f]]
      /\ clobbered' = [clobbered EXCEPT ![u] = (@ \cup req[r].missed) \ {f}]
      /\ moved' = (IF f = "email" THEN moved \cup {u} ELSE moved)
      /\ Stored(r, {f})
      /\ UNCHANGED <<present, archived, erased, trail, begun, overlapped>>
  BY <1>0 DEF Replaces, Replace, Others
<1>2. /\ u \in Users /\ f \in Fields /\ c \in Record /\ req[r].confirmed \subseteq Channels
      /\ req[r].missed \subseteq Fields
  BY <1>0, <1>1 DEF Inv, TypeOK, RequestStates
<1>3. req' \in [Requests -> RequestStates] /\ StoredBy(r, {f})
  BY <1>1, <1>2, StoredFacts DEF Inv, StoredBy
<1>4. /\ value'[u] = c /\ verified'[u] = req[r].confirmed
      /\ clobbered'[u] = (clobbered[u] \cup req[r].missed) \ {f}
      /\ \A w \in Users \ {u} : /\ value'[w] = value[w] /\ verified'[w] = verified[w]
                                /\ clobbered'[w] = clobbered[w]
  BY <1>1, <1>2 DEF Inv, TypeOK
<1>5. /\ meant' \in [Users -> Record]
      /\ meant'[u][f] = c[f] /\ \A g \in Fields \ {f} : meant'[u][g] = meant[u][g]
      /\ \A w \in Users \ {u} : meant'[w] = meant[w]
  <2>1. c[f] \in Texts /\ meant \in [Users -> Record]
    BY <1>2 DEF Inv, TypeOK, Record
  <2> DEFINE n == [meant EXCEPT ![u][f] = c[f]]
  <2>2. /\ n \in [Users -> Record]
        /\ n[u][f] = c[f] /\ \A g \in Fields \ {f} : n[u][g] = meant[u][g]
        /\ \A w \in Users \ {u} : n[w] = meant[w]
    BY <1>2, <2>1, MeantFacts
  <2>3. meant' = n
    BY <1>1
  <2> HIDE DEF n
  <2> QED BY <2>2, <2>3
<1>6. u \notin archived /\ Clean(c) /\ present \subseteq Users
  <2>1. u \notin archived
    BY <1>1, AnonymousFacts DEF Inv, Privacy, Archived
  <2> QED BY <1>0, <1>1, <2>1 DEF Inv, Privacy, TypeOK
<1>7. \A q \in Requests : Holds(q)' =>
        /\ q # r /\ Holds(q) /\ Keeps(q)
        /\ req'[q].missed = IF req[q].user = u THEN req[q].missed \cup {f}
                            ELSE req[q].missed
  BY <1>0, <1>3 DEF StoredBy, Holds
<1>8. TypeOK'
  BY <1>1, <1>2, <1>3, <1>5 DEF Inv, TypeOK
<1>9. Names'
  BY <1>1, <1>3, <1>4, StoredNames DEF Inv, Names
<1>10. Privacy'
  <2>1. \A w \in present : IF w \in archived THEN value'[w] = Anonymous
                                              ELSE Clean(value'[w])
    BY <1>4, <1>6 DEF Inv, Privacy
  <2> QED BY <1>1, <1>7, <2>1 DEF Inv, Privacy, Keeps
<1>11. Confirmations'
  <2>1. SeedConfirmed(u, c, req[r].confirmed)
    BY <1>0, <1>1 DEF Inv, Confirmations
  <2>2. \A w \in present : SeedConfirmed(w, value'[w], verified'[w])
    BY <1>4, <1>6, <2>1 DEF Inv, Confirmations
  <2>3. \A q \in Requests : Holds(q)' =>
          SeedConfirmed(req'[q].user, req'[q].copy, req'[q].confirmed)
    BY <1>7 DEF Inv, Confirmations, Keeps
  <2> QED BY <1>1, <2>2, <2>3 DEF Confirmations, SeedConfirmed
<1>12. Overlaps'
  BY <1>0, <1>1, <1>2, <1>3, <1>4, StoredOverlaps DEF Inv
<1>13. Entries'
  BY <1>3, StoredEntries DEF Inv
<1>14. Mail'
  <2>1. f # "email" /\ u \notin moved => c["email"] = value[u]["email"]
    BY <1>0, <1>1, <1>6 DEF Inv, Mail
  <2>2. SharedOnlyByMoving'
    <3> SUFFICES ASSUME NEW v \in present, NEW w \in present,
                        v # w, ~Archived(v)', ~Archived(w)',
                        value'[v]["email"] = value'[w]["email"], {v, w} \cap moved' = {}
                 PROVE  FALSE
      BY <1>1 DEF SharedOnlyByMoving
    <3>1. {v, w} \cap moved = {}
      BY <1>1
    <3>2. \A x \in {v, w} : x # u => value'[x] = value[x] /\ ~Archived(x)
      BY <1>4, <1>6 DEF Archived
    <3>3. u \in {v, w} => f # "email" /\ value'[u]["email"] = value[u]["email"]
      BY <1>1, <1>4, <2>1, <3>1
    <3>4. \A x \in {v, w} : value'[x]["email"] = value[x]["email"] /\ ~Archived(x)
      BY <1>1, <3>2, <3>3
    <3> QED BY <3>1, <3>4 DEF Inv, Mail, SharedOnlyByMoving
  <2>3. ASSUME NEW q \in Requests, Holds(q)',
               req'[q].user \in present' \ (archived' \cup moved'),
               req'[q].field # "email"
        PROVE  req'[q].copy["email"] = value'[req'[q].user]["email"]
    <3>1. Holds(q) /\ Keeps(q)
      BY <1>7, <2>3
    <3>2. req[q].user \in present \ (archived \cup moved) /\ req[q].field # "email"
      BY <1>1, <2>3, <3>1 DEF Keeps
    <3>3. req[q].copy["email"] = value[req[q].user]["email"]
      BY <3>1, <3>2 DEF Inv, Mail
    <3>4. value'[req[q].user]["email"] = value[req[q].user]["email"]
      <4>1. CASE req[q].user = u
        BY <1>1, <1>4, <2>1, <2>3, <3>1, <4>1 DEF Keeps
      <4>2. CASE req[q].user # u
        BY <1>4, <1>6, <3>2, <4>2
      <4> QED BY <4>1, <4>2
    <3> QED BY <3>1, <3>3, <3>4 DEF Keeps
  <2> QED BY <2>2, <2>3 DEF Mail
<1>15. Changes'
  <2>1. \A g \in Fields \ {f} : c[g] # meant[u][g] => g \in clobbered[u] \cup req[r].missed
    BY <1>0, <1>1, <1>6 DEF Inv, Changes
  <2>2. ASSUME NEW w \in present, NEW g \in Fields, value'[w][g] # meant'[w][g]
        PROVE  g \in clobbered'[w]
    <3>1. CASE w = u
      BY <1>4, <1>5, <2>1, <2>2, <3>1
    <3>2. CASE w # u
      BY <1>4, <1>5, <1>6, <2>2, <3>2 DEF Inv, Changes
    <3> QED BY <3>1, <3>2
  <2>3. ASSUME NEW q \in Requests, Holds(q)', req'[q].user \in present' \ archived',
               NEW g \in Fields \ {req'[q].field},
               req'[q].copy[g] # meant'[req'[q].user][g]
        PROVE  g \in clobbered'[req'[q].user] \cup req'[q].missed
    <3>1. Holds(q) /\ Keeps(q)
      BY <1>7, <2>3
    <3>2. req[q].user \in present \ archived /\ g \in Fields \ {req[q].field}
      BY <1>1, <2>3, <3>1 DEF Keeps
    <3>3. req[q].copy[g] # meant[req[q].user][g] =>
            g \in clobbered[req[q].user] \cup req[q].missed
      BY <3>1, <3>2 DEF Inv, Changes
    <3>4. CASE req[q].user = u
      <4>1. req'[q].missed = req[q].missed \cup {f}
        BY <1>7, <2>3, <3>4
      <4>2. CASE g = f
        BY <4>1, <4>2
      <4>3. CASE g # f
        BY <1>4, <1>5, <2>3, <3>1, <3>3, <3>4, <4>1, <4>3 DEF Keeps
      <4> QED BY <4>2, <4>3
    <3>5. CASE req[q].user # u
      <4>1. req[q].user \in Users \ {u} /\ req'[q].missed = req[q].missed
        BY <1>6, <1>7, <2>3, <3>2, <3>5
      <4>2. /\ clobbered'[req[q].user] = clobbered[req[q].user]
            /\ meant'[req[q].user] = meant[req[q].user]
        BY <1>4, <1>5, <4>1
      <4> QED BY <2>3, <3>1, <3>3, <4>1, <4>2 DEF Keeps
    <3> QED BY <3>4, <3>5
  <2> QED BY <1>1, <2>2, <2>3 DEF Changes
<1>16. Trail'
  <2>1. Pending(r) /\ req[r].user \in Users
    BY <1>0, <1>1, <1>2 DEF Holds, Pending
  <2>2. \A w \in Users \ {u} : Now(w)' = Now(w)
    BY <1>0, <1>1, <1>4 DEF Now
  <2>3. Now(u)' = c["status"]
    BY <1>1, <1>4 DEF Now
  <2>4. f = "status" => req[r].what = c["status"]
    BY <1>0, <1>1 DEF Inv, Entries
  <2>5. f # "status" => req[r].what \notin StatusWords
    BY <1>0, <1>1 DEF Inv, Entries
  <2>6. f # "status" /\ u \notin overlapped => Now(u)' = Now(u)
    <3> SUFFICES ASSUME f # "status", u \notin overlapped
                 PROVE  c["status"] = value[u]["status"]
      BY <1>1, <2>3 DEF Now
    <3>1. clobbered[u] = {} /\ req[r].missed = {}
      BY <1>0, <1>2 DEF Inv, Overlaps
    <3>2. c["status"] = meant[u]["status"]
      BY <1>0, <1>1, <1>6, <3>1, FieldFacts DEF Inv, Changes
    <3>3. value[u]["status"] = meant[u]["status"]
      BY <1>1, <3>1, FieldFacts DEF Inv, Changes
    <3> QED BY <3>2, <3>3
  <2>7. req[r].what \in StatusWords => req[r].what = Now(u)'
    BY <2>3, <2>4, <2>5
  <2>8. req[r].what \notin StatusWords /\ u \notin overlapped => Now(u)' = Now(u)
    <3>1. f = "status" => req[r].what \in StatusWords
      BY <1>0, <1>1 DEF Inv, Entries
    <3> QED BY <2>6, <3>1
  <2> QED BY <1>0, <1>1, <1>3, <2>1, <2>2, <2>7, <2>8, StoredTrail
<1> QED BY <1>8, <1>9, <1>10, <1>11, <1>12, <1>13, <1>14, <1>15, <1>16 DEF Inv

\* A record is shredded.
LEMMA ShredsKeep ==
    ASSUME DirectoryAssumption, Inv, NEW r \in Requests, Shreds(r)
    PROVE  Inv'
<1>0. PICK u : u = req[r].user
  OBVIOUS
<1>1. /\ req[r].at = "shred" /\ u \in present
      /\ value' = [value EXCEPT ![u] = Anonymous]
      /\ meant' = [meant EXCEPT ![u] = Anonymous]
      /\ clobbered' = [clobbered EXCEPT ![u] = {}]
      /\ archived' = archived \cup {u} /\ Stored(r, Fields)
      /\ UNCHANGED <<present, verified, erased, moved, trail, begun, overlapped>>
  BY <1>0 DEF Shreds, Shred
<1>2. u \in Users /\ present \subseteq Users
  BY <1>1 DEF Inv, TypeOK
<1>3. req' \in [Requests -> RequestStates] /\ StoredBy(r, Fields)
  BY StoredFacts, <1>1 DEF Inv, StoredBy
<1>4. /\ value'[u] = Anonymous /\ meant'[u] = Anonymous /\ clobbered'[u] = {}
      /\ \A w \in Users \ {u} : /\ value'[w] = value[w] /\ meant'[w] = meant[w]
                                /\ clobbered'[w] = clobbered[w]
  BY <1>1, <1>2 DEF Inv, TypeOK
<1>5. \A q \in Requests : Holds(q)' => q # r /\ Holds(q) /\ Keeps(q)
  BY <1>3 DEF StoredBy, Holds
<1>6. TypeOK'
  BY <1>1, <1>2, <1>3, AnonymousFacts DEF Inv, TypeOK
<1>7. Names'
  BY <1>1, <1>3, StoredNames DEF Inv, Names
<1>8. Privacy'
  <2>1. \A w \in present : IF w \in archived' THEN value'[w] = Anonymous
                                               ELSE Clean(value'[w])
    BY <1>1, <1>2, <1>4 DEF Inv, Privacy
  <2> QED BY <1>1, <1>5, <2>1 DEF Inv, Privacy, Keeps
<1>9. Confirmations'
  <2>1. \A w \in present : SeedConfirmed(w, value'[w], verified[w])
    <3>1. SeedConfirmed(u, Anonymous, verified[u])
      BY <1>1, <1>2, AnonymousFacts DEF Inv, TypeOK, Confirmations, SeedConfirmed
    <3> QED BY <1>2, <1>4, <3>1 DEF Inv, Confirmations
  <2>2. \A q \in Requests : Holds(q)' =>
          SeedConfirmed(req'[q].user, req'[q].copy, req'[q].confirmed)
    BY <1>5 DEF Inv, Confirmations, Keeps
  <2> QED BY <1>1, <2>1, <2>2 DEF Confirmations, SeedConfirmed
<1>10. Overlaps'
  BY <1>0, <1>1, <1>2, <1>3, <1>4, StoredOverlaps DEF Inv
<1>11. Entries'
  BY <1>3, StoredEntries DEF Inv
<1>12. ASSUME NEW q \in Requests, Holds(q)', req'[q].user \in present' \ archived'
       PROVE  /\ q # r /\ Holds(q) /\ Keeps(q)
              /\ req[q].user \in Users \ {u} /\ req[q].user \in present \ archived
              /\ req'[q].missed = req[q].missed
  <2>1. q # r /\ Holds(q) /\ Keeps(q)
    BY <1>5, <1>12
  <2>2. req[q].user \in Users \ {u} /\ req[q].user \in present \ archived
    BY <1>1, <1>2, <1>12, <2>1 DEF Keeps
  <2> QED BY <1>0, <1>3, <2>1, <2>2 DEF StoredBy
<1>13. Mail'
  <2>1. SharedOnlyByMoving'
    <3>1. Archived(u)'
      BY <1>0, <1>4, AnonymousFacts DEF Archived
    <3>2. \A w \in present : ~Archived(w)' => w # u /\ value'[w] = value[w] /\ ~Archived(w)
      BY <1>2, <1>4, <3>1 DEF Archived
    <3> QED BY <1>1, <3>2 DEF Inv, Mail, SharedOnlyByMoving
  <2>2. ASSUME NEW q \in Requests, Holds(q)',
               req'[q].user \in present' \ (archived' \cup moved'),
               req'[q].field # "email"
        PROVE  req'[q].copy["email"] = value'[req'[q].user]["email"]
    BY <1>1, <1>4, <1>12, <2>2 DEF Inv, Mail, Keeps
  <2> QED BY <2>1, <2>2 DEF Mail
<1>14. Changes'
  <2>1. \A w \in present', f \in Fields :
          value'[w][f] # meant'[w][f] => f \in clobbered'[w]
    BY <1>1, <1>2, <1>4 DEF Inv, Changes
  <2>2. ASSUME NEW q \in Requests, Holds(q)', req'[q].user \in present' \ archived',
               NEW f \in Fields \ {req'[q].field},
               req'[q].copy[f] # meant'[req'[q].user][f]
        PROVE  f \in clobbered'[req'[q].user] \cup req'[q].missed
    <3>1. /\ Holds(q) /\ Keeps(q) /\ req[q].user \in present \ archived
          /\ req'[q].missed = req[q].missed
      BY <1>12, <2>2
    <3>2. meant'[req[q].user] = meant[req[q].user]
          /\ clobbered'[req[q].user] = clobbered[req[q].user]
      BY <1>4, <1>12, <2>2
    <3> QED BY <2>2, <3>1, <3>2 DEF Inv, Changes, Keeps
  <2> QED BY <2>1, <2>2 DEF Changes
<1>15. Trail'
  <2>1. \A w \in Users \ {u} : Now(w)' = Now(w)
    BY <1>1, <1>4 DEF Now
  <2>2. req[r].what = "ARCHIVED" /\ Now(u)' = "ARCHIVED"
    BY <1>1, <1>4, AnonymousFacts DEF Inv, Entries, Now
  <2> QED BY <1>0, <1>1, <1>2, <1>3, <2>1, <2>2, StoredTrail DEF Pending, StatusWords
<1> QED BY <1>6, <1>7, <1>8, <1>9, <1>10, <1>11, <1>13, <1>14, <1>15 DEF Inv

\* A record is erased.
LEMMA ErasesKeep ==
    ASSUME DirectoryAssumption, Inv, NEW r \in Requests, Erases(r)
    PROVE  Inv'
<1>0. PICK u : u = req[r].user
  OBVIOUS
<1>1. /\ req[r].at = "erase" /\ u \in present
      /\ present' = present \ {u} /\ erased' = erased \cup {u} /\ Stored(r, Fields)
      /\ UNCHANGED <<value, verified, meant, clobbered, archived, moved>>
      /\ UNCHANGED <<trail, begun, overlapped>>
  BY <1>0 DEF Erases, Erase
<1>2. u \in Users /\ present \subseteq Users
  BY <1>1 DEF Inv, TypeOK
<1>3. req' \in [Requests -> RequestStates] /\ StoredBy(r, Fields)
  BY StoredFacts, <1>1 DEF Inv, StoredBy
<1>4. \A q \in Requests : Holds(q)' => q # r /\ Holds(q) /\ Keeps(q)
  BY <1>3 DEF StoredBy, Holds
<1>5. TypeOK'
  BY <1>1, <1>2, <1>3 DEF Inv, TypeOK
<1>6. Names'
  BY <1>1, <1>3, StoredNames DEF Inv, Names
<1>7. Privacy'
  BY <1>1, <1>4 DEF Inv, Privacy, Keeps
<1>8. Confirmations'
  BY <1>1, <1>4 DEF Inv, Confirmations, SeedConfirmed, Keeps
<1>9. Overlaps'
  BY <1>0, <1>1, <1>2, <1>3, StoredOverlaps DEF Inv
<1>10. Entries'
  BY <1>3, StoredEntries DEF Inv
<1>11. \A q \in Requests : Holds(q)' /\ req'[q].user \in present' =>
         /\ q # r /\ Holds(q) /\ Keeps(q) /\ req[q].user \in present
         /\ req'[q].missed = req[q].missed
  BY <1>0, <1>1, <1>3, <1>4 DEF StoredBy, Keeps
<1>12. Mail'
  <2>1. SharedOnlyByMoving'
    BY <1>1 DEF Inv, Mail, SharedOnlyByMoving, Archived
  <2> QED BY <1>1, <1>11, <2>1 DEF Inv, Mail, Keeps
<1>13. Changes'
  BY <1>1, <1>11 DEF Inv, Changes, Keeps
<1>14. Trail'
  <2>1. \A w \in Users \ {u} : Now(w)' = Now(w)
    BY <1>1 DEF Now
  <2>2. req[r].what = "ERASED" /\ Now(u)' = "ERASED"
    BY <1>0, <1>1 DEF Inv, Entries, Now
  <2> QED BY <1>0, <1>1, <1>2, <1>3, <2>1, <2>2, StoredTrail DEF Pending, StatusWords
<1> QED BY <1>5, <1>6, <1>7, <1>8, <1>9, <1>10, <1>12, <1>13, <1>14 DEF Inv

-----------------------------------------------------------------------------
(* The entry of the trail is written *)

LEMMA AppendFacts ==
    ASSUME TypeOK, NEW entry \in [user : Users \cup {NoUser}, what : Words],
           trail' = Append(trail, entry), NEW u \in Users
    PROVE  /\ Len(trail) + 1 \in DOMAIN trail' /\ trail'[Len(trail) + 1] = entry
           /\ \A i \in DOMAIN trail' : i \in Nat /\ i <= Len(trail) + 1
           /\ About(u) \subseteq DOMAIN trail
           /\ \A i \in About(u) : trail'[i] = trail[i]
           /\ About(u)' = About(u) \cup (IF entry.user = u /\ entry.what \in StatusWords
                                         THEN {Len(trail) + 1} ELSE {})
<1>1. trail \in Seq([user : Users \cup {NoUser}, what : Words])
  BY DEF TypeOK
<1>2. /\ DOMAIN trail = 1..Len(trail) /\ DOMAIN trail' = 1..(Len(trail) + 1)
      /\ Len(trail) \in Nat /\ trail'[Len(trail) + 1] = entry
      /\ \A i \in 1..Len(trail) : trail'[i] = trail[i]
  BY <1>1
<1> QED BY <1>2 DEF About

LEMMA LogsKeep ==
    ASSUME DirectoryAssumption, Inv, NEW r \in Requests, CreateAuditLog(r)
    PROVE  Inv'
<1> USE DEF Holds
<1> DEFINE entry == [user |-> req[r].user, what |-> req[r].what]
<1>1. /\ req[r].at = "log" /\ trail' = Append(trail, entry)
      /\ req' = [req EXCEPT ![r] = Idle]
      /\ UNCHANGED <<present, value, verified, begun, meant, clobbered>>
      /\ UNCHANGED <<archived, erased, moved, overlapped>>
  BY DEF CreateAuditLog, store, history
<1>2. /\ req' \in [Requests -> RequestStates]
      /\ req'[r] = Idle /\ \A q \in Requests \ {r} : req'[q] = req[q]
  BY <1>1, EndFacts DEF Inv
<1>3. entry \in [user : Users \cup {NoUser}, what : Words]
  BY DEF Inv, TypeOK, RequestStates
<1>4. Idle.at = "idle" /\ Idle.user = NoUser /\ Idle.missed = {}
  BY DEF Idle
<1>5. TypeOK'
  BY <1>1, <1>2, <1>3 DEF Inv, TypeOK
<1>6. Names'
  BY <1>1, <1>2, <1>4 DEF Inv, Names
<1>7. Privacy'
  BY <1>1, <1>2, <1>4 DEF Inv, Privacy
<1>8. Mail'
  <2>1. SharedOnlyByMoving'
    BY <1>1 DEF Inv, Mail, SharedOnlyByMoving, Archived
  <2> QED BY <1>1, <1>2, <1>4, <2>1 DEF Inv, Mail
<1>9. Confirmations'
  BY <1>1, <1>2, <1>4 DEF Inv, Confirmations
<1>10. Overlaps'
  BY <1>1, <1>2, <1>4 DEF DirectoryAssumption, Inv, Overlaps
<1>11. Changes'
  BY <1>1, <1>2, <1>4 DEF Inv, Changes
<1>12. Entries'
  BY <1>2, <1>4 DEF Inv, Entries
<1>13. Trail'
  <2> HIDE DEF entry
  <2> SUFFICES ASSUME NEW u \in Users \ overlapped
               PROVE  /\ \A q \in Requests : req'[q].user = u /\ Announces(q)' =>
                            req'[q].what = Now(u)'
                      /\ (\A q \in Requests : req'[q].user = u => ~Announces(q)')
                           => Told(u)'
    BY <1>1 DEF Trail
  <2>1. Now(u)' = Now(u)
    BY <1>1 DEF Now
  <2>2. ~Announces(r)' /\ \A q \in Requests \ {r} : Announces(q)' <=> Announces(q)
    BY <1>2, <1>4 DEF Announces
  <2>3. /\ \A q \in Requests : req[q].user = u /\ Announces(q) => req[q].what = Now(u)
        /\ (\A q \in Requests : req[q].user = u => ~Announces(q)) => Told(u)
    BY DEF Inv, Trail
  <2>4. \A q \in Requests : req'[q].user = u /\ Announces(q)' => req'[q].what = Now(u)'
    BY <1>2, <2>1, <2>2, <2>3
  <2>5. /\ Len(trail) + 1 \in DOMAIN trail' /\ trail'[Len(trail) + 1] = entry
        /\ \A i \in DOMAIN trail' : i \in Nat /\ i <= Len(trail) + 1
        /\ About(u) \subseteq DOMAIN trail
        /\ \A i \in About(u) : trail'[i] = trail[i]
        /\ About(u)' = About(u) \cup (IF entry.user = u /\ entry.what \in StatusWords
                                      THEN {Len(trail) + 1} ELSE {})
    BY <1>1, <1>3, AppendFacts DEF Inv
  <2>6. /\ entry.user = req[r].user /\ entry.what = req[r].what
        /\ Announces(r) <=> req[r].what \in StatusWords
    BY <1>1 DEF entry, Announces
  <2>7. CASE entry.user = u /\ entry.what \in StatusWords
    <3>1. entry.what = Now(u)'
      BY <2>1, <2>3, <2>6, <2>7
    <3>2. Len(trail) + 1 \in About(u)'
      BY <2>5, <2>7
    <3>3. \A j \in About(u)' : j <= Len(trail) + 1
      BY <2>5 DEF About
    <3>4. Told(u)'
      BY <2>5, <3>1, <3>2, <3>3 DEF Told
    <3> QED BY <2>4, <3>4
  <2>8. CASE ~(entry.user = u /\ entry.what \in StatusWords)
    <3>1. About(u)' = About(u)
      BY <2>5, <2>8
    <3>2. Told(u) => Told(u)'
      BY <2>1, <2>5, <3>1 DEF Told
    <3>3. (\A q \in Requests : req'[q].user = u => ~Announces(q)') =>
            (\A q \in Requests : req[q].user = u => ~Announces(q))
      BY <1>2, <2>2, <2>6, <2>8
    <3> QED BY <2>3, <2>4, <3>2, <3>3
  <2> QED BY <2>7, <2>8
<1> QED BY <1>5, <1>6, <1>7, <1>8, <1>9, <1>10, <1>11, <1>12, <1>13 DEF Inv

-----------------------------------------------------------------------------
(* The invariant *)

LEMMA InitInv ==
    ASSUME DirectoryAssumption
    PROVE  Init => Inv
<1> SUFFICES ASSUME Init PROVE Inv
  OBVIOUS
<1>1. \A u \in Users : /\ Fresh(SeedAddress[u]) \in Record
                       /\ Clean(Fresh(SeedAddress[u]))
                       /\ \A c \in Channels : Fresh(SeedAddress[u])[c] = SeedAddress[u]
  BY FreshFacts DEF DirectoryAssumption
<1>2. /\ \A r \in Requests : req[r] = Idle
      /\ \A u \in Users : value[u] = Fresh(SeedAddress[u])
      /\ Seeded \subseteq Users
  BY DEF DirectoryAssumption, Init
<1>3. Idle.at = "idle" /\ Idle.user = NoUser /\ Idle.missed = {}
  BY DEF Idle
<1>4. TypeOK
  BY <1>1, IdleType DEF DirectoryAssumption, Init, TypeOK
<1>5. Names
  BY <1>2, <1>3 DEF DirectoryAssumption, Init, Names
<1>6. Privacy
  BY <1>1, <1>2, <1>3 DEF Init, Privacy, Holds
<1>7. Mail
  BY <1>1, <1>2, <1>3, FieldFacts
     DEF DirectoryAssumption, Init, Mail, SharedOnlyByMoving, Holds
<1>8. Confirmations
  BY <1>1, <1>2, <1>3 DEF DirectoryAssumption, Init, Confirmations, SeedConfirmed, Holds
<1>9. Overlaps
  BY <1>2, <1>3 DEF DirectoryAssumption, Init, Overlaps
<1>10. Changes
  BY <1>2, <1>3 DEF Init, Changes, Holds
<1>11. Entries
  BY <1>2, <1>3 DEF Entries, Holds
<1>12. Trail
  BY <1>2, <1>3 DEF Init, Trail, Announces, Told, About
<1> QED BY <1>4, <1>5, <1>6, <1>7, <1>8, <1>9, <1>10, <1>11, <1>12 DEF Inv

LEMMA StutterInv == Inv /\ UNCHANGED vars => Inv'
BY DEF Inv, vars, store, history, TypeOK, Names, Privacy, Mail, SharedOnlyByMoving,
       Archived, Confirmations, SeedConfirmed, Overlaps, Changes, Entries, Trail,
       Announces, Holds, Now, Told, About

LEMMA NextInv ==
    ASSUME DirectoryAssumption
    PROVE  Inv /\ [Next]_vars => Inv'
<1> SUFFICES ASSUME Inv, Next PROVE Inv'
  BY StutterInv
<1>1. PICK r \in Requests : Kinds(r)
  BY StepKinds DEF Inv
<1> QED BY <1>1, StartsKeep, CreatesKeep, EndsKeep, ReplacesKeep, ShredsKeep,
           ErasesKeep, LogsKeep DEF Kinds

LEMMA Invariance ==
    ASSUME DirectoryAssumption
    PROVE  Spec => []Inv
<1>1. Init => Inv
  BY InitInv
<1>2. Inv /\ [Next]_vars => Inv'
  BY NextInv
<1> QED BY <1>1, <1>2, PTL DEF Spec

-----------------------------------------------------------------------------
(* Theorems *)

\* The types of the directory hold for any number of users and requests.
THEOREM DirectoryTypes ==
    ASSUME DirectoryAssumption
    PROVE  Spec => []TypeOK
<1>1. Inv => TypeOK
  BY DEF Inv
<1> QED BY <1>1, Invariance, PTL

\* What DeleteSoft and DeleteHard removed stays removed, whatever copy a
\* handler still holds (user_db.go:168, 259).
THEOREM RemovedStaysRemoved ==
    ASSUME DirectoryAssumption
    PROVE  Spec => []ArchivedForGood
<1>1. Inv => ArchivedForGood
  BY DEF Inv, Names, Privacy, ArchivedForGood, Clean
<1> QED BY <1>1, Invariance, PTL

\* CreateUser keeps live addresses apart until UpdateEmail moves one.
THEOREM AddressesStayApart ==
    ASSUME DirectoryAssumption
    PROVE  Spec => []SharedOnlyByMoving
<1>1. Inv => SharedOnlyByMoving
  BY DEF Inv, Mail
<1> QED BY <1>1, Invariance, PTL

\* No order of stores makes a changed address a confirmed one.
THEOREM ConfirmationsStayEarned ==
    ASSUME DirectoryAssumption
    PROVE  Spec => []ConfirmedIsSeeded
<1>1. Inv => ConfirmedIsSeeded
  BY DEF Inv, Confirmations, SeedConfirmed, ConfirmedIsSeeded
<1> QED BY <1>1, Invariance, PTL

\* A change is lost only to a request that overlapped it and read before.
THEOREM ChangesStayUnlessOverlapped ==
    ASSUME DirectoryAssumption
    PROVE  Spec => []ChangesHold
<1>1. Inv => ChangesHold
  BY DEF Inv, TypeOK, Changes, Overlaps, ChangesHold
<1> QED BY <1>1, Invariance, PTL

\* The trail tells the status of every user about whom requests came one
\* after the other.
THEOREM TrailStaysTrue ==
    ASSUME DirectoryAssumption
    PROVE  Spec => []TrailTellsStatus
<1>1. Inv => TrailTellsStatus
  BY DEF Inv, Trail, TrailTellsStatus, Busy
<1> QED BY <1>1, Invariance, PTL
=============================================================================
