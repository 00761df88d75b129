---------------------------- MODULE OrgMembership ----------------------------
(***************************************************************************)
(* The workspaces, teams and invitations of the organization-service       *)
(* (service/org_service.go over db/org_db.go).                             *)
(*                                                                         *)
(* Each call of the store holds its mutex.  An invitation is read, judged  *)
(* by its copy and stored as a whole; the one that is accepted enrols the  *)
(* user with a third call, whose error is dropped.  One tenant; names,     *)
(* roles and e-mail addresses decide nothing and are left out.             *)
(***************************************************************************)
EXTENDS Integers, FiniteSets

CONSTANTS
    Requests,
    Users, Leader,
    Teams, NoTeam, SeedTeam,    \* an invitation may name no team
    Invitations, NoInvitation,
    Workspaces, NoWorkspace, SeedSpace,
    MaxBegun            \* bound: requests

MembershipAssumption ==
    /\ NoTeam \notin Teams /\ NoInvitation \notin Invitations
    /\ NoWorkspace \notin Workspaces
    /\ Leader \in Users /\ SeedTeam \in Teams /\ SeedSpace \in Workspaces
    /\ MaxBegun \in Nat

VARIABLES
    teams,          \* teams that were created; nothing else asks for them
    members,        \* <<team, user>>, each once
    invitation,     \* the team and status of each
    due,            \* invitations whose ExpiresAt has passed
    workspaces,     \* status of each, "none" if it is not stored
    req,            \* what each request is doing
    begun,
    came,           \* history: users each invitation has let in
    crossed,        \* history: invitations and workspaces that two requests
                    \* had copies of at once
    removed,        \* history: workspaces that were deleted
    wanted          \* history: the last status a workspace was given

vars == <<teams, members, invitation, due, workspaces, req, begun, came, crossed,
          removed, wanted>>

\* "expire", "accept" and "revoke" before UpdateInvitation, "enrol" before
\* AddTeamMember, "save" before UpdateWorkspace.
Idle == [at |-> "idle", of |-> NoInvitation, user |-> Leader,
         space |-> NoWorkspace, status |-> "none", given |-> FALSE]
NotSent == [team |-> NoTeam, status |-> "none"]

Init ==
    /\ teams = {SeedTeam} /\ members = {<<SeedTeam, Leader>>}
    /\ invitation = [i \in Invitations |-> NotSent]
    /\ due = {}
    /\ workspaces = [w \in Workspaces |-> IF w = SeedSpace THEN "ACTIVE" ELSE "none"]
    /\ req = [r \in Requests |-> Idle]
    /\ begun = 0
    /\ came = [i \in Invitations |-> {}]
    /\ crossed = {} /\ removed = {} /\ wanted = workspaces

Holding(x) == {r \in Requests : x \in {req[r].of, req[r].space}}
Counted == begun < MaxBegun /\ begun' = begun + 1
End(r) == req' = [req EXCEPT ![r] = Idle]

-----------------------------------------------------------------------------
(* Requests of one call *)

CreateTeam(t) ==
    /\ t \notin teams
    /\ Counted
    /\ teams' = teams \cup {t}
    /\ UNCHANGED <<members, invitation, due, workspaces, req, came, crossed, removed,
                   wanted>>

\* Whether the team exists is not asked.
AddTeamMember(t, u) ==
    /\ Counted
    /\ members' = members \cup {<<t, u>>}
    /\ UNCHANGED <<teams, invitation, due, workspaces, req, came, crossed, removed,
                   wanted>>

RemoveTeamMember(t, u) ==
    /\ <<t, u>> \in members
    /\ Counted
    /\ members' = members \ {<<t, u>>}
    /\ UNCHANGED <<teams, invitation, due, workspaces, req, came, crossed, removed,
                   wanted>>

InviteUser(i, t) ==
    /\ invitation[i].status = "none"
    /\ Counted
    /\ invitation' = [invitation EXCEPT ![i] = [team |-> t, status |-> "PENDING"]]
    /\ UNCHANGED <<teams, members, due, workspaces, req, came, crossed, removed, wanted>>

CreateWorkspace(w) ==
    /\ workspaces[w] = "none" /\ w \notin removed
    /\ Counted
    /\ workspaces' = [workspaces EXCEPT ![w] = "ACTIVE"]
    /\ wanted' = [wanted EXCEPT ![w] = "ACTIVE"]
    /\ UNCHANGED <<teams, members, invitation, due, req, came, crossed, removed>>

DeleteWorkspace(w) ==
    /\ workspaces[w] # "none"
    /\ Counted
    /\ workspaces' = [workspaces EXCEPT ![w] = "none"]
    /\ removed' = removed \cup {w}
    /\ UNCHANGED <<teams, members, invitation, due, req, came, crossed, wanted>>

\* Seven days have passed.
Expire(i) ==
    /\ invitation[i].status # "none" /\ i \notin due
    /\ due' = due \cup {i}
    /\ UNCHANGED <<teams, members, invitation, workspaces, req, begun, came, crossed,
                   removed, wanted>>

-----------------------------------------------------------------------------
(* AcceptInvitation, RevokeInvitation, UpdateWorkspace *)

\* r has read x.
Hold(r, x, state) ==
    /\ req[r].at = "idle"
    /\ Counted
    /\ req' = [req EXCEPT ![r] = state]
    /\ crossed' = IF Holding(x) # {} THEN crossed \cup {x} ELSE crossed
    /\ UNCHANGED <<teams, members, invitation, due, workspaces, came, removed, wanted>>

\* Fault: the status of the copy is not looked at.
AcceptUnchecked(r, i, u) ==
    /\ invitation[i].status # "none"
    /\ Hold(r, i, [Idle EXCEPT !.of = i, !.user = u,
                     !.at = IF i \in due THEN "expire" ELSE "accept"])

AcceptInvitation(r, i, u) ==
    /\ invitation[i].status = "PENDING"
    /\ Hold(r, i, [Idle EXCEPT !.of = i, !.user = u,
                     !.at = IF i \in due THEN "expire" ELSE "accept"])

RevokeInvitation(r, i) ==
    /\ invitation[i].status = "PENDING"
    /\ Hold(r, i, [Idle EXCEPT !.of = i, !.at = "revoke"])

\* A copy is stored with its new status, over whatever was stored since.
UpdateInvitation(r) ==
    LET i == req[r].of
        new == CASE req[r].at = "expire" -> "EXPIRED"
                 [] req[r].at = "accept" -> "ACCEPTED"
                 [] req[r].at = "revoke" -> "REVOKED"
    IN  /\ req[r].at \in {"expire", "accept", "revoke"}
        /\ invitation' = [invitation EXCEPT ![i].status = new]
        /\ IF new = "ACCEPTED" /\ invitation[i].team # NoTeam
           THEN req' = [req EXCEPT ![r].at = "enrol"] ELSE End(r)
        /\ UNCHANGED <<teams, members, due, workspaces, begun, came, crossed, removed,
                       wanted>>

\* A member who is in already is an error that nobody reads.
Enrol(r) ==
    LET i == req[r].of IN
    /\ req[r].at = "enrol"
    /\ members' = members \cup {<<invitation[i].team, req[r].user>>}
    /\ came' = [came EXCEPT ![i] = @ \cup {req[r].user}]
    /\ End(r)
    /\ UNCHANGED <<teams, invitation, due, workspaces, begun, crossed, removed, wanted>>

\* A new name, a new status or both: what is not given is stored as it was read.
UpdateWorkspace(r, w, status, given) ==
    /\ workspaces[w] # "none"
    /\ Hold(r, w, [Idle EXCEPT !.at = "save", !.space = w, !.given = given,
                     !.status = IF given THEN status ELSE workspaces[w]])

\* Fault: a workspace that is gone is stored again.
SaveOrInsert(r) ==
    LET w == req[r].space IN
    /\ req[r].at = "save"
    /\ workspaces' = [workspaces EXCEPT ![w] = req[r].status]
    /\ End(r)
    /\ UNCHANGED <<teams, members, invitation, due, begun, came, crossed, removed,
                   wanted>>

SaveWorkspace(r) ==
    LET w == req[r].space IN
    /\ req[r].at = "save"
    /\ IF workspaces[w] = "none" THEN UNCHANGED <<workspaces, wanted>>
       ELSE /\ workspaces' = [workspaces EXCEPT ![w] = req[r].status]
            /\ wanted' = IF req[r].given THEN [wanted EXCEPT ![w] = req[r].status]
                         ELSE wanted
    /\ End(r)
    /\ UNCHANGED <<teams, members, invitation, due, begun, came, crossed, removed>>

Next ==
    \/ \E t \in Teams : CreateTeam(t)
    \/ \E t \in Teams, u \in Users : AddTeamMember(t, u) \/ RemoveTeamMember(t, u)
    \/ \E i \in Invitations : \/ Expire(i)
                              \/ \E t \in Teams \cup {NoTeam} : InviteUser(i, t)
    \/ \E w \in Workspaces : CreateWorkspace(w) \/ DeleteWorkspace(w)
    \/ \E r \in Requests :
         \/ \E i \in Invitations : \/ RevokeInvitation(r, i)
                                   \/ \E u \in Users : AcceptInvitation(r, i, u)
         \/ \E w \in Workspaces, status \in {"ACTIVE", "ARCHIVED"}, given \in BOOLEAN :
              UpdateWorkspace(r, w, status, given)
         \/ UpdateInvitation(r) \/ Enrol(r) \/ SaveWorkspace(r)

Spec == Init /\ [][Next]_vars

-----------------------------------------------------------------------------
(* Properties *)

Statuses == {"none", "PENDING", "ACCEPTED", "REVOKED", "EXPIRED"}
SpaceStatuses == {"none", "ACTIVE", "ARCHIVED"}

TypeOK ==
    /\ teams \subseteq Teams /\ members \subseteq Teams \X Users
    /\ invitation \in [Invitations -> [team : Teams \cup {NoTeam}, status : Statuses]]
    /\ due \subseteq Invitations
    /\ workspaces \in [Workspaces -> SpaceStatuses]
    /\ wanted \in [Workspaces -> SpaceStatuses]
    /\ req \in [Requests ->
         [at : {"idle", "expire", "accept", "revoke", "enrol", "save"},
          of : Invitations \cup {NoInvitation}, user : Users,
          space : Workspaces \cup {NoWorkspace}, status : SpaceStatuses,
          given : BOOLEAN]]
    /\ begun \in 0..MaxBegun
    /\ came \in [Invitations -> SUBSET Users]
    /\ crossed \subseteq Invitations \cup Workspaces
    /\ removed \subseteq Workspaces

\* An invitation that two requests never judged at once is settled once: it
\* lets in one user or none, and says ACCEPTED from before the enrolment for
\* ever (org_service.go:299-345).
SettledOnce ==
    \A i \in Invitations \ crossed :
        /\ Cardinality(came[i]) <= 1
        /\ came[i] # {} => invitation[i].status = "ACCEPTED"
        /\ invitation[i].status = "ACCEPTED" /\ invitation[i].team # NoTeam
             /\ Holding(i) = {} => came[i] # {}
        /\ invitation[i].status = "EXPIRED" => i \in due

\* A deleted workspace stays deleted, though an update that read it before may
\* still store it; a status holds unless such an update overlapped another
\* (199-217).
WorkspacesHold ==
    \A w \in Workspaces :
        IF w \in removed THEN workspaces[w] = "none"
        ELSE workspaces[w] # wanted[w] => w \in crossed
=============================================================================
