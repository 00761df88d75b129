---------------------------- MODULE OrgHierarchy ----------------------------
(***************************************************************************)
(* The hierarchy of the organization-service: creating and moving nodes    *)
(* and handing them to another owner (service/org_service.go) over a store *)
(* whose calls hold its mutex one at a time (db/org_db.go).                *)
(*                                                                         *)
(* GetNodeByID returns a copy and UpdateNode stores a whole record, so a   *)
(* move writes the owner it read and a transfer the parent it read.  One   *)
(* tenant; names, types, paths and times decide nothing and are left out.  *)
(***************************************************************************)
EXTENDS Integers, FiniteSets

CONSTANTS
    OrgRequests,        \* requests in progress at one time
    Nodes, NoNode,      \* NoNode is the empty parent of a root
    Users, NoUser,
    Founders,           \* the users nodes are created for
    Seeded,             \* the nodes of seedDemoOrg,
    SeedParent,         \* their parents
    SeedOwner,          \* and their owner
    MaxTransfers,       \* bound: ownership transfers
    MaxMoves            \* bound: moves

ASSUME HierarchyAssumption ==
    /\ NoNode \notin Nodes /\ NoUser \notin Users
    /\ Founders \subseteq Users
    /\ Seeded \subseteq Nodes /\ SeedOwner \in Users
    /\ SeedParent \in [Nodes -> Seeded \cup {NoNode}]
    /\ \A C \in SUBSET Nodes : C # {} => \E n \in C : SeedParent[n] \notin C
    /\ MaxTransfers \in Nat /\ MaxMoves \in Nat

Transfers == 1..MaxTransfers
NoTransfer == 0

VARIABLES
    created,        \* nodes in the store
    parent, owner,  \* the fields of their records
    transfers,      \* the stored transfer requests
    opened,         \* how many there are
    moves,          \* moves begun
    req,            \* what each request is doing
    tainted,        \* history: nodes whose place was last written from an
                    \* old copy or after an old walk
    clobbered,      \* history: nodes whose owner was last written from an
                    \* old copy
    appointed,      \* history: the last user a node was handed to
    entitled        \* history: every user a node was handed to

nodes == <<created, parent, owner>>
history == <<tainted, clobbered, appointed, entitled>>
orgVars == <<nodes, transfers, opened, moves, req, history>>

\* "walk" looks for cycles, "update" before the UpdateNode of a move; "open"
\* before CreateOwnershipTransfer; "swap" before the UpdateNode of a transfer
\* and "close" before its UpdateOwnershipTransfer, "load" before it reads the
\* node.
Places == {"idle", "walk", "update", "open", "load", "swap", "close"}

\* parent and owner are copied from the record, from is the transfer's
\* CurrentOwner; history: seen are the nodes the walk has passed, since the
\* nodes written after the request read its own.
Idle == [at |-> "idle", node |-> NoNode, parent |-> NoNode, owner |-> NoUser,
         to |-> NoNode, cur |-> NoNode, target |-> NoUser, id |-> NoTransfer,
         seen |-> {}, since |-> {}]

Unopened == [node |-> NoNode, from |-> NoUser, target |-> NoUser,
             status |-> "none"]

OrgInit ==
    /\ created = Seeded
    /\ parent = SeedParent
    /\ owner = [n \in Nodes |-> IF n \in Seeded THEN SeedOwner ELSE NoUser]
    /\ transfers = [t \in Transfers |-> Unopened]
    /\ opened = 0
    /\ moves = 0
    /\ req = [r \in OrgRequests |-> Idle]
    /\ tainted = {}
    /\ clobbered = {}
    /\ appointed = owner
    /\ entitled = [n \in Nodes |-> IF n \in Seeded THEN {SeedOwner} ELSE {}]

-----------------------------------------------------------------------------
(* Calls of the store *)

\* A whole record is stored.
UpdateNode(n, newParent, newOwner) ==
    /\ parent' = [parent EXCEPT ![n] = newParent]
    /\ owner' = [owner EXCEPT ![n] = newOwner]
    /\ UNCHANGED created

\* r goes on; history: the requests that hold a copy of a node learn of the
\* write of n.
Notice(r, n, next) ==
    req' = [q \in OrgRequests |->
              IF q = r THEN next
              ELSE IF req[q].at \in {"walk", "update", "swap"}
              THEN [req[q] EXCEPT !.since = @ \cup {n}]
              ELSE req[q]]

Move(r, place) == req' = [req EXCEPT ![r].at = place]
Finish(r) == req' = [req EXCEPT ![r] = Idle]

-----------------------------------------------------------------------------
(* CreateNode *)

\* The parent is read for its path and can never disappear; the identifier
\* is fresh.
CreateNode(n, p, u) ==
    /\ n \notin created
    /\ p \in created \cup {NoNode}
    /\ created' = created \cup {n}
    /\ parent' = [parent EXCEPT ![n] = p]
    /\ owner' = [owner EXCEPT ![n] = u]
    /\ appointed' = [appointed EXCEPT ![n] = u]
    /\ entitled' = [entitled EXCEPT ![n] = {u}]
    /\ UNCHANGED <<transfers, opened, moves, req, tainted, clobbered>>

-----------------------------------------------------------------------------
(* UpdateNodeParent *)

\* Fault: the test of the node itself is the only one.
BeginMoveUnchecked(r, n, p) ==
    /\ req[r].at = "idle"
    /\ moves < MaxMoves
    /\ n \in created /\ p \in (created \cup {NoNode}) \ {n}
    /\ moves' = moves + 1
    /\ req' = [req EXCEPT ![r] = [Idle EXCEPT
                 !.at = "update", !.node = n, !.parent = parent[n],
                 !.owner = owner[n], !.to = p, !.cur = NoNode]]
    /\ UNCHANGED <<nodes, transfers, opened, history>>

\* The node is read; a parent that does not exist fails the first lookup.
BeginMove(r, n, p) ==
    /\ req[r].at = "idle"
    /\ moves < MaxMoves
    /\ n \in created /\ p \in (created \cup {NoNode}) \ {n}
    /\ moves' = moves + 1
    /\ req' = [req EXCEPT ![r] = [Idle EXCEPT
                 !.at = IF p = NoNode THEN "update" ELSE "walk",
                 !.node = n, !.parent = parent[n],
                 !.owner = owner[n], !.to = p, !.cur = p]]
    /\ UNCHANGED <<nodes, transfers, opened, history>>

\* ErrCycleDetected
CycleDetected(r) ==
    /\ req[r].at = "walk"
    /\ req[r].cur = req[r].node
    /\ Finish(r)
    /\ UNCHANGED <<nodes, transfers, opened, moves, history>>

\* Fault: the walk stays where it is.
WalkUpInPlace(r) ==
    /\ req[r].at = "walk"
    /\ req[r].cur # req[r].node
    /\ Move(r, IF parent[req[r].cur] = NoNode THEN "update" ELSE "walk")
    /\ UNCHANGED <<nodes, transfers, opened, moves, history>>

\* Fault: the loop does not stop above a root.
WalkUpPastRoot(r) ==
    LET above == parent[req[r].cur]
    IN  /\ req[r].at = "walk"
        /\ req[r].cur # req[r].node
        /\ req' = [req EXCEPT ![r].cur = above,
                              ![r].seen = @ \cup {req[r].cur}]
        /\ UNCHANGED <<nodes, transfers, opened, moves, history>>

\* One turn of the loop: the node above is read and followed.
WalkUp(r) ==
    LET above == parent[req[r].cur]
    IN  /\ req[r].at = "walk"
        /\ req[r].cur # req[r].node
        /\ req' = [req EXCEPT ![r].cur = above,
                              ![r].seen = @ \cup {req[r].cur},
                              ![r].at = IF above = NoNode THEN "update"
                                        ELSE "walk"]
        /\ UNCHANGED <<nodes, transfers, opened, moves, history>>

\* UpdateNode and the answer.
EndMove(r) ==
    LET n == req[r].node
    IN  /\ req[r].at = "update"
        /\ UpdateNode(n, req[r].to, req[r].owner)
        /\ tainted' = IF req[r].since = {} THEN tainted \ {n}
                      ELSE tainted \cup {n}
        /\ clobbered' = IF n \in req[r].since THEN clobbered \cup {n}
                        ELSE clobbered
        /\ Notice(r, n, Idle)
        /\ UNCHANGED <<transfers, opened, moves, appointed, entitled>>

-----------------------------------------------------------------------------
(* Ownership transfers *)

TransfersLeft ==
    opened + Cardinality({r \in OrgRequests : req[r].at = "open"}) < MaxTransfers

\* Fault: whoever asks is taken for the owner.
InitiateByAnyone(r, n, u, v) ==
    /\ req[r].at = "idle"
    /\ n \in created
    /\ TransfersLeft
    /\ req' = [req EXCEPT ![r] = [Idle EXCEPT !.at = "open", !.node = n,
                                              !.owner = u, !.target = v]]
    /\ UNCHANGED <<nodes, transfers, opened, moves, history>>

\* The node is read and its owner compared.
Initiate(r, n, u, v) ==
    /\ req[r].at = "idle"
    /\ n \in created
    /\ TransfersLeft
    /\ owner[n] = u
    /\ req' = [req EXCEPT ![r] = [Idle EXCEPT !.at = "open", !.node = n,
                                              !.owner = u, !.target = v]]
    /\ UNCHANGED <<nodes, transfers, opened, moves, history>>

CreateOwnershipTransfer(r) ==
    /\ req[r].at = "open"
    /\ opened < MaxTransfers
    /\ opened' = opened + 1
    /\ transfers' = [transfers EXCEPT ![opened'] =
                       [node |-> req[r].node, from |-> req[r].owner,
                        target |-> req[r].target, status |-> "PENDING"]]
    /\ Finish(r)
    /\ UNCHANGED <<nodes, moves, history>>

\* The request is read: it must be PENDING and name the caller.
BeginComplete(r, t) ==
    /\ req[r].at = "idle"
    /\ t \in 1..opened
    /\ transfers[t].status = "PENDING"
    /\ req' = [req EXCEPT ![r] = [Idle EXCEPT
                 !.at = "load", !.node = transfers[t].node,
                 !.target = transfers[t].target, !.id = t]]
    /\ UNCHANGED <<nodes, transfers, opened, moves, history>>

LoadNode(r) ==
    /\ req[r].at = "load"
    /\ req' = [req EXCEPT ![r].at = "swap",
                          ![r].parent = parent[req[r].node],
                          ![r].owner = owner[req[r].node]]
    /\ UNCHANGED <<nodes, transfers, opened, moves, history>>

\* Fault: the owner in the copy is not replaced.
SwapOwnerNot(r) ==
    LET n == req[r].node
    IN  /\ req[r].at = "swap"
        /\ UpdateNode(n, req[r].parent, req[r].owner)
        /\ tainted' = IF n \in req[r].since THEN tainted \cup {n} ELSE tainted
        /\ clobbered' = clobbered \ {n}
        /\ appointed' = [appointed EXCEPT ![n] = req[r].target]
        /\ entitled' = [entitled EXCEPT ![n] = @ \cup {req[r].target}]
        /\ Notice(r, n, [req[r] EXCEPT !.at = "close"])
        /\ UNCHANGED <<transfers, opened, moves>>

\* UpdateNode with the new owner.
SwapOwner(r) ==
    LET n == req[r].node
    IN  /\ req[r].at = "swap"
        /\ UpdateNode(n, req[r].parent, req[r].target)
        /\ tainted' = IF n \in req[r].since THEN tainted \cup {n} ELSE tainted
        /\ clobbered' = clobbered \ {n}
        /\ appointed' = [appointed EXCEPT ![n] = req[r].target]
        /\ entitled' = [entitled EXCEPT ![n] = @ \cup {req[r].target}]
        /\ Notice(r, n, [req[r] EXCEPT !.at = "close"])
        /\ UNCHANGED <<transfers, opened, moves>>

CloseTransfer(r) ==
    /\ req[r].at = "close"
    /\ transfers' = [transfers EXCEPT ![req[r].id].status = "COMPLETED"]
    /\ Finish(r)
    /\ UNCHANGED <<nodes, opened, moves, history>>

-----------------------------------------------------------------------------
\* An unknown node, a node as its own parent, another owner than the node's, a
\* transfer that is not PENDING or names another user: nothing is written.
Refused(r) == req[r].at = "idle" /\ UNCHANGED orgVars

Arrivals(r) ==
    \/ Refused(r)
    \/ \E n \in Nodes, p \in Nodes \cup {NoNode} : BeginMove(r, n, p)
    \/ \E n \in Nodes, u, v \in Users : Initiate(r, n, u, v)
    \/ \E t \in Transfers : BeginComplete(r, t)

OrgRequestSteps(r) ==
    \/ CycleDetected(r) \/ WalkUp(r) \/ EndMove(r)
    \/ CreateOwnershipTransfer(r)
    \/ LoadNode(r) \/ SwapOwner(r) \/ CloseTransfer(r)

OrgNext ==
    \/ \E n \in Nodes, p \in Nodes \cup {NoNode}, u \in Founders :
           CreateNode(n, p, u)
    \/ \E r \in OrgRequests : Arrivals(r) \/ OrgRequestSteps(r)

OrgSpec == OrgInit /\ [][OrgNext]_orgVars

\* A request in progress is a running goroutine; nobody has to ask anything.
OrgFairSpec == OrgSpec /\ \A r \in OrgRequests : WF_orgVars(OrgRequestSteps(r))

-----------------------------------------------------------------------------
RequestStates ==
    [at : Places, node : Nodes \cup {NoNode},
     parent : Nodes \cup {NoNode}, owner : Users \cup {NoUser},
     to : Nodes \cup {NoNode}, cur : Nodes \cup {NoNode},
     target : Users \cup {NoUser}, id : {NoTransfer} \cup Transfers,
     seen : SUBSET Nodes, since : SUBSET Nodes]

TransferStates ==
    [node : Nodes, from : Users, target : Users,
     status : {"PENDING", "COMPLETED"}] \cup {Unopened}

OrgTypeOK ==
    /\ created \subseteq Nodes
    /\ parent \in [Nodes -> created \cup {NoNode}]
    /\ owner \in [Nodes -> Users \cup {NoUser}]
    /\ opened \in 0..MaxTransfers
    /\ transfers \in [Transfers -> TransferStates]
    /\ moves \in 0..MaxMoves
    /\ req \in [OrgRequests -> RequestStates]
    /\ \A r \in OrgRequests : req[r].at = "walk" => req[r].cur \in created
    /\ tainted \subseteq Nodes
    /\ clobbered \subseteq Nodes
    /\ appointed \in [Nodes -> Users \cup {NoUser}]
    /\ entitled \in [Nodes -> SUBSET Users]

\* A set of nodes that holds the parent of each of its nodes holds a cycle.
Closed(C) == C # {} /\ \A n \in C : parent[n] \in C
Cyclic == \E C \in SUBSET Nodes : Closed(C)

\* The walk that looks for cycles is many calls.  A cycle can be closed all
\* the same, by a move during whose walk another node was written or by a
\* transfer that puts an old parent back, and in no other way.
CyclesAreTainted == \A C \in SUBSET (Nodes \ tainted) : ~Closed(C)

\* A node belongs to whoever it was last handed to, unless a move that had
\* read it before stored the old owner again.
HandoversHold ==
    \A n \in created \ clobbered : owner[n] = appointed[n]

\* However moves and transfers overlap, nobody owns a node or gives it away
\* who did not create it and never was handed it.
OnlyTheEntitled ==
    /\ \A n \in created : owner[n] \in entitled[n]
    /\ \A t \in 1..opened : transfers[t].from \in entitled[transfers[t].node]

\* A request ends; only a walk under a cycle may go round it for ever.
RequestsEnd ==
    \A r \in OrgRequests : req[r].at # "idle" ~> req[r].at = "idle" \/ Cyclic

-----------------------------------------------------------------------------
(* What the source says and the code does not do                           *)

\* "only the current owner can transfer ownership": when a transfer takes
\* effect it is the owner's.
OnlyOwnersGiveAway ==
    [][\A r \in OrgRequests :
          SwapOwner(r) => owner[req[r].node] \in
              {transfers[req[r].id].from, req[r].target}]_orgVars
=============================================================================
