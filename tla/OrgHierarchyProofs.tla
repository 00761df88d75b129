------------------------- MODULE OrgHierarchyProofs -------------------------
(***************************************************************************)
(* Proofs about OrgHierarchy.  The argument about cycles is about closed   *)
(* sets: what a clean walk has seen, taken out of a cycle the move would   *)
(* close, is a cycle that was there before.                                *)
(***************************************************************************)
EXTENDS OrgHierarchy, TLAPS

\* What the fields of a request in progress name exists.
Grounded(q) ==
    /\ q.at # "idle" => q.node \in created
    /\ q.at \in {"walk", "update"} => q.to \in created \cup {NoNode}
    /\ q.at = "swap" => q.parent \in created \cup {NoNode}
    /\ q.at = "open" => q.owner \in Users
    /\ q.at \in {"open", "load", "swap", "close"} => q.target \in Users
    /\ q.at \in {"load", "swap", "close"} => q.id \in 1..opened

Opened == \A t \in 1..opened : transfers[t] # Unopened /\ transfers[t].node \in created

TypeInv == OrgTypeOK /\ Opened /\ \A r \in OrgRequests : Grounded(req[r])

-----------------------------------------------------------------------------
(* Type correctness *)

LEMMA IdleState == Idle \in RequestStates
BY DEF Idle, RequestStates, Places, Transfers

\* The fields the steps of a request assign.
LEMMA MoveState ==
    ASSUME NEW n \in Nodes, NEW a \in Nodes \cup {NoNode}, NEW u \in Users \cup {NoUser},
           NEW p \in Nodes \cup {NoNode}, NEW place \in Places
    PROVE  [Idle EXCEPT !.at = place, !.node = n, !.parent = a, !.owner = u,
                        !.to = p, !.cur = p] \in RequestStates
BY IdleState DEF RequestStates

LEMMA WalkState ==
    ASSUME NEW q \in RequestStates, NEW a \in Nodes \cup {NoNode},
           NEW S \in SUBSET Nodes, NEW place \in Places
    PROVE  [q EXCEPT !.cur = a, !.seen = S, !.at = place] \in RequestStates
BY DEF RequestStates

LEMMA LoadState ==
    ASSUME NEW q \in RequestStates, NEW a \in Nodes \cup {NoNode},
           NEW u \in Users \cup {NoUser}
    PROVE  [q EXCEPT !.at = "swap", !.parent = a, !.owner = u] \in RequestStates
BY DEF RequestStates, Places

\* Storing a node changes one record of each function.
LEMMA Updating ==
    ASSUME OrgTypeOK, NEW n \in created, NEW p \in created \cup {NoNode},
           NEW u \in Users \cup {NoUser}, UpdateNode(n, p, u)
    PROVE  /\ created' = created
           /\ parent' \in [Nodes -> created' \cup {NoNode}]
           /\ owner' \in [Nodes -> Users \cup {NoUser}]
           /\ parent'[n] = p /\ owner'[n] = u
           /\ \A m \in Nodes \ {n} : parent'[m] = parent[m] /\ owner'[m] = owner[m]
BY DEF OrgTypeOK, UpdateNode

\* What a request in progress keeps when others write.
SameButSince(p, q) ==
    /\ p.at = q.at /\ p.node = q.node /\ p.parent = q.parent
    /\ p.owner = q.owner /\ p.to = q.to /\ p.cur = q.cur
    /\ p.target = q.target /\ p.id = q.id /\ p.seen = q.seen

\* The others only learn of a write.
LEMMA Noticing ==
    ASSUME OrgTypeOK, NEW r \in OrgRequests, NEW n \in Nodes,
           NEW next \in RequestStates, Notice(r, n, next)
    PROVE  /\ req' \in [OrgRequests -> RequestStates]
           /\ req'[r] = next
           /\ \A q \in OrgRequests \ {r} :
                 /\ SameButSince(req'[q], req[q])
                 /\ req[q].at \in {"walk", "update", "swap"} =>
                        req'[q].since = req[q].since \cup {n}
<1>1. \A q \in OrgRequests : req[q] \in RequestStates
  BY DEF OrgTypeOK
<1>2. \A q \in OrgRequests : [req[q] EXCEPT !.since = @ \cup {n}] \in RequestStates
  BY <1>1 DEF RequestStates
<1>3. req' \in [OrgRequests -> RequestStates] /\ req'[r] = next
  BY <1>1, <1>2 DEF Notice
<1>4. ASSUME NEW q \in OrgRequests \ {r}
      PROVE  /\ SameButSince(req'[q], req[q])
             /\ req[q].at \in {"walk", "update", "swap"} =>
                    req'[q].since = req[q].since \cup {n}
  <2>1. req'[q] = IF req[q].at \in {"walk", "update", "swap"}
                  THEN [req[q] EXCEPT !.since = @ \cup {n}] ELSE req[q]
    BY DEF Notice
  <2>2. req[q] \in RequestStates
    BY <1>1
  <2> QED BY <2>1, <2>2 DEF RequestStates, SameButSince
<1> QED BY <1>3, <1>4

LEMMA TypeInit == OrgInit => TypeInv
<1> SUFFICES ASSUME OrgInit PROVE TypeInv
  OBVIOUS
<1> USE HierarchyAssumption
<1>1. Unopened \in TransferStates
  BY DEF TransferStates
<1>2. OrgTypeOK
  BY <1>1, IdleState DEF OrgInit, OrgTypeOK, Idle, Transfers
<1> QED BY <1>2 DEF OrgInit, TypeInv, Opened, Grounded, Idle

\* A step of r that leaves the store alone.
LEMMA Stepping ==
    ASSUME TypeInv, NEW r \in OrgRequests, NEW next \in RequestStates,
           req' = [req EXCEPT ![r] = next],
           next.at = "walk" => next.cur \in created,
           Grounded(next),
           UNCHANGED <<nodes, transfers, opened, history>>,
           moves' \in 0..MaxMoves
    PROVE  TypeInv'
<1>1. OrgTypeOK'
  BY DEF TypeInv, OrgTypeOK, nodes, history
<1>2. \A q \in OrgRequests : Grounded(req'[q])
  BY DEF TypeInv, OrgTypeOK
<1>3. (\A q \in OrgRequests : Grounded(req[q]))'
  BY <1>2 DEF Grounded, nodes
<1> QED BY <1>1, <1>3 DEF TypeInv, Opened, nodes

LEMMA TypeStep == TypeInv /\ [OrgNext]_orgVars => TypeInv'
<1> SUFFICES ASSUME TypeInv, [OrgNext]_orgVars PROVE TypeInv'
  OBVIOUS
<1> USE HierarchyAssumption
<1>1. CASE UNCHANGED orgVars
  BY <1>1 DEF orgVars, nodes, history, TypeInv, OrgTypeOK, Opened, Grounded
<1>2. ASSUME NEW n \in Nodes, NEW p \in Nodes \cup {NoNode}, NEW u \in Founders,
             CreateNode(n, p, u)
      PROVE  TypeInv'
  <2>1. OrgTypeOK'
    BY <1>2 DEF CreateNode, TypeInv, OrgTypeOK
  <2>2. created \subseteq created' /\ opened' = opened /\ req' = req /\ transfers' = transfers
    BY <1>2 DEF CreateNode
  <2>3. (\A q \in OrgRequests : Grounded(req[q]))'
    BY <2>2 DEF TypeInv, Grounded
  <2> QED BY <2>1, <2>2, <2>3 DEF TypeInv, Opened
<1>3. ASSUME NEW r \in OrgRequests, Arrivals(r) \/ OrgRequestSteps(r) PROVE TypeInv'
  <2> DEFINE q == req[r]
  <2>0. /\ q \in RequestStates /\ Grounded(q)
        /\ q.at = "walk" => q.cur \in created
    BY DEF TypeInv, OrgTypeOK
  <2>a. created \subseteq Nodes /\ moves \in 0..MaxMoves
        /\ parent \in [Nodes -> created \cup {NoNode}] /\ owner \in [Nodes -> Users \cup {NoUser}]
    BY DEF TypeInv, OrgTypeOK
  <2>1. CASE Refused(r)
    BY <2>1, <1>1 DEF Refused
  <2>2. ASSUME NEW n \in Nodes, NEW p \in Nodes \cup {NoNode}, BeginMove(r, n, p)
        PROVE  TypeInv'
    <3> DEFINE next == [Idle EXCEPT
                 !.at = IF p = NoNode THEN "update" ELSE "walk",
                 !.node = n, !.parent = parent[n],
                 !.owner = owner[n], !.to = p, !.cur = p]
    <3>0. /\ n \in Nodes /\ p \in Nodes \cup {NoNode}
          /\ parent[n] \in Nodes \cup {NoNode} /\ owner[n] \in Users \cup {NoUser}
      BY <2>2, <2>a
    <3>1. next \in RequestStates
      <4> DEFINE place == IF p = NoNode THEN "update" ELSE "walk"
                 a == parent[n]
                 u == owner[n]
      <4>1. place \in Places
        BY DEF Places
      <4>2. a \in Nodes \cup {NoNode} /\ u \in Users \cup {NoUser}
        BY <3>0
      <4> HIDE DEF place, a, u
      <4>3. [Idle EXCEPT !.at = place, !.node = n, !.parent = a, !.owner = u,
                         !.to = p, !.cur = p] \in RequestStates
        BY <3>0, <4>1, <4>2, MoveState
      <4> QED BY <4>3 DEF place, a, u
    <3>2. (next.at = "walk" => next.cur \in created) /\ Grounded(next)
      BY <2>2 DEF BeginMove, Idle, Grounded
    <3>3. moves' \in 0..MaxMoves
      BY <2>2, <2>a DEF BeginMove
    <3>4. req' = [req EXCEPT ![r] = next] /\ UNCHANGED <<nodes, transfers, opened, history>>
      BY <2>2 DEF BeginMove
    <3> QED BY <3>1, <3>2, <3>3, <3>4, Stepping
  <2>3. ASSUME NEW n \in Nodes, NEW u \in Users, NEW v \in Users, Initiate(r, n, u, v)
        PROVE  TypeInv'
    <3> DEFINE next == [Idle EXCEPT !.at = "open", !.node = n, !.owner = u, !.target = v]
    <3>1. next \in RequestStates
      BY IdleState DEF RequestStates, Places
    <3>2. next.at = "open" /\ Grounded(next)
      BY <2>3 DEF Initiate, Idle, Grounded
    <3>3. /\ req' = [req EXCEPT ![r] = next] /\ moves' = moves
          /\ UNCHANGED <<nodes, transfers, opened, history>>
      BY <2>3 DEF Initiate
    <3> QED BY <3>1, <3>2, <3>3, <2>a, Stepping
  <2>4. ASSUME NEW t \in Transfers, BeginComplete(r, t) PROVE TypeInv'
    <3> DEFINE next == [Idle EXCEPT !.at = "load", !.node = transfers[t].node,
                                    !.target = transfers[t].target, !.id = t]
    <3>1. /\ transfers[t].node \in created /\ transfers[t].target \in Users
          /\ t \in 1..opened
      BY <2>4 DEF BeginComplete, TypeInv, OrgTypeOK, Opened, TransferStates
    <3>2. next \in RequestStates
      BY <3>1, <2>a, IdleState DEF RequestStates, Places
    <3>3. next.at = "load" /\ Grounded(next)
      BY <3>1 DEF Idle, Grounded
    <3>4. /\ req' = [req EXCEPT ![r] = next] /\ moves' = moves
          /\ UNCHANGED <<nodes, transfers, opened, history>>
      BY <2>4 DEF BeginComplete
    <3> QED BY <3>2, <3>3, <3>4, <2>a, Stepping
  <2>5. CASE CycleDetected(r)
    <3>1. Idle.at = "idle" /\ Grounded(Idle)
      BY DEF Idle, Grounded
    <3>2. /\ req' = [req EXCEPT ![r] = Idle] /\ moves' = moves
          /\ UNCHANGED <<nodes, transfers, opened, history>>
      BY <2>5 DEF CycleDetected, Finish
    <3> QED BY <3>1, <3>2, <2>a, IdleState, Stepping
  <2>6. CASE WalkUp(r)
    <3> DEFINE above == parent[q.cur]
               next == [q EXCEPT !.cur = above, !.seen = q.seen \cup {q.cur},
                                 !.at = IF above = NoNode THEN "update" ELSE "walk"]
    <3>1. q.at = "walk" /\ q.cur \in created /\ above \in created \cup {NoNode}
      BY <2>6, <2>0, <2>a DEF WalkUp
    <3>0. above \in Nodes \cup {NoNode} /\ q.cur \in Nodes
      BY <3>1, <2>a
    <3>2. next \in RequestStates
      <4>1. (IF above = NoNode THEN "update" ELSE "walk") \in Places
        BY DEF Places
      <4>2. q.seen \cup {q.cur} \in SUBSET Nodes
        BY <3>0, <2>0 DEF RequestStates
      <4> QED BY <2>0, <3>0, <4>1, <4>2, WalkState
    <3>3. (next.at = "walk" => next.cur \in created) /\ Grounded(next)
      BY <3>1, <2>0 DEF RequestStates, Grounded
    <3>4. /\ req' = [req EXCEPT ![r] = next] /\ moves' = moves
          /\ UNCHANGED <<nodes, transfers, opened, history>>
      <4>1. req[r] \in RequestStates /\ req \in [OrgRequests -> RequestStates]
        BY DEF TypeInv, OrgTypeOK
      <4> QED BY <4>1, <2>6 DEF WalkUp, RequestStates
    <3> QED BY <3>2, <3>3, <3>4, <2>a, Stepping
  <2>7. CASE EndMove(r)
    <3> DEFINE n == q.node
    <3>1. n \in created /\ q.to \in created \cup {NoNode} /\ q.owner \in Users \cup {NoUser}
      BY <2>7, <2>0 DEF EndMove, Grounded, RequestStates
    <3>2. UpdateNode(n, q.to, q.owner) /\ Notice(r, n, Idle) /\ OrgTypeOK
      BY <2>7 DEF EndMove, TypeInv
    <3>3. /\ created' = created
          /\ parent' \in [Nodes -> created' \cup {NoNode}]
          /\ owner' \in [Nodes -> Users \cup {NoUser}]
      BY <3>1, <3>2, Updating
    <3>4. /\ req' \in [OrgRequests -> RequestStates] /\ req'[r] = Idle
          /\ \A s \in OrgRequests \ {r} : SameButSince(req'[s], req[s])
      <4>1. n \in Nodes /\ OrgTypeOK /\ Notice(r, n, Idle)
        BY <3>1, <3>2, <2>a
      <4> HIDE DEF n
      <4> QED BY <4>1, Noticing, IdleState
    <3>5. UNCHANGED <<transfers, opened, moves, appointed, entitled>>
          /\ tainted' \subseteq Nodes /\ clobbered' \subseteq Nodes
      BY <2>7, <3>1, <2>a DEF EndMove, TypeInv, OrgTypeOK
    <3>6. OrgTypeOK'
      BY <3>3, <3>4, <3>5 DEF TypeInv, OrgTypeOK, Idle, SameButSince
    <3>7. (\A s \in OrgRequests : Grounded(req[s]))'
      BY <3>3, <3>4, <3>5 DEF TypeInv, Grounded, Idle, SameButSince
    <3> QED BY <3>3, <3>5, <3>6, <3>7 DEF TypeInv, Opened
  <2>8. CASE CreateOwnershipTransfer(r)
    <3> DEFINE new == [node |-> q.node, from |-> q.owner, target |-> q.target,
                       status |-> "PENDING"]
    <3>1. q.node \in created /\ q.owner \in Users /\ q.target \in Users
      BY <2>8, <2>0 DEF CreateOwnershipTransfer, Grounded
    <3>2. new \in TransferStates /\ new # Unopened
      BY <3>1, <2>a DEF TransferStates, Unopened
    <3>3. /\ opened \in Nat /\ opened' = opened + 1 /\ opened' \in 0..MaxTransfers
          /\ opened' \in Transfers
          /\ transfers' = [transfers EXCEPT ![opened'] = new]
          /\ req' = [req EXCEPT ![r] = Idle]
          /\ UNCHANGED <<nodes, moves, history>>
      BY <2>8 DEF CreateOwnershipTransfer, Finish, TypeInv, OrgTypeOK, Transfers
    <3>4. OrgTypeOK'
      BY <3>2, <3>3, IdleState DEF TypeInv, OrgTypeOK, nodes, history, Idle
    <3>5. Opened'
      <4>1. \A t \in 1..opened' : t = opened' \/ t \in 1..opened
        BY <3>3
      <4>2. \A t \in 1..opened : transfers'[t] = transfers[t]
        BY <3>3 DEF TypeInv, OrgTypeOK, Transfers
      <4>3. transfers'[opened'] = new /\ new.node \in created'
        BY <3>1, <3>3 DEF TypeInv, OrgTypeOK, nodes
      <4>4. \A t \in 1..opened : transfers'[t] # Unopened /\ transfers'[t].node \in created'
        BY <4>2, <3>3 DEF TypeInv, Opened, nodes
      <4> QED BY <3>2, <4>1, <4>3, <4>4 DEF Opened
    <3>6. (\A s \in OrgRequests : Grounded(req[s]))'
      BY <3>3 DEF TypeInv, OrgTypeOK, Grounded, Idle, nodes
    <3> QED BY <3>4, <3>5, <3>6 DEF TypeInv
  <2>9. CASE LoadNode(r)
    <3> DEFINE next == [q EXCEPT !.at = "swap", !.parent = parent[q.node],
                                 !.owner = owner[q.node]]
    <3>1. q.at = "load" /\ q.node \in created
      BY <2>9, <2>0 DEF LoadNode, Grounded
    <3>2. next \in RequestStates
      <4>1. parent[q.node] \in Nodes \cup {NoNode} /\ owner[q.node] \in Users \cup {NoUser}
        BY <3>1, <2>a
      <4> QED BY <2>0, <4>1, LoadState
    <3>3. next.at = "swap" /\ Grounded(next)
      BY <3>1, <2>0, <2>a DEF RequestStates, Grounded
    <3>4. /\ req' = [req EXCEPT ![r] = next] /\ moves' = moves
          /\ UNCHANGED <<nodes, transfers, opened, history>>
      <4>1. req[r] \in RequestStates /\ req \in [OrgRequests -> RequestStates]
        BY DEF TypeInv, OrgTypeOK
      <4> QED BY <4>1, <2>9 DEF LoadNode, RequestStates
    <3> QED BY <3>2, <3>3, <3>4, <2>a, Stepping
  <2>10. CASE SwapOwner(r)
    <3> DEFINE n == q.node
               next == [q EXCEPT !.at = "close"]
    <3>1. n \in created /\ q.parent \in created \cup {NoNode} /\ q.target \in Users
      BY <2>10, <2>0 DEF SwapOwner, Grounded
    <3>2. UpdateNode(n, q.parent, q.target) /\ Notice(r, n, next) /\ OrgTypeOK
      BY <2>10 DEF SwapOwner, TypeInv
    <3>3. /\ created' = created
          /\ parent' \in [Nodes -> created' \cup {NoNode}]
          /\ owner' \in [Nodes -> Users \cup {NoUser}]
      BY <3>1, <3>2, Updating
    <3>4. next \in RequestStates /\ next.at = "close" /\ Grounded(next)
      BY <2>0, <2>10 DEF RequestStates, Places, Grounded, SwapOwner
    <3>5. /\ req' \in [OrgRequests -> RequestStates] /\ req'[r] = next
          /\ \A s \in OrgRequests \ {r} : SameButSince(req'[s], req[s])
      <4>1. n \in Nodes /\ OrgTypeOK /\ Notice(r, n, next) /\ next \in RequestStates
        BY <3>1, <3>2, <3>4, <2>a
      <4> HIDE DEF n, next
      <4> QED BY <4>1, Noticing
    <3>6. /\ UNCHANGED <<transfers, opened, moves>>
          /\ tainted' \subseteq Nodes /\ clobbered' \subseteq Nodes
          /\ appointed' \in [Nodes -> Users \cup {NoUser}]
          /\ entitled' \in [Nodes -> SUBSET Users]
      BY <2>10, <3>1, <2>a DEF SwapOwner, TypeInv, OrgTypeOK
    <3>7. OrgTypeOK'
      BY <3>3, <3>4, <3>5, <3>6 DEF TypeInv, OrgTypeOK, SameButSince
    <3>8. (\A s \in OrgRequests : Grounded(req[s]))'
      <4>1. Grounded(req'[r])
        BY <3>4, <3>5
      <4>2. ASSUME NEW s \in OrgRequests \ {r} PROVE Grounded(req'[s])
        <5>1. Grounded(req[s])
          BY DEF TypeInv
        <5> QED BY <5>1, <3>5 DEF Grounded, SameButSince
      <4>3. \A s \in OrgRequests : Grounded(req'[s])
        BY <4>1, <4>2
      <4> QED BY <4>3, <3>3, <3>6 DEF Grounded
    <3> QED BY <3>3, <3>6, <3>7, <3>8 DEF TypeInv, Opened
  <2>11. CASE CloseTransfer(r)
    <3> DEFINE t == q.id
    <3>1. t \in 1..opened /\ t \in Transfers
      BY <2>11, <2>0 DEF CloseTransfer, Grounded, TypeInv, OrgTypeOK, Transfers
    <3>2. transfers[t] \in TransferStates /\ transfers[t] # Unopened
      BY <3>1 DEF TypeInv, OrgTypeOK, Opened
    <3>3. [transfers[t] EXCEPT !.status = "COMPLETED"] \in TransferStates \ {Unopened}
      BY <3>2 DEF TransferStates, Unopened
    <3>4. /\ transfers' = [transfers EXCEPT ![t] = [transfers[t] EXCEPT !.status = "COMPLETED"]]
          /\ [transfers[t] EXCEPT !.status = "COMPLETED"].node = transfers[t].node
          /\ req' = [req EXCEPT ![r] = Idle]
          /\ UNCHANGED <<nodes, opened, moves, history>>
      BY <2>11, <3>1, <3>2 DEF CloseTransfer, Finish, TransferStates
    <3>5. OrgTypeOK'
      BY <3>1, <3>3, <3>4, IdleState DEF TypeInv, OrgTypeOK, nodes, history, Idle
    <3>6. Opened'
      BY <3>1, <3>3, <3>4 DEF TypeInv, OrgTypeOK, Opened, nodes, Transfers
    <3>7. (\A s \in OrgRequests : Grounded(req[s]))'
      BY <3>4 DEF TypeInv, OrgTypeOK, Grounded, Idle, nodes
    <3> QED BY <3>5, <3>6, <3>7 DEF TypeInv
  <2> QED
    BY <1>3, <2>1, <2>2, <2>3, <2>4, <2>5, <2>6, <2>7, <2>8, <2>9, <2>10, <2>11
       DEF Arrivals, OrgRequestSteps
<1> QED BY <1>1, <1>2, <1>3 DEF OrgNext

\* Every reachable state has its type: what requests and transfers name
\* exists, however they overlap.
THEOREM TypeCorrect == OrgSpec => []OrgTypeOK
<1>1. TypeInv => OrgTypeOK
  BY DEF TypeInv
<1> QED BY <1>1, TypeInit, TypeStep, PTL DEF OrgSpec

-----------------------------------------------------------------------------
(* Walks and cycles *)

\* Nothing was written since q began: the nodes it has seen lead to where it
\* is, and its own node is not one of them.
WalkSound(q) ==
    q.at \in {"walk", "update"} /\ q.since = {} =>
        /\ q.seen \subseteq created
        /\ q.node \notin q.seen
        /\ \A v \in q.seen : parent[v] \in q.seen \cup {q.cur}
        /\ q.to \in q.seen \cup {q.cur}
        /\ q.at = "update" => q.cur = NoNode

\* A copy is the record, unless that was written since.
CopyFresh(q) ==
    q.at \in {"walk", "update", "swap"} /\ q.node \notin q.since =>
        q.parent = parent[q.node] /\ q.owner = owner[q.node]

Walks == \A r \in OrgRequests : WalkSound(req[r])
Copies == \A r \in OrgRequests : CopyFresh(req[r])

\* What a step that writes no node does.
Quiet(r) ==
    /\ UNCHANGED <<created, parent, owner>>
    /\ \A s \in OrgRequests \ {r} : req'[s] = req[s]

\* What a step that writes n does to the requests.
Loud(r, n) ==
    /\ created' = created
    /\ req'[r].at \notin {"walk", "update", "swap"}
    /\ \A s \in OrgRequests \ {r} :
          /\ SameButSince(req'[s], req[s])
          /\ req[s].at \in {"walk", "update", "swap"} =>
                 req'[s].since = req[s].since \cup {n}
    /\ \A m \in Nodes \ {n} : parent'[m] = parent[m] /\ owner'[m] = owner[m]

LEMMA QuietSteps ==
    ASSUME TypeInv, NEW r \in OrgRequests,
           \/ Refused(r)
           \/ \E n \in Nodes, p \in Nodes \cup {NoNode} : BeginMove(r, n, p)
           \/ \E n \in Nodes, u, v \in Users : Initiate(r, n, u, v)
           \/ \E t \in Transfers : BeginComplete(r, t)
           \/ CycleDetected(r) \/ WalkUp(r)
           \/ CreateOwnershipTransfer(r)
           \/ LoadNode(r) \/ CloseTransfer(r)
    PROVE  Quiet(r) /\ UNCHANGED history
<1>1. req \in [OrgRequests -> RequestStates]
  BY DEF TypeInv, OrgTypeOK
<1> QED
  BY <1>1 DEF Quiet, Refused, BeginMove, Initiate, BeginComplete, CycleDetected,
     WalkUp, CreateOwnershipTransfer, LoadNode, CloseTransfer, Finish, nodes,
     orgVars

LEMMA LoudSteps ==
    ASSUME TypeInv, NEW r \in OrgRequests, EndMove(r) \/ SwapOwner(r)
    PROVE  Loud(r, req[r].node) /\ req[r].node \in created
<1> DEFINE n == req[r].node
<1>0. OrgTypeOK /\ Grounded(req[r]) /\ req[r] \in RequestStates /\ created \subseteq Nodes
  BY DEF TypeInv, OrgTypeOK
<1>1. n \in created /\ n \in Nodes
  BY <1>0 DEF Grounded, EndMove, SwapOwner
<1>2. CASE EndMove(r)
  <2>1. /\ UpdateNode(n, req[r].to, req[r].owner) /\ Notice(r, n, Idle)
        /\ req[r].to \in created \cup {NoNode} /\ req[r].owner \in Users \cup {NoUser}
    BY <1>0, <1>2 DEF EndMove, Grounded, RequestStates
  <2> HIDE DEF n
  <2>2. /\ created' = created
        /\ \A m \in Nodes \ {n} : parent'[m] = parent[m] /\ owner'[m] = owner[m]
    BY <1>0, <1>1, <2>1, Updating
  <2>3. /\ req'[r] = Idle
        /\ \A s \in OrgRequests \ {r} :
              /\ SameButSince(req'[s], req[s])
              /\ req[s].at \in {"walk", "update", "swap"} =>
                     req'[s].since = req[s].since \cup {n}
    BY <1>0, <1>1, <2>1, IdleState, Noticing
  <2>4. Loud(r, n)
    BY <2>2, <2>3 DEF Loud, Idle
  <2> QED BY <1>1, <2>4 DEF n
<1>3. CASE SwapOwner(r)
  <2> DEFINE next == [req[r] EXCEPT !.at = "close"]
  <2>1. /\ UpdateNode(n, req[r].parent, req[r].target) /\ Notice(r, n, next)
        /\ req[r].parent \in created \cup {NoNode} /\ req[r].target \in Users \cup {NoUser}
    BY <1>0, <1>3 DEF SwapOwner, Grounded, RequestStates
  <2>2. next \in RequestStates /\ next.at = "close"
    BY <1>0 DEF RequestStates, Places
  <2> HIDE DEF n, next
  <2>3. /\ created' = created
        /\ \A m \in Nodes \ {n} : parent'[m] = parent[m] /\ owner'[m] = owner[m]
    BY <1>0, <1>1, <2>1, Updating
  <2>4. /\ req'[r] = next
        /\ \A s \in OrgRequests \ {r} :
              /\ SameButSince(req'[s], req[s])
              /\ req[s].at \in {"walk", "update", "swap"} =>
                     req'[s].since = req[s].since \cup {n}
    BY <1>0, <1>1, <2>1, <2>2, Noticing
  <2>5. Loud(r, n)
    BY <2>2, <2>3, <2>4 DEF Loud
  <2> QED BY <1>1, <2>5 DEF n
<1> QED BY <1>2, <1>3

LEMMA WalksStep == TypeInv /\ Walks /\ [OrgNext]_orgVars => Walks'
<1> SUFFICES ASSUME TypeInv, Walks, [OrgNext]_orgVars PROVE Walks'
  OBVIOUS
<1> USE HierarchyAssumption
<1>0. /\ req \in [OrgRequests -> RequestStates] /\ parent \in [Nodes -> created \cup {NoNode}]
      /\ created \subseteq Nodes
      /\ \A r \in OrgRequests : Grounded(req[r]) /\ WalkSound(req[r])
      /\ \A r \in OrgRequests : req[r].at = "walk" => req[r].cur \in created
  BY DEF TypeInv, OrgTypeOK, Walks
<1>1. CASE UNCHANGED orgVars
  BY <1>1 DEF orgVars, nodes, Walks, WalkSound
<1>2. ASSUME NEW n \in Nodes, NEW p \in Nodes \cup {NoNode}, NEW u \in Founders,
             CreateNode(n, p, u)
      PROVE  Walks'
  <2>1. /\ req' = req /\ created \subseteq created'
        /\ \A m \in created : parent'[m] = parent[m]
    BY <1>0, <1>2 DEF CreateNode
  <2> QED BY <1>0, <2>1 DEF Walks, WalkSound
<1>3. ASSUME NEW r \in OrgRequests, Quiet(r), WalkSound(req'[r])
      PROVE  Walks'
  BY <1>0, <1>3 DEF Quiet, Walks, WalkSound
<1>4. ASSUME NEW r \in OrgRequests, EndMove(r) \/ SwapOwner(r)
      PROVE  Walks'
  <2>1. PICK n \in Nodes : Loud(r, n)
    BY <1>0, <1>4, LoudSteps
  <2>2. ASSUME NEW s \in OrgRequests PROVE WalkSound(req[s])'
    BY <2>1 DEF Loud, WalkSound, SameButSince
  <2> QED BY <2>2 DEF Walks
<1>5. ASSUME NEW r \in OrgRequests, NEW n \in Nodes, NEW p \in Nodes \cup {NoNode},
             BeginMove(r, n, p)
      PROVE  WalkSound(req'[r])
  BY <1>0, <1>5 DEF BeginMove, WalkSound, Idle
<1>6. ASSUME NEW r \in OrgRequests, WalkUp(r) PROVE WalkSound(req'[r])
  <2> DEFINE q == req[r]
             above == parent[q.cur]
             next == [q EXCEPT !.cur = above, !.seen = @ \cup {q.cur},
                               !.at = IF above = NoNode THEN "update" ELSE "walk"]
  <2>1. /\ q \in RequestStates /\ WalkSound(q) /\ q.at = "walk" /\ q.cur \in created
        /\ q.cur # q.node /\ req'[r] = next
    BY <1>0, <1>6 DEF WalkUp, RequestStates
  <2>2. /\ next.cur = above /\ next.seen = q.seen \cup {q.cur} /\ next.node = q.node
        /\ next.since = q.since /\ next.to = q.to
        /\ next.at = IF above = NoNode THEN "update" ELSE "walk"
    BY <2>1 DEF RequestStates
  <2>3. WalkSound(next)
    BY <2>1, <2>2 DEF WalkSound
  <2> QED BY <2>1, <2>3
<1>7. ASSUME NEW r \in OrgRequests, req'[r].at \notin {"walk", "update"}
      PROVE  WalkSound(req'[r])
  BY <1>7 DEF WalkSound
<1>8. ASSUME NEW r \in OrgRequests, Arrivals(r) \/ OrgRequestSteps(r) PROVE Walks'
  <2>1. CASE Refused(r)
    BY <2>1, <1>1 DEF Refused
  <2>2. CASE \E n \in Nodes, p \in Nodes \cup {NoNode} : BeginMove(r, n, p)
    BY <2>2, <1>3, <1>5, QuietSteps
  <2>3. CASE WalkUp(r)
    BY <2>3, <1>3, <1>6, QuietSteps
  <2>4. CASE \/ \E n \in Nodes, u, v \in Users : Initiate(r, n, u, v)
             \/ \E t \in Transfers : BeginComplete(r, t)
             \/ CycleDetected(r) \/ CreateOwnershipTransfer(r)
             \/ LoadNode(r) \/ CloseTransfer(r)
    <3>1. req'[r].at \notin {"walk", "update"}
      <4>1. CASE \E n \in Nodes, u, v \in Users : Initiate(r, n, u, v)
        BY <4>1, <1>0 DEF Initiate, Idle
      <4>2. CASE \E t \in Transfers : BeginComplete(r, t)
        BY <4>2, <1>0 DEF BeginComplete, Idle
      <4>3. CASE CycleDetected(r) \/ CreateOwnershipTransfer(r) \/ CloseTransfer(r)
        BY <4>3, <1>0 DEF CycleDetected, CreateOwnershipTransfer, CloseTransfer,
           Finish, Idle
      <4>4. CASE LoadNode(r)
        <5>1. req[r] \in RequestStates
          BY <1>0
        <5> QED BY <4>4, <5>1, <1>0 DEF LoadNode, RequestStates
      <4> QED BY <2>4, <4>1, <4>2, <4>3, <4>4
    <3> QED BY <2>4, <3>1, <1>3, <1>7, QuietSteps
  <2>5. CASE EndMove(r) \/ SwapOwner(r)
    BY <2>5, <1>4
  <2> QED BY <1>8, <2>1, <2>2, <2>3, <2>4, <2>5 DEF Arrivals, OrgRequestSteps
<1> QED BY <1>1, <1>2, <1>8 DEF OrgNext

\* Others write under a request, but never behind its back.
LEMMA CopiesStep == TypeInv /\ Copies /\ [OrgNext]_orgVars => Copies'
<1> SUFFICES ASSUME TypeInv, Copies, [OrgNext]_orgVars PROVE Copies'
  OBVIOUS
<1> USE HierarchyAssumption
<1>0. /\ req \in [OrgRequests -> RequestStates] /\ created \subseteq Nodes
      /\ parent \in [Nodes -> created \cup {NoNode}]
      /\ owner \in [Nodes -> Users \cup {NoUser}]
      /\ \A r \in OrgRequests : Grounded(req[r]) /\ CopyFresh(req[r])
  BY DEF TypeInv, OrgTypeOK, Copies
<1>1. CASE UNCHANGED orgVars
  BY <1>1 DEF orgVars, nodes, Copies, CopyFresh
<1>2. ASSUME NEW n \in Nodes, NEW p \in Nodes \cup {NoNode}, NEW u \in Founders,
             CreateNode(n, p, u)
      PROVE  Copies'
  <2>1. /\ req' = req
        /\ \A m \in created : parent'[m] = parent[m] /\ owner'[m] = owner[m]
    BY <1>0, <1>2 DEF CreateNode
  <2>2. ASSUME NEW s \in OrgRequests PROVE CopyFresh(req[s])'
    <3>1. req[s].at \in {"walk", "update", "swap"} => req[s].node \in created
      BY <1>0 DEF Grounded
    <3> QED BY <1>0, <2>1, <3>1 DEF CopyFresh
  <2> QED BY <2>2 DEF Copies
<1>3. ASSUME NEW r \in OrgRequests, Quiet(r), CopyFresh(req'[r])
      PROVE  Copies'
  BY <1>0, <1>3 DEF Quiet, Copies, CopyFresh
<1>4. ASSUME NEW r \in OrgRequests, EndMove(r) \/ SwapOwner(r)
      PROVE  Copies'
  <2>1. PICK n \in Nodes : Loud(r, n)
    BY <1>0, <1>4, LoudSteps
  <2>2. CopyFresh(req[r])'
    BY <2>1 DEF Loud, CopyFresh
  <2>3. ASSUME NEW s \in OrgRequests \ {r} PROVE CopyFresh(req[s])'
    <3>1. /\ SameButSince(req'[s], req[s]) /\ CopyFresh(req[s])
          /\ req[s].at \in {"walk", "update", "swap"} =>
                 /\ req'[s].since = req[s].since \cup {n}
                 /\ req[s].node \in Nodes
      BY <1>0, <2>1 DEF Loud, Grounded
    <3>2. \A m \in Nodes \ {n} : parent'[m] = parent[m] /\ owner'[m] = owner[m]
      BY <2>1 DEF Loud
    <3> QED BY <3>1, <3>2 DEF CopyFresh, SameButSince
  <2> QED BY <2>2, <2>3 DEF Copies
<1>5. ASSUME NEW r \in OrgRequests, NEW n \in Nodes, NEW p \in Nodes \cup {NoNode},
             BeginMove(r, n, p)
      PROVE  CopyFresh(req'[r])
  BY <1>0, <1>5 DEF BeginMove, CopyFresh, Idle
<1>6. ASSUME NEW r \in OrgRequests, WalkUp(r) \/ LoadNode(r)
      PROVE  CopyFresh(req'[r])
  <2>1. req[r] \in RequestStates /\ CopyFresh(req[r])
    BY <1>0
  <2>2. CASE WalkUp(r)
    BY <1>0, <2>1, <2>2 DEF WalkUp, CopyFresh, RequestStates
  <2>3. CASE LoadNode(r)
    BY <1>0, <2>1, <2>3 DEF LoadNode, CopyFresh, RequestStates
  <2> QED BY <1>6, <2>2, <2>3
<1>7. ASSUME NEW r \in OrgRequests, req'[r].at \notin {"walk", "update", "swap"}
      PROVE  CopyFresh(req'[r])
  BY <1>7 DEF CopyFresh
<1>8. ASSUME NEW r \in OrgRequests, Arrivals(r) \/ OrgRequestSteps(r) PROVE Copies'
  <2>1. CASE Refused(r)
    BY <2>1, <1>1 DEF Refused
  <2>2. CASE \E n \in Nodes, p \in Nodes \cup {NoNode} : BeginMove(r, n, p)
    BY <2>2, <1>3, <1>5, QuietSteps
  <2>3. CASE WalkUp(r) \/ LoadNode(r)
    BY <2>3, <1>3, <1>6, QuietSteps
  <2>4. CASE \/ \E n \in Nodes, u, v \in Users : Initiate(r, n, u, v)
             \/ \E t \in Transfers : BeginComplete(r, t)
             \/ CycleDetected(r) \/ CreateOwnershipTransfer(r)
             \/ CloseTransfer(r)
    <3>1. req'[r].at \notin {"walk", "update", "swap"}
      <4>1. CASE \E n \in Nodes, u, v \in Users : Initiate(r, n, u, v)
        BY <4>1, <1>0 DEF Initiate, Idle
      <4>2. CASE \E t \in Transfers : BeginComplete(r, t)
        BY <4>2, <1>0 DEF BeginComplete, Idle
      <4>3. CASE CycleDetected(r) \/ CreateOwnershipTransfer(r) \/ CloseTransfer(r)
        BY <4>3, <1>0 DEF CycleDetected, CreateOwnershipTransfer, CloseTransfer,
           Finish, Idle
      <4> QED BY <2>4, <4>1, <4>2, <4>3
    <3> QED BY <2>4, <3>1, <1>3, <1>7, QuietSteps
  <2>5. CASE EndMove(r) \/ SwapOwner(r)
    BY <2>5, <1>4
  <2> QED BY <1>8, <2>1, <2>2, <2>3, <2>4, <2>5 DEF Arrivals, OrgRequestSteps
<1> QED BY <1>1, <1>2, <1>8 DEF OrgNext

CycleInv == TypeInv /\ Walks /\ Copies /\ CyclesAreTainted

\* The hierarchy is acyclic at first: no closed set without a tainted node.
LEMMA CycleInit == OrgInit => CycleInv
<1> SUFFICES ASSUME OrgInit PROVE CycleInv
  OBVIOUS
<1>1. CyclesAreTainted
  BY HierarchyAssumption DEF OrgInit, CyclesAreTainted, Closed
<1>2. Walks /\ Copies
  BY DEF OrgInit, Walks, Copies, WalkSound, CopyFresh, Idle
<1> QED BY <1>1, <1>2, TypeInit DEF CycleInv

LEMMA CycleStep == CycleInv /\ [OrgNext]_orgVars => CycleInv'
<1> SUFFICES ASSUME CycleInv, [OrgNext]_orgVars PROVE CyclesAreTainted'
  BY TypeStep, WalksStep, CopiesStep DEF CycleInv
<1> USE HierarchyAssumption
<1>0. /\ TypeInv /\ created \subseteq Nodes
      /\ parent \in [Nodes -> created \cup {NoNode}]
      /\ \A r \in OrgRequests : /\ req[r] \in RequestStates /\ Grounded(req[r])
                              /\ WalkSound(req[r]) /\ CopyFresh(req[r])
  BY DEF CycleInv, TypeInv, OrgTypeOK, Walks, Copies
<1>a. \A C \in SUBSET (Nodes \ tainted) : C # {} => \E m \in C : parent[m] \notin C
  BY DEF CycleInv, CyclesAreTainted, Closed
<1>1. CASE UNCHANGED <<parent, tainted>>
  BY <1>1 DEF CycleInv, CyclesAreTainted, Closed
\* A new node is nobody's parent.
<1>2. ASSUME NEW n \in Nodes, NEW p \in Nodes \cup {NoNode}, NEW u \in Founders,
             CreateNode(n, p, u)
      PROVE  CyclesAreTainted'
  <2>1. /\ n \notin created /\ p # n /\ tainted' = tainted /\ parent'[n] = p
        /\ \A m \in Nodes \ {n} : parent'[m] = parent[m]
    BY <1>0, <1>2 DEF CreateNode
  <2>2. ASSUME NEW C \in SUBSET (Nodes \ tainted), C # {},
               \A m \in C : parent'[m] \in C
        PROVE  FALSE
    <3> DEFINE D == C \ {n}
    <3>1. D # {}
      BY <2>1, <2>2
    <3>2. \A m \in D : parent[m] \in D
      BY <1>0, <2>1, <2>2
    <3> QED BY <1>a, <3>1, <3>2
  <2> QED BY <2>1, <2>2 DEF CyclesAreTainted, Closed
\* A clean walk saw the whole path from the new parent to a root.
<1>3. ASSUME NEW r \in OrgRequests, EndMove(r) PROVE CyclesAreTainted'
  <2> DEFINE q == req[r]
             n == q.node
  <2>1. /\ n \in Nodes /\ q.at = "update" /\ parent'[n] = q.to
        /\ q.to \in created \cup {NoNode}
        /\ \A m \in Nodes \ {n} : parent'[m] = parent[m]
        /\ tainted' = IF q.since = {} THEN tainted \ {n} ELSE tainted \cup {n}
    BY <1>0, <1>3 DEF EndMove, UpdateNode, Grounded
  <2>2. ASSUME NEW C \in SUBSET (Nodes \ tainted'), C # {},
               \A m \in C : parent'[m] \in C
        PROVE  FALSE
    <3>1. CASE n \notin C
      BY <1>a, <2>1, <2>2, <3>1
    <3>2. CASE n \in C
      <4> DEFINE D == C \cap q.seen
      <4>1. q.since = {}
        BY <2>1, <2>2, <3>2
      <4>2. /\ n \notin q.seen /\ q.cur = NoNode
            /\ \A v \in q.seen : parent[v] \in q.seen \cup {q.cur}
            /\ q.to \in q.seen \cup {q.cur}
        BY <1>0, <2>1, <4>1 DEF WalkSound
      <4>3. NoNode \notin C
        BY DEF HierarchyAssumption
      <4>4. D # {}
        BY <2>1, <2>2, <3>2, <4>2, <4>3
      <4>5. \A m \in D : parent[m] \in D
        BY <2>1, <2>2, <4>2, <4>3
      <4>6. D \in SUBSET (Nodes \ tainted)
        BY <2>1, <2>2, <4>1, <4>2
      <4> QED BY <1>a, <4>4, <4>5, <4>6
    <3> QED BY <3>1, <3>2
  <2> QED BY <2>2 DEF CyclesAreTainted, Closed
\* A transfer stores the parent there is, or taints.
<1>4. ASSUME NEW r \in OrgRequests, SwapOwner(r) PROVE CyclesAreTainted'
  <2> DEFINE q == req[r]
             n == q.node
  <2>1. /\ n \in Nodes /\ q.at = "swap" /\ parent' = [parent EXCEPT ![n] = q.parent]
        /\ tainted' = IF n \in q.since THEN tainted \cup {n} ELSE tainted
    BY <1>0, <1>4 DEF SwapOwner, UpdateNode, Grounded
  <2>2. CASE n \in q.since
    <3>1. ASSUME NEW C \in SUBSET (Nodes \ tainted'), C # {},
                 \A m \in C : parent'[m] \in C
          PROVE  FALSE
      BY <1>0, <1>a, <2>1, <2>2, <3>1
    <3> QED BY <3>1 DEF CyclesAreTainted, Closed
  <2>3. CASE n \notin q.since
    <3>1. q.parent = parent[n]
      BY <1>0, <2>1, <2>3 DEF CopyFresh
    <3> QED BY <1>0, <1>1, <2>1, <2>3, <3>1
  <2> QED BY <2>2, <2>3
<1>5. ASSUME NEW r \in OrgRequests, Arrivals(r) \/ OrgRequestSteps(r)
      PROVE  CyclesAreTainted'
  <2>1. CASE EndMove(r) \/ SwapOwner(r)
    BY <2>1, <1>3, <1>4
  <2>2. CASE ~(EndMove(r) \/ SwapOwner(r))
    <3>1. Quiet(r) /\ UNCHANGED history
      BY <1>0, <1>5, <2>2, QuietSteps DEF Arrivals, OrgRequestSteps
    <3> QED BY <3>1, <1>1 DEF Quiet, history
  <2> QED BY <2>1, <2>2
<1> QED BY <1>1, <1>2, <1>5 DEF OrgNext, orgVars, nodes, history

\* The walk of UpdateNodeParent keeps the hierarchy acyclic, except through a
\* node stored from an old copy or after a walk others wrote under.
THEOREM CyclesNeedARace == OrgSpec => []CyclesAreTainted
<1>1. CycleInv => CyclesAreTainted
  BY DEF CycleInv
<1> QED BY <1>1, CycleInit, CycleStep, PTL DEF OrgSpec

-----------------------------------------------------------------------------
(* Owners *)

HandInv == TypeInv /\ Copies /\ HandoversHold

LEMMA HandInit == OrgInit => HandInv
<1> SUFFICES ASSUME OrgInit PROVE HandInv
  OBVIOUS
<1>1. HandoversHold /\ Copies
  BY DEF OrgInit, HandoversHold, Copies, CopyFresh, Idle
<1> QED BY <1>1, TypeInit DEF HandInv

LEMMA HandStep == HandInv /\ [OrgNext]_orgVars => HandInv'
<1> SUFFICES ASSUME HandInv, [OrgNext]_orgVars PROVE HandoversHold'
  BY TypeStep, CopiesStep DEF HandInv
<1> USE HierarchyAssumption
<1>0. /\ TypeInv /\ created \subseteq Nodes
      /\ owner \in [Nodes -> Users \cup {NoUser}]
      /\ appointed \in [Nodes -> Users \cup {NoUser}]
      /\ \A n \in created \ clobbered : owner[n] = appointed[n]
      /\ \A r \in OrgRequests : Grounded(req[r]) /\ CopyFresh(req[r])
  BY DEF HandInv, TypeInv, OrgTypeOK, Copies, HandoversHold
<1>1. CASE UNCHANGED <<created, owner, clobbered, appointed>>
  BY <1>0, <1>1 DEF HandoversHold
<1>2. ASSUME NEW n \in Nodes, NEW p \in Nodes \cup {NoNode}, NEW u \in Founders,
             CreateNode(n, p, u)
      PROVE  HandoversHold'
  BY <1>0, <1>2 DEF CreateNode, HandoversHold
<1>3. ASSUME NEW r \in OrgRequests, EndMove(r) PROVE HandoversHold'
  <2> DEFINE n == req[r].node
  <2>1. /\ n \in created /\ created' = created /\ appointed' = appointed
        /\ owner' = [owner EXCEPT ![n] = req[r].owner]
        /\ clobbered' = IF n \in req[r].since THEN clobbered \cup {n} ELSE clobbered
        /\ req[r].at = "update"
    BY <1>0, <1>3 DEF EndMove, UpdateNode, Grounded
  <2>2. n \notin req[r].since => req[r].owner = owner[n]
    BY <1>0, <2>1 DEF CopyFresh
  <2> QED BY <1>0, <2>1, <2>2 DEF HandoversHold
<1>4. ASSUME NEW r \in OrgRequests, SwapOwner(r) PROVE HandoversHold'
  <2> DEFINE n == req[r].node
  <2>1. /\ n \in created /\ created' = created
        /\ owner' = [owner EXCEPT ![n] = req[r].target]
        /\ appointed' = [appointed EXCEPT ![n] = req[r].target]
        /\ clobbered' = clobbered \ {n}
    BY <1>0, <1>4 DEF SwapOwner, UpdateNode, Grounded
  <2> QED BY <1>0, <2>1 DEF HandoversHold
<1>5. ASSUME NEW r \in OrgRequests, Arrivals(r) \/ OrgRequestSteps(r)
      PROVE  HandoversHold'
  <2>1. CASE EndMove(r) \/ SwapOwner(r)
    BY <2>1, <1>3, <1>4
  <2>2. CASE ~(EndMove(r) \/ SwapOwner(r))
    <3>1. Quiet(r) /\ UNCHANGED history
      BY <1>0, <1>5, <2>2, QuietSteps DEF Arrivals, OrgRequestSteps
    <3> QED BY <3>1, <1>1 DEF Quiet, history
  <2> QED BY <2>1, <2>2
<1> QED BY <1>1, <1>2, <1>5 DEF OrgNext, orgVars, nodes, history

\* CompleteOwnershipTransfer hands the node over for good, unless a move that
\* had read it before stores its copy.
THEOREM OwnersAreAppointed == OrgSpec => []HandoversHold
<1>1. HandInv => HandoversHold
  BY DEF HandInv
<1> QED BY <1>1, HandInit, HandStep, PTL DEF OrgSpec

\* The owner in a copy was entitled to the node, and so stays.
CopyEntitled(q) ==
    q.at \in {"walk", "update", "open"} => q.owner \in entitled[q.node]

EntitledInv ==
    TypeInv /\ OnlyTheEntitled /\ \A r \in OrgRequests : CopyEntitled(req[r])

LEMMA EntitledInit == OrgInit => EntitledInv
<1> SUFFICES ASSUME OrgInit PROVE EntitledInv
  OBVIOUS
<1>1. OnlyTheEntitled
  BY HierarchyAssumption DEF OrgInit, OnlyTheEntitled
<1>2. \A r \in OrgRequests : CopyEntitled(req[r])
  BY DEF OrgInit, CopyEntitled, Idle
<1> QED BY <1>1, <1>2, TypeInit DEF EntitledInv

LEMMA EntitledStep == EntitledInv /\ [OrgNext]_orgVars => EntitledInv'
<1> SUFFICES ASSUME EntitledInv, [OrgNext]_orgVars
             PROVE  OnlyTheEntitled' /\ \A r \in OrgRequests : CopyEntitled(req[r])'
  BY TypeStep DEF EntitledInv
<1> USE HierarchyAssumption
<1>0. /\ TypeInv /\ OrgTypeOK /\ created \subseteq Nodes
      /\ owner \in [Nodes -> Users \cup {NoUser}]
      /\ entitled \in [Nodes -> SUBSET Users]
      /\ opened \in 0..MaxTransfers
      /\ \A n \in created : owner[n] \in entitled[n]
      /\ \A t \in 1..opened : transfers[t].from \in entitled[transfers[t].node]
                              /\ transfers[t].node \in created
      /\ req \in [OrgRequests -> RequestStates]
      /\ \A r \in OrgRequests : Grounded(req[r]) /\ CopyEntitled(req[r])
  BY DEF EntitledInv, TypeInv, OrgTypeOK, OnlyTheEntitled, Opened
<1>1. CASE UNCHANGED orgVars
  BY <1>0, <1>1 DEF orgVars, nodes, history, OnlyTheEntitled, CopyEntitled
<1>2. ASSUME NEW n \in Nodes, NEW p \in Nodes \cup {NoNode}, NEW u \in Founders,
             CreateNode(n, p, u)
      PROVE  OnlyTheEntitled' /\ \A r \in OrgRequests : CopyEntitled(req[r])'
  <2>1. /\ n \notin created /\ created' = created \cup {n} /\ owner'[n] \in entitled'[n]
        /\ UNCHANGED <<transfers, opened, req>>
        /\ \A m \in created : owner'[m] = owner[m] /\ entitled'[m] = entitled[m]
    BY <1>0, <1>2 DEF CreateNode
  <2>2. OnlyTheEntitled'
    BY <1>0, <2>1 DEF OnlyTheEntitled
  <2>3. \A r \in OrgRequests : CopyEntitled(req[r])'
    BY <1>0, <2>1 DEF CopyEntitled, Grounded
  <2> QED BY <2>2, <2>3
\* A step that writes neither nodes nor transfers needs only r's new state.
<1>3. ASSUME NEW r \in OrgRequests, Quiet(r), UNCHANGED <<history, transfers, opened>>,
             CopyEntitled(req'[r])
      PROVE  OnlyTheEntitled' /\ \A s \in OrgRequests : CopyEntitled(req[s])'
  <2>1. /\ UNCHANGED <<created, owner, entitled, transfers, opened>>
        /\ \A s \in OrgRequests \ {r} : req'[s] = req[s]
    BY <1>3 DEF Quiet, history
  <2>2. OnlyTheEntitled'
    BY <1>0, <2>1 DEF OnlyTheEntitled
  <2>3. \A s \in OrgRequests : CopyEntitled(req[s])'
    BY <1>0, <1>3, <2>1 DEF CopyEntitled
  <2> QED BY <2>2, <2>3
\* A step that writes node n gives it an owner who is entitled.
<1>4. ASSUME NEW r \in OrgRequests, EndMove(r) \/ SwapOwner(r)
      PROVE  OnlyTheEntitled' /\ \A s \in OrgRequests : CopyEntitled(req[s])'
  <2> DEFINE n == req[r].node
  <2>1. Loud(r, n) /\ n \in created
    BY <1>0, <1>4, LoudSteps
  <2>2. /\ UNCHANGED <<created, transfers, opened>>
        /\ \A m \in Nodes : entitled[m] \subseteq entitled'[m]
        /\ owner'[n] \in entitled'[n]
    <3>1. CASE EndMove(r)
      BY <1>0, <2>1, <3>1 DEF EndMove, UpdateNode, CopyEntitled
    <3>2. CASE SwapOwner(r)
      BY <1>0, <2>1, <3>2 DEF SwapOwner, UpdateNode, Grounded
    <3> QED BY <1>4, <3>1, <3>2
  <2>3. OnlyTheEntitled'
    BY <1>0, <2>1, <2>2 DEF OnlyTheEntitled, Loud
  <2>4. ASSUME NEW s \in OrgRequests PROVE CopyEntitled(req[s])'
    <3>1. /\ Grounded(req[s]) /\ CopyEntitled(req[s])
          /\ s = r \/ SameButSince(req'[s], req[s])
      BY <1>0, <2>1 DEF Loud
    <3>2. CASE s = r
      BY <1>0, <1>4, <2>1, <3>2 DEF EndMove, SwapOwner, Notice, Idle, CopyEntitled,
         RequestStates
    <3> QED BY <1>0, <2>2, <3>1, <3>2 DEF CopyEntitled, SameButSince, Grounded
  <2> QED BY <2>3, <2>4
<1>5. ASSUME NEW r \in OrgRequests, CreateOwnershipTransfer(r)
      PROVE  OnlyTheEntitled' /\ \A s \in OrgRequests : CopyEntitled(req[s])'
  <2> DEFINE q == req[r]
             t == opened + 1
  <2>1. /\ q.owner \in entitled[q.node] /\ opened' = t /\ t \in Transfers
        /\ transfers' = [transfers EXCEPT ![t] =
              [node |-> q.node, from |-> q.owner, target |-> q.target,
               status |-> "PENDING"]]
        /\ req' = [req EXCEPT ![r] = Idle]
        /\ UNCHANGED <<created, owner, entitled>>
    BY <1>0, <1>5 DEF CreateOwnershipTransfer, CopyEntitled, Finish, nodes, history,
       Transfers
  <2>2. /\ transfers'[t].from = q.owner /\ transfers'[t].node = q.node
        /\ \A u \in 1..opened : transfers'[u] = transfers[u]
        /\ \A u \in 1..opened' : u = t \/ u \in 1..opened
    BY <1>0, <2>1 DEF OrgTypeOK, Transfers
  <2>3. OnlyTheEntitled'
    BY <1>0, <2>1, <2>2 DEF OnlyTheEntitled
  <2>4. \A s \in OrgRequests : CopyEntitled(req[s])'
    BY <1>0, <2>1 DEF CopyEntitled, Idle
  <2> QED BY <2>3, <2>4
<1>6. ASSUME NEW r \in OrgRequests, CloseTransfer(r)
      PROVE  OnlyTheEntitled' /\ \A s \in OrgRequests : CopyEntitled(req[s])'
  <2>1. /\ \A t \in 1..opened : transfers'[t].from = transfers[t].from
                                /\ transfers'[t].node = transfers[t].node
        /\ req' = [req EXCEPT ![r] = Idle]
        /\ UNCHANGED <<created, owner, entitled, opened>>
    <3>1. \A t \in 1..opened : transfers[t] \in TransferStates /\ t \in Transfers
      BY <1>0 DEF OrgTypeOK, Transfers
    <3>2. /\ transfers' = [transfers EXCEPT ![req[r].id].status = "COMPLETED"]
          /\ req' = [req EXCEPT ![r] = Idle]
          /\ UNCHANGED <<created, owner, entitled, opened>>
      BY <1>6 DEF CloseTransfer, Finish, nodes, history
    <3>3. transfers \in [Transfers -> TransferStates]
      BY <1>0 DEF OrgTypeOK
    <3> QED BY <3>1, <3>2, <3>3 DEF TransferStates, Unopened
  <2>2. OnlyTheEntitled'
    BY <1>0, <2>1 DEF OnlyTheEntitled
  <2>3. \A s \in OrgRequests : CopyEntitled(req[s])'
    BY <1>0, <2>1 DEF CopyEntitled, Idle
  <2> QED BY <2>2, <2>3
<1>7. ASSUME NEW r \in OrgRequests,
             \/ \E n \in Nodes, p \in Nodes \cup {NoNode} : BeginMove(r, n, p)
             \/ \E n \in Nodes, u, v \in Users : Initiate(r, n, u, v)
             \/ \E t \in Transfers : BeginComplete(r, t)
             \/ CycleDetected(r) \/ WalkUp(r) \/ LoadNode(r)
      PROVE  CopyEntitled(req'[r]) /\ UNCHANGED <<transfers, opened>>
  <2>0. req[r] \in RequestStates /\ CopyEntitled(req[r])
    BY <1>0
  <2>1. CASE \E n \in Nodes, p \in Nodes \cup {NoNode} : BeginMove(r, n, p)
    BY <1>0, <2>1 DEF BeginMove, CopyEntitled, Idle
  <2>2. CASE \E n \in Nodes, u, v \in Users : Initiate(r, n, u, v)
    BY <1>0, <2>2 DEF Initiate, CopyEntitled, Idle
  <2>3. CASE \E t \in Transfers : BeginComplete(r, t)
    BY <1>0, <2>3 DEF BeginComplete, CopyEntitled, Idle
  <2>4. CASE CycleDetected(r)
    BY <1>0, <2>4 DEF CycleDetected, Finish, CopyEntitled, Idle
  <2>5. CASE WalkUp(r)
    BY <1>0, <2>0, <2>5 DEF WalkUp, CopyEntitled, RequestStates
  <2>6. CASE LoadNode(r)
    BY <1>0, <2>0, <2>6 DEF LoadNode, CopyEntitled, RequestStates
  <2> QED BY <1>7, <2>1, <2>2, <2>3, <2>4, <2>5, <2>6
<1>8. ASSUME NEW r \in OrgRequests, Arrivals(r) \/ OrgRequestSteps(r)
      PROVE  OnlyTheEntitled' /\ \A s \in OrgRequests : CopyEntitled(req[s])'
  <2>1. CASE EndMove(r) \/ SwapOwner(r)
    BY <2>1, <1>4
  <2>2. CASE CreateOwnershipTransfer(r) \/ CloseTransfer(r)
    BY <2>2, <1>5, <1>6
  <2>3. CASE Refused(r)
    BY <2>3, <1>1 DEF Refused
  <2>4. CASE \/ \E n \in Nodes, p \in Nodes \cup {NoNode} : BeginMove(r, n, p)
             \/ \E n \in Nodes, u, v \in Users : Initiate(r, n, u, v)
             \/ \E t \in Transfers : BeginComplete(r, t)
             \/ CycleDetected(r) \/ WalkUp(r) \/ LoadNode(r)
    <3>1. Quiet(r) /\ UNCHANGED history
      BY <1>0, <2>4, QuietSteps
    <3>2. CopyEntitled(req'[r]) /\ UNCHANGED <<transfers, opened>>
      BY <1>7, <2>4
    <3> QED BY <1>3, <3>1, <3>2
  <2> QED BY <1>8, <2>1, <2>2, <2>3, <2>4 DEF Arrivals, OrgRequestSteps
<1> QED BY <1>1, <1>2, <1>8 DEF OrgNext

\* No interleaving of moves and transfers makes an owner of somebody, or lets
\* somebody open a transfer, who neither created the node nor was handed it.
THEOREM StrangersNeverOwn == OrgSpec => []OnlyTheEntitled
<1>1. EntitledInv => OnlyTheEntitled
  BY DEF EntitledInv
<1> QED BY <1>1, EntitledInit, EntitledStep, PTL DEF OrgSpec
=============================================================================
