------------------------------ MODULE MCEngine ------------------------------
(***************************************************************************)
(* The back ends on small instances: the compute engine, and the           *)
(* organisation hierarchy, a root and one or two nodes below it.  The two  *)
(* share no state: a behaviour is one of the service that backend names,   *)
(* the other stays as it was initially.  In the hierarchy there are three  *)
(* moves and no transfer, or two moves and a transfer in a chain of three  *)
(* nodes.                                                                  *)
(***************************************************************************)
EXTENDS ComputeEngine, OrgHierarchy

CONSTANTS r1, r2, tx1, tx2, e1, e2, h1, h2, h3, t1, n1, n2, n3, u1, u2

VARIABLE backend

UnderTheRoot == [n \in Nodes |-> IF n \in Seeded \ {n1} THEN n1 ELSE NoNode]

OfEngine == backend = "engine" /\ UNCHANGED <<backend, orgVars>>
OfOrg == backend \in {"moves", "handovers"} /\ UNCHANGED <<backend, all>>
OrgCases ==
    /\ backend = "moves" => \A r \in OrgRequests : req'[r].at # "open"
    /\ backend = "handovers" =>
         /\ created' # created => parent'[n3] = n2
         /\ req' # req => created = Nodes
         /\ moves' < 3
both == <<backend, all, orgVars>>

MCInit ==
    /\ EngineInit /\ OrgInit
    /\ \/ backend = "engine"
       \/ backend \in {"moves", "handovers"} /\ part = "service"

MCNext ==
    \/ OfEngine /\ EngineNext
    \/ OfOrg /\ OrgNext /\ OrgCases

\* The fairness of EngineSpec and of OrgFairSpec.
MCSpec ==
    /\ MCInit /\ [][MCNext]_both
    /\ \A r \in Requests : WF_both(OfEngine /\ OfService /\ RequestSteps(r))
    /\ WF_both(OfEngine /\ OfService /\ Dispatching)
    /\ WF_both(OfEngine /\ OfBroker /\ Broker!Goroutines)
    /\ WF_both(OfEngine /\ OfBroker /\ Broker!Elapse)
    /\ WF_both(OfEngine /\ OfBroker /\ Broker!LoopSteps)
    /\ SF_both(OfEngine /\ OfBroker /\ Broker!RetrySucceeds)
    /\ \A r \in OrgRequests : WF_both(OfOrg /\ OrgRequestSteps(r))
=============================================================================
