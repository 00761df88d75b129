--------------------------- MODULE MCOrgHierarchy ---------------------------
(* OrgHierarchy on small instances: a root and one or two nodes below it. *)
EXTENDS OrgHierarchy, TLC

CONSTANTS r1, r2, n1, n2, n3, u1, u2, u3

UnderTheRoot == [n \in Nodes |-> IF n \in Seeded \ {n1} THEN n1 ELSE NoNode]

=============================================================================
