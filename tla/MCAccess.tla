------------------------------ MODULE MCAccess ------------------------------
(* What a request meets on its way in, on small instances. *)
EXTENDS Access

CONSTANTS c1, c2, r1, r2, k1, u1
=============================================================================
