--------------------------- MODULE MCAuthSessions ---------------------------
(* AuthSessions on small instances. *)
EXTENDS AuthSessions, TLC

CONSTANTS r1, r2, r3, u1

=============================================================================
