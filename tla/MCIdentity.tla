----------------------------- MODULE MCIdentity -----------------------------
(* Five services of the identity platform on small instances. *)
EXTENDS Identity, TLC

CONSTANTS r1, r2, p1, p2, d1, d2, e1, e2, t1, t2, i1, w1, w2, k1, k2

OwnAddress == [u \in Users |-> IF u = d1 THEN e1 ELSE e2]

\* MEMBER inherits from GUEST; SYSTEM_ADMIN may do everything.
Bears(parent, p) == [parent |-> parent, permissions |-> {p}]
DefaultRoles == [n \in Names |->
    CASE n = "GUEST" -> Bears(NoRole, "tenant:read")
      [] n = "MEMBER" -> Bears("GUEST", "users:read")
      [] n = "SYSTEM_ADMIN" -> Bears(NoRole, "*")
      [] OTHER -> Bears(NoRole, "none")]
Wildcards == {<<p, q>> \in Permissions \X Permissions : p \in {q, "*"}}
OfAcme == [k \in Keys |-> "acme"]
ReadUsers == [k \in Keys |-> {"users:read"}]

\* A circle, a parent that may be missing, and the role of the API keys.
Made(t, n, role) == [tenant |-> t, name |-> n, role |-> role]
SomeRoles == {Made("acme", "GUEST", Bears("MEMBER", "users:write")),
              Made("acme", "MEMBER", Bears("API_CLIENT", "users:read")),
              Made("global", "API_CLIENT", Bears("GUEST", "users:read"))}

Payout == [finance |-> TRUE, cleared |-> FALSE, calm |-> TRUE, internal |-> FALSE,
           secret |-> FALSE, inHours |-> TRUE, billing |-> TRUE, mutates |-> FALSE]
Asks(by, role, need, scope, about) ==
    [by |-> by, tenant |-> "acme", role |-> role, need |-> need, scope |-> scope,
     about |-> about]
SomeAsks ==
    {Asks(k1, NoRole, "users:read", "users:read", {}),
     Asks("forgery", "MEMBER", "users:read", "none", {}),
     Asks("token", "MEMBER", "tenant:read", "none", {Payout}),
     Asks("nothing", NoRole, "users:write", "none", {[Payout EXCEPT !.mutates = TRUE]}),
     Asks("token", "SYSTEM_ADMIN", "users:write", "none",
          {[Payout EXCEPT !.secret = TRUE, !.cleared = TRUE]})}

Symmetry == Permutations(Requests) \cup Permutations(Passwords)
=============================================================================
