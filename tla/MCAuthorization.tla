-------------------------- MODULE MCAuthorization ---------------------------
(* Authorization on a small instance: two evaluations, a key and a circle of
   two roles; the same change of a resource is asked for from inside and from
   outside, by somebody who is cleared for the highest classification. *)
EXTENDS Authorization

CONSTANTS r1, r2, k1

Bears(parent, p) == [parent |-> parent, permissions |-> {p}]
OneRole == [n \in Names |-> IF n = "MEMBER" THEN Bears(NoRole, "users:write") ELSE Unmade]
Circle == {[tenant |-> "acme", name |-> "MEMBER", role |-> Bears("API_CLIENT", "users:read")],
           [tenant |-> "acme", name |-> "API_CLIENT", role |-> Bears("MEMBER", "users:write")]}
Same == {<<p, p>> : p \in Permissions}
OfAcme == [k \in Keys |-> "acme"]
Scopes == [k \in Keys |-> {"users:write"}]

Change == [finance |-> TRUE, cleared |-> TRUE, calm |-> TRUE, internal |-> TRUE,
           secret |-> FALSE, inHours |-> TRUE, billing |-> FALSE, mutates |-> TRUE]
SomeAsks ==
    {[by |-> by, tenant |-> "acme", role |-> "MEMBER", need |-> "users:write",
      scope |-> "none", about |-> {c}] :
        by \in {k1, "token"},
        c \in {[Change EXCEPT !.secret = s, !.internal = i] : s, i \in BOOLEAN}}
=============================================================================
