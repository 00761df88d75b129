---------------------------- MODULE Authorization ----------------------------
(***************************************************************************)
(* The authorization-service: roles that inherit, API keys, the default    *)
(* policy rules, and the evaluation of a request by all three              *)
(* (service/*.go and handleEvaluate of cmd/server/main.go).                *)
(*                                                                         *)
(* Roles and keys have a mutex each, so an evaluation looks at the key, at *)
(* the roles and at the policy in three steps.  A token is valid or not;   *)
(* its claims are the tenant and the role of the request.  Nothing calls   *)
(* AddRule: the rules are the three default ones.  Metrics are left out.   *)
(***************************************************************************)
EXTENDS Integers, FiniteSets

CONSTANTS
    Requests,
    Tenants,            \* "global" is one
    Names, NoRole,      \* role names
    Permissions, Covers,    \* <<p, q>>: holding p is as good as q
    SeedRoles,          \* the global roles of seedDefaultRBAC
    Keys,
    SeedKeys,
    KeyTenant, KeyScopes,   \* of every key
    NewRoles,           \* roles that may be created
    Asked,              \* evaluations that are asked for
    MaxRoles, MaxBegun  \* bounds: roles created, evaluations

NoPermission == "none"
Role == [parent : Names \cup {NoRole}, permissions : SUBSET Permissions]
Unmade == [parent |-> NoRole, permissions |-> {NoPermission}]

\* What the rules read of a request: the subject's department, clearance of 3,
\* risk of at most 30 and network zone, the highest classification, the hours,
\* a resource or action about money, and a write or deletion.
Contexts == [finance : BOOLEAN, cleared : BOOLEAN, calm : BOOLEAN, internal : BOOLEAN,
             secret : BOOLEAN, inHours : BOOLEAN, billing : BOOLEAN,
             mutates : BOOLEAN]

\* by is "nothing", a "token", a "forgery" or a key; need and scope may be
\* NoPermission, about is empty if no attributes are given.
Evaluations == [by : Keys \cup {"nothing", "token", "forgery"}, tenant : Tenants,
                role : Names \cup {NoRole},
                need : Permissions \cup {NoPermission},
                scope : Permissions \cup {NoPermission}, about : SUBSET Contexts]

AuthorizationAssumption ==
    /\ "global" \in Tenants /\ "API_CLIENT" \in Names
    /\ IsFiniteSet(Names)
    /\ NoRole \notin Names /\ NoPermission \notin Permissions
    /\ Covers \subseteq Permissions \X Permissions
    /\ \A p \in Permissions : <<p, p>> \in Covers
    /\ SeedRoles \in [Names -> Role \cup {Unmade}]
    /\ SeedKeys \subseteq Keys /\ KeyTenant \in [Keys -> Tenants]
    /\ KeyScopes \in [Keys -> SUBSET Permissions]
    /\ \A new \in NewRoles :
         new.tenant \in Tenants /\ new.name \in Names /\ new.role \in Role
    /\ Asked # {} /\ Asked \subseteq Evaluations
    /\ \A a \in Asked : Cardinality(a.about) <= 1
    /\ Keys \cap {"nothing", "token", "forgery"} = {}
    /\ MaxRoles \in Nat /\ MaxBegun \in Nat

VARIABLES
    roles,          \* of each tenant, by name
    made,           \* roles created
    keys,           \* status of each key
    lapsed,         \* keys past their ExpiresAt
    req,            \* what each request is doing
    begun,
    answer          \* the evaluation that ended last, and how

vars == <<roles, made, keys, lapsed, req, begun, answer>>

\* "key", "role" and "policy" before these are looked at.  History: dead, the
\* key was no good when the request came; earned, the permissions of the role
\* when it was looked at.
Idle == [at |-> "idle", ask |-> CHOOSE a \in Asked : TRUE, tenant |-> "global",
         role |-> NoRole, dead |-> FALSE, earned |-> {}]
NoAnswer == [allowed |-> FALSE, to |-> Idle]

Init ==
    /\ roles = [t \in Tenants |->
         IF t = "global" THEN SeedRoles ELSE [n \in Names |-> Unmade]]
    /\ made = 0
    /\ keys = [k \in Keys |-> IF k \in SeedKeys THEN "ACTIVE" ELSE "none"]
    /\ lapsed = {}
    /\ req = [r \in Requests |-> Idle]
    /\ begun = 0
    /\ answer = NoAnswer

-----------------------------------------------------------------------------
(* Roles *)

\* A tenant's own role comes before the global one of its name.
Resolve(t, n) == IF roles[t][n] # Unmade THEN roles[t][n] ELSE roles["global"][n]

\* Fault: the role and its parent are all there is.
TwoGenerations(t, n) ==
    LET parent == Resolve(t, n).parent IN
    Resolve(t, n).permissions
      \cup (IF parent = NoRole THEN {} ELSE Resolve(t, parent).permissions)

\* From parent to parent, up to a root or a role that was passed before.  A
\* role that does not exist is an error, whatever was found till then: Unmade
\* brings NoPermission into the result.
GetEffectivePermissions(t, n) ==
    LET walk[visited \in SUBSET Names] ==
          [m \in Names \cup {NoRole} |->
             IF m = NoRole \/ m \in visited THEN {}
             ELSE Resolve(t, m).permissions
                    \cup walk[visited \cup {m}][Resolve(t, m).parent]]
    IN walk[{}][n]

\* CheckPermission, with its wildcards in Covers.
CheckPermission(held, p) == \E q \in held : <<q, p>> \in Covers

EvaluateAccess(t, n, p) ==
    /\ NoPermission \notin GetEffectivePermissions(t, n)
    /\ CheckPermission(GetEffectivePermissions(t, n), p)

\* No role is ever changed or deleted.
CreateRole(new) ==
    /\ made < MaxRoles
    /\ roles[new.tenant][new.name] = Unmade
    /\ made' = made + 1
    /\ roles' = [roles EXCEPT ![new.tenant][new.name] = new.role]
    /\ UNCHANGED <<keys, lapsed, req, begun, answer>>

-----------------------------------------------------------------------------
(* Policy *)

Rules == <<
    [effect |-> "ALLOW", matches |-> {c \in Contexts : c.secret},
     satisfied |-> {c \in Contexts : c.finance /\ c.cleared /\ c.calm}],
    [effect |-> "DENY", matches |-> {c \in Contexts : c.mutates},
     satisfied |-> {c \in Contexts : c.internal}],
    [effect |-> "ALLOW", matches |-> {c \in Contexts : c.billing},
     satisfied |-> {c \in Contexts : c.finance /\ c.inHours}] >>

\* A rule that matches and is not satisfied rejects, whatever its effect; one
\* that is satisfied ends the search if it is an ALLOW.
Tells(rule, c) == c \in rule.matches /\ (c \in rule.satisfied => rule.effect = "ALLOW")

\* Fault: the last rule that tells is believed.
LastRuleTells(c) ==
    LET telling == {i \in DOMAIN Rules : Tells(Rules[i], c)} IN
    IF telling = {} THEN ~c.secret
    ELSE \E i \in telling : (\A j \in telling : j <= i) /\ c \in Rules[i].satisfied

EvaluateABACAndOPA(c) ==
    LET telling == {i \in DOMAIN Rules : Tells(Rules[i], c)} IN
    IF telling = {} THEN ~c.secret
    ELSE \E i \in telling : (\A j \in telling : i <= j) /\ c \in Rules[i].satisfied

-----------------------------------------------------------------------------
(* API keys *)

GenerateAPIKey(k) ==
    /\ keys[k] = "none"
    /\ keys' = [keys EXCEPT ![k] = "ACTIVE"]
    /\ UNCHANGED <<roles, made, lapsed, req, begun, answer>>

RevokeAPIKey(k) ==
    /\ keys[k] # "none"
    /\ keys' = [keys EXCEPT ![k] = "REVOKED"]
    /\ UNCHANGED <<roles, made, lapsed, req, begun, answer>>

Lapse(k) ==
    /\ keys[k] # "none" /\ k \notin lapsed
    /\ lapsed' = lapsed \cup {k}
    /\ UNCHANGED <<roles, made, keys, req, begun, answer>>

Usable(k) == keys[k] = "ACTIVE" /\ k \notin lapsed

ValidateAPIKey(k, scope) ==
    Usable(k) /\ (scope # NoPermission => CheckPermission(KeyScopes[k], scope))

-----------------------------------------------------------------------------
(* handleEvaluate *)

\* A key is known to nobody before it is made.
Begin(r, a) ==
    /\ req[r].at = "idle" /\ begun < MaxBegun
    /\ a.by \in Keys => keys[a.by] # "none"
    /\ begun' = begun + 1
    /\ req' = [req EXCEPT ![r] =
         [Idle EXCEPT !.at = "key", !.ask = a, !.tenant = a.tenant, !.role = a.role,
                      !.dead = (a.by \in Keys /\ ~Usable(a.by))]]
    /\ UNCHANGED <<roles, made, keys, lapsed, answer>>

Goto(r, next) == req' = [req EXCEPT ![r] = next] /\ UNCHANGED answer
Deny(r) ==
    /\ answer' = [allowed |-> FALSE, to |-> req[r]]
    /\ req' = [req EXCEPT ![r] = Idle]
Allow(r) ==
    /\ answer' = [allowed |-> TRUE, to |-> req[r]]
    /\ req' = [req EXCEPT ![r] = Idle]

\* A key brings its tenant and the role API_CLIENT.
Authenticate(r) ==
    LET a == req[r].ask IN
    /\ req[r].at = "key"
    /\ IF a.by \in Keys
       THEN IF ValidateAPIKey(a.by, a.scope)
            THEN Goto(r, [req[r] EXCEPT !.at = "role", !.tenant = KeyTenant[a.by],
                                        !.role = "API_CLIENT"])
            ELSE Deny(r)
       ELSE IF a.by = "forgery" THEN Deny(r)
       ELSE Goto(r, [req[r] EXCEPT !.at = "role"])
    /\ UNCHANGED <<roles, made, keys, lapsed, begun>>

\* The reference for GetEffectivePermissions: every set of roles that holds n
\* and the parents of its members holds the ancestry.
Ancestry(t, n) ==
    {m \in Names : \A S \in SUBSET Names :
        n \in S /\ (\A k \in S : Resolve(t, k).parent \in S \cup {NoRole}) => m \in S}
Inherited(t, n) == UNION {Resolve(t, m).permissions : m \in Ancestry(t, n)}

CheckRole(r) ==
    LET need == req[r].ask.need
        asked == need # NoPermission /\ req[r].role # NoRole
    IN  /\ req[r].at = "role"
        /\ IF asked => EvaluateAccess(req[r].tenant, req[r].role, need)
           THEN Goto(r, [req[r] EXCEPT !.at = "policy",
                  !.earned = IF asked THEN Inherited(req[r].tenant, req[r].role) ELSE {}])
           ELSE Deny(r)
        /\ UNCHANGED <<roles, made, keys, lapsed, begun>>

CheckPolicy(r) ==
    /\ req[r].at = "policy"
    /\ IF \A c \in req[r].ask.about : EvaluateABACAndOPA(c) THEN Allow(r) ELSE Deny(r)
    /\ UNCHANGED <<roles, made, keys, lapsed, begun>>

Next ==
    \/ \E new \in NewRoles : CreateRole(new)
    \/ \E k \in Keys : GenerateAPIKey(k) \/ RevokeAPIKey(k) \/ Lapse(k)
    \/ \E r \in Requests : \/ \E a \in Asked : Begin(r, a)
                           \/ Authenticate(r) \/ CheckRole(r) \/ CheckPolicy(r)

Spec == Init /\ [][Next]_vars

-----------------------------------------------------------------------------
(* Properties *)

Request == [at : {"idle", "key", "role", "policy"}, ask : Asked, tenant : Tenants,
            role : Names \cup {NoRole}, dead : BOOLEAN,
            earned : SUBSET (Permissions \cup {NoPermission})]

TypeOK ==
    /\ roles \in [Tenants -> [Names -> Role \cup {Unmade}]]
    /\ made \in 0..MaxRoles /\ begun \in 0..MaxBegun
    /\ keys \in [Keys -> {"none", "ACTIVE", "REVOKED"}]
    /\ lapsed \subseteq Keys
    /\ req \in [Requests -> Request]
    /\ answer \in [allowed : BOOLEAN, to : Request]

\* The walk finds what a role inherits, however tenants shadow global roles and
\* close circles with roles of their own (rbac_service.go:116-147).
WalkFindsAncestry ==
    \A t \in Tenants, n \in Names : GetEffectivePermissions(t, n) = Inherited(t, n)

\* What the rules refuse: the highest classification is only for the cleared of
\* finance; any other resource is changed from inside only, and money is for
\* finance in its hours, and nothing else is refused (policy_engine.go:81-162).
\* Where the cleared may see the highest classification from is not said here.
RulesAreThese ==
    \A c \in Contexts :
        IF c.secret
        THEN EvaluateABACAndOPA(c) => c.finance /\ c.cleared /\ c.calm
        ELSE EvaluateABACAndOPA(c)
               <=> (c.mutates => c.internal) /\ (c.billing => c.finance /\ c.inHours)

\* Who is allowed had a key that was good when the request came, a role with
\* the permission when the roles were looked at, and a context the rules
\* accept; a key has no permission before somebody makes the role API_CLIENT.
GrantsAreEarned ==
    answer.allowed =>
      LET a == answer.to.ask
          byKey == a.by \in Keys
      IN  /\ a.by # "forgery" /\ ~answer.to.dead
          /\ byKey /\ a.scope # NoPermission => CheckPermission(KeyScopes[a.by], a.scope)
          /\ a.need # NoPermission /\ (byKey \/ a.role # NoRole) =>
               /\ CheckPermission(answer.to.earned, a.need)
               /\ byKey => Resolve(KeyTenant[a.by], "API_CLIENT") # Unmade
          /\ \A c \in a.about : EvaluateABACAndOPA(c)

-----------------------------------------------------------------------------
(* What the source says and the code does not do *)

\* "explicit deny takes precedence" (policy_engine.go:115): whoever is allowed
\* satisfies every DENY rule that matches.
DenyTakesPrecedence ==
    answer.allowed =>
      \A c \in answer.to.ask.about, i \in DOMAIN Rules :
        Rules[i].effect = "DENY" /\ c \in Rules[i].matches => c \in Rules[i].satisfied
=============================================================================
