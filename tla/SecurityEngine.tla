--------------------------- MODULE SecurityEngine ---------------------------
(***************************************************************************)
(* The Zero Trust platform of the demo server: the in-memory store of      *)
(* securityEngine.ts and the handlers of server.ts under /api/security.    *)
(* A handler runs to its end without an await, so one request is one step. *)
(*                                                                         *)
(* A record keeps what tells its states apart: an SVID the number of its   *)
(* issue in place of serial, dates and fingerprint, a transit key the      *)
(* number of its rotation.  A row that is not there is numbered 0.  The    *)
(* rotations that the seed lists before the start are left out.            *)
(***************************************************************************)
EXTENDS Integers, Sequences

CONSTANTS
    Workloads,          \* the SPIFFE identities
    Paths,              \* Vault paths
    SeedVersions,       \* and their versions at the start, 0 for no secret
    Payloads,           \* contents of a secret
    SeedData,           \* the content written at the start
    TransitKeys,
    Policies, RegoTexts, \* OPA policies and their Rego texts
    SeedText,
    KeyIds, SeedKeys,   \* API keys, and those issued at the start
    Roles, Methods,
    ClientIds, Gateway, \* rate limited clients, and the one with metrics
    SeedMetrics,        \* rows of metrics at the start
    SeedAudit,          \* audit events at the start
    AuditCap            \* the trail keeps this many (200)

ASSUME SecurityAssumption ==
    /\ SeedVersions \in [Paths -> Nat] /\ SeedData \in Payloads
    /\ SeedText \in RegoTexts /\ SeedKeys \subseteq KeyIds
    /\ Gateway \in ClientIds
    /\ SeedMetrics \in Nat /\ SeedAudit \in Nat
    /\ AuditCap \in Nat \ {0} /\ SeedAudit <= AuditCap

-----------------------------------------------------------------------------
(* Records *)

SpiffeSvid == [issue : Nat, status : {"none", "active", "expired", "rotated"}]
VaultSecret == [version : Nat, data : Payloads, history : Seq(Nat)]
ApiKeyStatus == {"none", "active", "revoked"}

\* The lists a console keeps a copy of.
Tables == [svids : [Workloads -> SpiffeSvid],
           secrets : [Paths -> VaultSecret],
           transitKeys : [TransitKeys -> Nat],
           opaPolicies : [Policies -> RegoTexts],
           apiKeys : [KeyIds -> ApiKeyStatus]]

SvidRotationLog == [workload : Workloads, issue : Nat]
RateLimitMetric == [client : ClientIds, total : Nat, blocked : Nat]

Categories == {"authentication", "authorization", "secrets", "network_mtls",
               "rate_limiting"}
SecurityAuditEvent == [id : Nat, category : Categories,
                       status : {"success", "failure", "blocked"}]

OpaEvaluationRequest ==
    [roles : SUBSET Roles, method : Methods, restricted : BOOLEAN]

VARIABLES
    tables,             \* svids, secrets, transitKeys, opaPolicies, apiKeys
    rotationLogs,       \* newest first, never cut
    rateLimitMetrics,
    auditLogs,          \* newest first
    audited,            \* audit events so far: the source of their ids
    granted             \* history: the OPA requests answered with "allow"

store == <<tables, rotationLogs, rateLimitMetrics, auditLogs, audited, granted>>

-----------------------------------------------------------------------------
(* The constructor fills the store. *)

SeedSvids == [w \in Workloads |-> [issue |-> 1, status |-> "active"]]
SeedSecrets ==
    [p \in Paths |-> [version |-> SeedVersions[p], data |-> SeedData,
                      history |-> [i \in 1..SeedVersions[p] |-> i]]]
SeedTransitKeys == [k \in TransitKeys |-> 1]
SeedPolicies == [p \in Policies |-> SeedText]
SeedApiKeys == [k \in KeyIds |-> IF k \in SeedKeys THEN "active" ELSE "none"]

StoreInit ==
    /\ tables = [svids |-> SeedSvids, secrets |-> SeedSecrets,
                 transitKeys |-> SeedTransitKeys,
                 opaPolicies |-> SeedPolicies, apiKeys |-> SeedApiKeys]
    /\ rotationLogs = <<>>
    /\ rateLimitMetrics =
         [i \in 1..SeedMetrics |-> [client |-> Gateway, total |-> 0, blocked |-> 0]]
    /\ auditLogs = [i \in 1..SeedAudit |->
         [id |-> SeedAudit - i, category |-> "secrets", status |-> "success"]]
    /\ audited = SeedAudit
    /\ granted = {}

-----------------------------------------------------------------------------
(* Handlers *)

\* Fault: the trail is never cut.
LogAuditUncut(category, status) ==
    /\ auditLogs' =
         <<[id |-> audited, category |-> category, status |-> status]>> \o auditLogs
    /\ audited' = audited + 1

\* unshift, and pop beyond the cap.
LogAudit(category, status) ==
    LET event == [id |-> audited, category |-> category, status |-> status]
        longer == <<event>> \o auditLogs
    IN  /\ auditLogs' = IF Len(longer) > AuditCap
                        THEN SubSeq(longer, 1, Len(longer) - 1) ELSE longer
        /\ audited' = audited + 1

\* The renewed SVID takes the place of the old one.
RotateWorkloadSvid(w) ==
    LET renewed == [issue |-> tables.svids[w].issue + 1, status |-> "active"]
    IN  /\ tables' = [tables EXCEPT !.svids = [@ EXCEPT ![w] = renewed]]
        /\ rotationLogs' =
             <<[workload |-> w, issue |-> renewed.issue]>> \o rotationLogs
        /\ LogAudit("network_mtls", "success")
        /\ UNCHANGED <<rateLimitMetrics, granted>>

\* A path without a secret starts at version 0; its versions are listed in
\* the order they were put in front.
RotateVaultSecret(p, data) ==
    LET old == tables.secrets[p]
        new == [version |-> old.version + 1, data |-> data,
                history |-> <<old.version + 1>> \o old.history]
    IN  /\ tables' = [tables EXCEPT !.secrets = [@ EXCEPT ![p] = new]]
        /\ LogAudit("secrets", "success")
        /\ UNCHANGED <<rotationLogs, rateLimitMetrics, granted>>

RotateTransitKey(k) ==
    /\ tables' = [tables EXCEPT !.transitKeys[k] = @ + 1]
    /\ LogAudit("secrets", "success")
    /\ UNCHANGED <<rotationLogs, rateLimitMetrics, granted>>

\* A token is signed and not kept.
GenerateKeycloakJwt ==
    /\ LogAudit("authentication", "success")
    /\ UNCHANGED <<tables, rotationLogs, rateLimitMetrics, granted>>

SaveOpaPolicy(p, text) ==
    /\ tables' = [tables EXCEPT !.opaPolicies = [@ EXCEPT ![p] = text]]
    /\ LogAudit("authorization", "success")
    /\ UNCHANGED <<rotationLogs, rateLimitMetrics, granted>>

\* The rules are written into the engine; the text of the policy is not read.
Allowed(r) ==
    \/ "security-engineer" \in r.roles
    \/ "developer" \in r.roles /\ r.method = "GET" /\ ~r.restricted

EvaluateOpaPolicy(r) ==
    /\ granted' = IF Allowed(r) THEN granted \cup {r} ELSE granted
    /\ LogAudit("authorization", IF Allowed(r) THEN "success" ELSE "blocked")
    /\ UNCHANGED <<tables, rotationLogs, rateLimitMetrics>>

\* The identifier is fresh.
CreateApiKey(k) ==
    /\ tables.apiKeys[k] = "none"
    /\ tables' = [tables EXCEPT !.apiKeys = [@ EXCEPT ![k] = "active"]]
    /\ LogAudit("authentication", "success")
    /\ UNCHANGED <<rotationLogs, rateLimitMetrics, granted>>

\* Fault: a revocation leaves no event.
RevokeApiKeySilently(k) ==
    /\ tables' = [tables EXCEPT !.apiKeys = [@ EXCEPT ![k] = "revoked"]]
    /\ UNCHANGED <<rotationLogs, rateLimitMetrics, auditLogs, audited, granted>>

\* Revoking a revoked key succeeds again.
RevokeApiKey(k) ==
    /\ tables' = [tables EXCEPT !.apiKeys = [@ EXCEPT ![k] = "revoked"]]
    /\ LogAudit("authentication", "success")
    /\ UNCHANGED <<rotationLogs, rateLimitMetrics, granted>>

\* The first row of the client counts, the oldest one of the seed; a client
\* without a row gets one in front.
TriggerRateLimitHit(client) ==
    LET rows == {i \in DOMAIN rateLimitMetrics :
                   rateLimitMetrics[i].client = client}
        first == CHOOSE i \in rows : \A j \in rows : i <= j
    IN  /\ \/ /\ rows # {}
              /\ \E more \in {0, 1} :
                   rateLimitMetrics' =
                     [rateLimitMetrics EXCEPT
                        ![first].total = @ + 1, ![first].blocked = @ + more]
           \/ /\ rows = {}
              /\ rateLimitMetrics' =
                   <<[client |-> client, total |-> 1, blocked |-> 1]>>
                     \o rateLimitMetrics
        /\ LogAudit("rate_limiting", "blocked")
        /\ UNCHANGED <<tables, rotationLogs, granted>>

\* 400, 404 or 500: a field is missing, or nothing has that name.
Refuse == UNCHANGED store

-----------------------------------------------------------------------------
(* What the policy in force at the start says, rule by rule. *)

RegoAllows(r) ==
    \/ "security-engineer" \in r.roles /\ r.method \in {"GET", "POST", "PUT"}
    \/ "developer" \in r.roles /\ r.method = "GET" /\ ~r.restricted

StoreTypeOK ==
    /\ tables \in Tables
    /\ rotationLogs \in Seq(SvidRotationLog)
    /\ rateLimitMetrics \in Seq(RateLimitMetric)
    /\ auditLogs \in Seq(SecurityAuditEvent)
    /\ Len(auditLogs) <= AuditCap
    /\ audited \in Nat
    /\ granted \subseteq OpaEvaluationRequest
=============================================================================
