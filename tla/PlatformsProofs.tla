-------------------------- MODULE PlatformsProofs --------------------------
(***************************************************************************)
(* Proofs about the two platforms on the demo server, one after the other. *)
(*                                                                         *)
(* Zero Trust first.  Every handler of the store leaves Recorded, every    *)
(* step of the console one of a few effects on its calls; each part of the *)
(* invariant is shown once for each.  The AI platform after it, in the     *)
(* same way: a step of the server starts, moves or ends one request, a     *)
(* step of the page begins or ends one call or one fetch.                  *)
(***************************************************************************)
EXTENDS Platforms, FiniteSetTheorems, TLAPS

-----------------------------------------------------------------------------
(* The store *)

\* A step that writes an event puts it in front and keeps the rest, the
\* oldest event of a full trail excepted.
LEMMA LogAuditFacts ==
    ASSUME StoreTypeOK, NEW category \in Categories,
           NEW status \in {"success", "failure", "blocked"},
           LogAudit(category, status)
    PROVE  /\ auditLogs' \in Seq(SecurityAuditEvent) /\ Len(auditLogs') <= AuditCap
           /\ audited' = audited + 1 /\ audited' \in Nat
           /\ auditLogs' # <<>>
           /\ Head(auditLogs').id = audited /\ Head(auditLogs').status = status
           /\ \A i \in 2..Len(auditLogs') : auditLogs'[i] = auditLogs[i - 1]
           /\ Len(auditLogs') < Len(auditLogs) + 1 => Len(auditLogs') = AuditCap
  <1> DEFINE event == [id |-> audited, category |-> category, status |-> status]
             longer == <<event>> \o auditLogs
  <1>1. /\ auditLogs \in Seq(SecurityAuditEvent) /\ Len(auditLogs) \in Nat
        /\ Len(auditLogs) <= AuditCap /\ AuditCap \in Nat \ {0} /\ audited \in Nat
    BY SecurityAssumption DEF StoreTypeOK
  <1>2. event \in SecurityAuditEvent /\ event.id = audited /\ event.status = status
    BY <1>1 DEF SecurityAuditEvent
  <1>3. /\ auditLogs' = IF Len(longer) > AuditCap
                        THEN SubSeq(longer, 1, Len(longer) - 1) ELSE longer
        /\ audited' = audited + 1
    BY DEF LogAudit
  <1> HIDE DEF event
  <1>4. /\ longer \in Seq(SecurityAuditEvent) /\ Len(longer) = Len(auditLogs) + 1
        /\ longer[1] = event
        /\ \A i \in 2..Len(longer) : longer[i] = auditLogs[i - 1]
    BY <1>1, <1>2
  <1> HIDE DEF longer
  <1>5. CASE Len(longer) > AuditCap
    <2>1. /\ auditLogs' = SubSeq(longer, 1, AuditCap) /\ AuditCap <= Len(longer)
          /\ Len(auditLogs) = AuditCap
      BY <1>1, <1>3, <1>4, <1>5
    <2>2. /\ auditLogs' \in Seq(SecurityAuditEvent) /\ Len(auditLogs') = AuditCap
          /\ \A i \in 1..AuditCap : auditLogs'[i] = longer[i]
      BY <1>1, <1>4, <2>1
    <2>3. auditLogs' # <<>> /\ Head(auditLogs') = event
      BY <1>1, <1>4, <2>2
    <2> QED BY <1>1, <1>2, <1>3, <1>4, <2>1, <2>2, <2>3
  <1>6. CASE ~(Len(longer) > AuditCap)
    <2>1. auditLogs' = longer
      BY <1>3, <1>6
    <2>2. auditLogs' # <<>> /\ Head(auditLogs') = event
      BY <1>1, <1>4, <2>1
    <2> QED BY <1>1, <1>2, <1>3, <1>4, <1>6, <2>1, <2>2
  <1> QED BY <1>5, <1>6

\* What a handler leaves of the store: types, and one event of a success at
\* the head of the trail when it changed a table.
Recorded ==
    /\ StoreTypeOK'
    /\ tables' # tables =>
         /\ audited' = audited + 1
         /\ Head(auditLogs').id = audited
         /\ Head(auditLogs').status = "success"
         /\ \A i \in 2..Len(auditLogs') : auditLogs'[i] = auditLogs[i - 1]
         /\ Len(auditLogs') < Len(auditLogs) + 1 => Len(auditLogs') = AuditCap

\* A table that is not l stays.
OnlyChanges(l) == \A m \in Lists \ {l} : tables'[m] = tables[m]

LEMMA SvidRotated ==
    ASSUME StoreTypeOK, NEW w \in Workloads, RotateWorkloadSvid(w)
    PROVE  Recorded /\ OnlyChanges("svids")
           /\ \E v : tables'.svids = [tables.svids EXCEPT ![w] = v]
  <1> DEFINE renewed == [issue |-> tables.svids[w].issue + 1, status |-> "active"]
             line == [workload |-> w, issue |-> renewed.issue]
  <1>1. /\ tables' = [tables EXCEPT !.svids = [tables.svids EXCEPT ![w] = renewed]]
        /\ rotationLogs' = <<line>> \o rotationLogs
        /\ LogAudit("network_mtls", "success")
        /\ UNCHANGED <<rateLimitMetrics, granted>>
    BY DEF RotateWorkloadSvid
  <1>2. tables \in Tables /\ tables.svids \in [Workloads -> SpiffeSvid]
    BY DEF StoreTypeOK, Tables
  <1>3. tables.svids[w].issue \in Nat
    BY <1>2 DEF SpiffeSvid
  <1>4. renewed \in SpiffeSvid /\ line \in SvidRotationLog
    BY <1>3 DEF SpiffeSvid, SvidRotationLog
  <1> HIDE DEF renewed, line
  <1>5. [tables.svids EXCEPT ![w] = renewed] \in [Workloads -> SpiffeSvid]
    BY <1>2, <1>4
  <1>6. tables' \in Tables
    BY <1>1, <1>2, <1>5 DEF Tables
  <1>7. rotationLogs' \in Seq(SvidRotationLog)
    BY <1>1, <1>4 DEF StoreTypeOK
  <1>8. StoreTypeOK' /\ Recorded
    BY <1>1, <1>6, <1>7, LogAuditFacts DEF StoreTypeOK, Recorded, Categories
  <1>9. OnlyChanges("svids") /\ tables'.svids = [tables.svids EXCEPT ![w] = renewed]
    BY <1>1, <1>2 DEF OnlyChanges, Lists, Tables
  <1> QED BY <1>8, <1>9

LEMMA SecretRotated ==
    ASSUME StoreTypeOK, NEW p \in Paths, NEW data \in Payloads, RotateVaultSecret(p, data)
    PROVE  Recorded /\ OnlyChanges("secrets")
           /\ \E v : tables'.secrets = [tables.secrets EXCEPT ![p] = v]
  <1> DEFINE old == tables.secrets[p]
             new == [version |-> old.version + 1, data |-> data,
                     history |-> <<old.version + 1>> \o old.history]
  <1>1. /\ tables' = [tables EXCEPT !.secrets = [tables.secrets EXCEPT ![p] = new]]
        /\ LogAudit("secrets", "success")
        /\ UNCHANGED <<rotationLogs, rateLimitMetrics, granted>>
    BY DEF RotateVaultSecret
  <1>2. tables \in Tables /\ tables.secrets \in [Paths -> VaultSecret]
    BY DEF StoreTypeOK, Tables
  <1>3. old.version \in Nat /\ old.history \in Seq(Nat)
    BY <1>2 DEF VaultSecret
  <1>4. new \in VaultSecret
    BY <1>3 DEF VaultSecret
  <1> HIDE DEF new
  <1>5. [tables.secrets EXCEPT ![p] = new] \in [Paths -> VaultSecret]
    BY <1>2, <1>4
  <1>6. tables' \in Tables
    BY <1>1, <1>2, <1>5 DEF Tables
  <1>7. StoreTypeOK' /\ Recorded
    BY <1>1, <1>6, LogAuditFacts DEF StoreTypeOK, Recorded, Categories
  <1>8. OnlyChanges("secrets") /\ tables'.secrets = [tables.secrets EXCEPT ![p] = new]
    BY <1>1, <1>2 DEF OnlyChanges, Lists, Tables
  <1> QED BY <1>7, <1>8

LEMMA PolicySaved ==
    ASSUME StoreTypeOK, NEW p \in Policies, NEW text \in RegoTexts, SaveOpaPolicy(p, text)
    PROVE  Recorded /\ OnlyChanges("opaPolicies")
           /\ \E v : tables'.opaPolicies = [tables.opaPolicies EXCEPT ![p] = v]
  <1>1. /\ tables' = [tables EXCEPT !.opaPolicies = [tables.opaPolicies EXCEPT ![p] = text]]
        /\ LogAudit("authorization", "success")
        /\ UNCHANGED <<rotationLogs, rateLimitMetrics, granted>>
    BY DEF SaveOpaPolicy
  <1>2. tables \in Tables /\ tables.opaPolicies \in [Policies -> RegoTexts]
    BY DEF StoreTypeOK, Tables
  <1>3. [tables.opaPolicies EXCEPT ![p] = text] \in [Policies -> RegoTexts]
    BY <1>2
  <1>4. tables' \in Tables
    BY <1>1, <1>2, <1>3 DEF Tables
  <1>5. StoreTypeOK' /\ Recorded
    BY <1>1, <1>4, LogAuditFacts DEF StoreTypeOK, Recorded, Categories
  <1>6. /\ OnlyChanges("opaPolicies")
        /\ tables'.opaPolicies = [tables.opaPolicies EXCEPT ![p] = text]
    BY <1>1, <1>2 DEF OnlyChanges, Lists, Tables
  <1> QED BY <1>5, <1>6

LEMMA KeyChanged ==
    ASSUME StoreTypeOK, NEW k \in KeyIds, CreateApiKey(k) \/ RevokeApiKey(k)
    PROVE  Recorded /\ OnlyChanges("apiKeys")
           /\ \E v : tables'.apiKeys = [tables.apiKeys EXCEPT ![k] = v]
  <1>1. PICK v \in {"active", "revoked"} :
          /\ tables' = [tables EXCEPT !.apiKeys = [tables.apiKeys EXCEPT ![k] = v]]
          /\ LogAudit("authentication", "success")
          /\ UNCHANGED <<rotationLogs, rateLimitMetrics, granted>>
    BY DEF CreateApiKey, RevokeApiKey
  <1>2. tables \in Tables /\ tables.apiKeys \in [KeyIds -> ApiKeyStatus]
    BY DEF StoreTypeOK, Tables
  <1>3. [tables.apiKeys EXCEPT ![k] = v] \in [KeyIds -> ApiKeyStatus]
    BY <1>2 DEF ApiKeyStatus
  <1>4. tables' \in Tables
    BY <1>1, <1>2, <1>3 DEF Tables
  <1>5. StoreTypeOK' /\ Recorded
    BY <1>1, <1>4, LogAuditFacts DEF StoreTypeOK, Recorded, Categories
  <1>6. /\ OnlyChanges("apiKeys")
        /\ tables'.apiKeys = [tables.apiKeys EXCEPT ![k] = v]
    BY <1>1, <1>2 DEF OnlyChanges, Lists, Tables
  <1> QED BY <1>5, <1>6

LEMMA TransitRotated ==
    ASSUME StoreTypeOK, NEW k \in TransitKeys, RotateTransitKey(k)
    PROVE  Recorded /\ OnlyChanges("transitKeys")
  <1> DEFINE next == tables.transitKeys[k] + 1
  <1>1. /\ tables' = [tables EXCEPT !.transitKeys = [tables.transitKeys EXCEPT ![k] = next]]
        /\ LogAudit("secrets", "success")
        /\ UNCHANGED <<rotationLogs, rateLimitMetrics, granted>>
    BY DEF RotateTransitKey
  <1>2. tables \in Tables /\ tables.transitKeys \in [TransitKeys -> Nat]
    BY DEF StoreTypeOK, Tables
  <1>3. [tables.transitKeys EXCEPT ![k] = next] \in [TransitKeys -> Nat]
    BY <1>2
  <1>4. tables' \in Tables
    BY <1>1, <1>2, <1>3 DEF Tables
  <1>5. StoreTypeOK' /\ Recorded
    BY <1>1, <1>4, LogAuditFacts DEF StoreTypeOK, Recorded, Categories
  <1>6. OnlyChanges("transitKeys")
    BY <1>1, <1>2 DEF OnlyChanges, Lists, Tables
  <1> QED BY <1>5, <1>6

LEMMA TablesKept ==
    ASSUME StoreTypeOK,
           \/ GenerateKeycloakJwt \/ Refuse
           \/ \E r \in OpaEvaluationRequest : EvaluateOpaPolicy(r)
           \/ \E client \in ClientIds : TriggerRateLimitHit(client)
    PROVE  StoreTypeOK' /\ UNCHANGED tables
  <1>1. CASE GenerateKeycloakJwt
    BY <1>1, LogAuditFacts DEF GenerateKeycloakJwt, StoreTypeOK, Categories
  <1>2. CASE Refuse
    BY <1>2 DEF Refuse, store, StoreTypeOK
  <1>3. ASSUME NEW r \in OpaEvaluationRequest, EvaluateOpaPolicy(r)
        PROVE  StoreTypeOK' /\ UNCHANGED tables
    <2>1. PICK status \in {"success", "blocked"} : LogAudit("authorization", status)
      BY <1>3 DEF EvaluateOpaPolicy
    <2>2. /\ granted' \subseteq granted \cup {r}
          /\ UNCHANGED <<tables, rotationLogs, rateLimitMetrics>>
      BY <1>3 DEF EvaluateOpaPolicy
    <2> QED BY <1>3, <2>1, <2>2, LogAuditFacts DEF StoreTypeOK, Categories
  <1>4. ASSUME NEW client \in ClientIds, TriggerRateLimitHit(client)
        PROVE  StoreTypeOK' /\ UNCHANGED tables
    <2>1. /\ LogAudit("rate_limiting", "blocked")
          /\ UNCHANGED <<tables, rotationLogs, granted>>
      BY <1>4 DEF TriggerRateLimitHit
    <2>2. rateLimitMetrics' \in Seq(RateLimitMetric)
      <3> DEFINE one == [client |-> client, total |-> 1, blocked |-> 1]
      <3>1. one \in RateLimitMetric
        BY DEF RateLimitMetric
      <3>2. rateLimitMetrics \in Seq(RateLimitMetric)
        BY DEF StoreTypeOK
      <3> DEFINE rows == {i \in DOMAIN rateLimitMetrics :
                            rateLimitMetrics[i].client = client}
                 first == CHOOSE i \in rows : \A j \in rows : i <= j
                 more(n) == [rateLimitMetrics[first] EXCEPT
                               !.total = rateLimitMetrics[first].total + 1,
                               !.blocked = rateLimitMetrics[first].blocked + n]
      <3>3. \/ \E n \in {0, 1} :
                 rateLimitMetrics' = [rateLimitMetrics EXCEPT ![first] = more(n)]
            \/ rateLimitMetrics' = <<one>> \o rateLimitMetrics
        BY <1>4 DEF TriggerRateLimitHit
      <3> HIDE DEF one, first
      <3>4. ASSUME NEW n \in {0, 1}, first \in DOMAIN rateLimitMetrics
            PROVE  more(n) \in RateLimitMetric
        <4>1. PICK row \in RateLimitMetric : row = rateLimitMetrics[first]
          BY <3>2, <3>4
        <4>2. row.total + 1 \in Nat /\ row.blocked + n \in Nat
          BY DEF RateLimitMetric
        <4>3. ASSUME NEW t \in Nat, NEW b \in Nat
              PROVE  [row EXCEPT !.total = t, !.blocked = b] \in RateLimitMetric
          BY DEF RateLimitMetric
        <4> QED BY <4>1, <4>2, <4>3
      <3> HIDE DEF more
      <3>5. ASSUME NEW n \in {0, 1},
                   rateLimitMetrics' = [rateLimitMetrics EXCEPT ![first] = more(n)]
            PROVE  rateLimitMetrics' \in Seq(RateLimitMetric)
        <4>1. CASE first \in DOMAIN rateLimitMetrics
          BY <3>2, <3>4, <3>5, <4>1
        <4>2. CASE first \notin DOMAIN rateLimitMetrics
          <5>1. rateLimitMetrics' = rateLimitMetrics
            BY <3>2, <3>5, <4>2
          <5> QED BY <3>2, <5>1
        <4> QED BY <4>1, <4>2
      <3>6. ASSUME rateLimitMetrics' = <<one>> \o rateLimitMetrics
            PROVE  rateLimitMetrics' \in Seq(RateLimitMetric)
        BY <3>1, <3>2, <3>6
      <3> QED BY <3>3, <3>5, <3>6
    <2> QED BY <2>1, <2>2, LogAuditFacts DEF StoreTypeOK, Categories
  <1> QED BY <1>1, <1>2, <1>3, <1>4

-----------------------------------------------------------------------------
(* The console: its calls one by one, then what they hold of the lists. *)

\* What a call names is of the kind its operation asks for.
ItemFits(call) ==
    /\ call.op = "rotateSvid" => call.item \in Workloads
    /\ call.op \in {"rotateSecret", "addSecret"} => call.item \in Paths
    /\ call.op = "saveOpa" => call.item \in Policies
    /\ call.op = "revokeKey" => call.item \in KeyIds
    /\ call.op = "createKey" /\ call.stage # "sent" => call.item \in KeyIds

\* Calls are numbered as they begin, and belong to a page opened before.
CallsFit ==
    /\ mounts <= started /\ started + outside <= MaxCalls
    /\ \A c \in Calls : /\ c > started => ~Running(c)
                        /\ calls[c].mount <= mounts
                        /\ ItemFits(calls[c])

Touches(c, l) == Pending(c) /\ l \in Concerns(calls[c].op)

\* A list that is not raced is the business of one call at a time, of the
\* page that is shown.
OneAtATime ==
    \A l \in Lists \ raced, c \in Calls : Touches(c, l) =>
      calls[c].mount = mounts /\ \A d \in Calls : Touches(d, l) => d = c

\* A page loads once.
LoadsOnce ==
    \A c \in Calls : Pending(c) /\ calls[c].op = "load" /\ calls[c].mount = mounts =>
      /\ ~loaded
      /\ \A d \in Calls : Pending(d) /\ calls[d].op = "load" /\ calls[d].mount = mounts
                         => d = c

\* The copy of a list that a call would store.
Patched(call, l) ==
    [call.seen[l] EXCEPT ![call.item] = call.reply[l][call.item]]

\* An answer tells the list as it is; put in the copy that its call saw, or
\* in the one shown, its row makes them that list.
AnswersAgree ==
    \A l \in Lists \ raced :
      /\ \A c \in Calls : Touches(c, l) /\ calls[c].stage = "served"
                           => calls[c].reply[l] = tables[l]
      /\ open /\ loaded =>
           /\ (\A c \in Calls : ~Touches(c, l)) => view[l] = tables[l]
           /\ \A c \in Calls : Touches(c, l) =>
                /\ calls[c].seen[l] = view[l]
                /\ calls[c].stage = "sent" => view[l] = tables[l]
                /\ calls[c].stage = "served" => Patched(calls[c], l) = tables[l]

\* Of the calls behind a button that a spinner disables one runs, if any.
OneSpins ==
    open => \A op \in Guarded :
      /\ op \notin busy => \A c \in Calls : ~(Running(c) /\ Mine(c) /\ calls[c].op = op)
      /\ op \in busy => \E c \in Calls : \A d \in Calls :
           (Running(d) /\ Mine(d) /\ calls[d].op = op) <=> d = c

ConsoleInv ==
    TypeOK /\ CallsFit /\ OneAtATime /\ LoadsOnce /\ AnswersAgree /\ OneSpins

LEMMA ConcernFacts ==
    /\ Concerns("load") = Lists
    /\ Concerns("rotateSvid") = {"svids"}
    /\ Concerns("rotateSecret") = {"secrets"} /\ Concerns("addSecret") = {"secrets"}
    /\ Concerns("saveOpa") = {"opaPolicies"}
    /\ Concerns("createKey") = {"apiKeys"} /\ Concerns("revokeKey") = {"apiKeys"}
    /\ Concerns("issueJwt") = {} /\ Concerns("evaluate") = {} /\ Concerns("simulate") = {}
    /\ \A op \in Ops : Concerns(op) \subseteq Lists
  BY DEF Concerns, Lists, Ops

LEMMA EmptyFacts ==
    /\ EmptyTables \in Tables /\ NoRequest \in OpaEvaluationRequest
    /\ Unused \in CallType
    /\ Unused.stage = "unused" /\ Unused.op = "load" /\ Unused.mount = 0
    /\ Ended \in CallType
    /\ Ended.stage = "ended" /\ Ended.op = "load" /\ Ended.mount = 0
  <1>1. EmptyTables \in Tables
    BY SecurityAssumption DEF EmptyTables, Tables, SpiffeSvid, VaultSecret, ApiKeyStatus
  <1>2. NoRequest \in OpaEvaluationRequest
    BY ConsoleAssumption DEF NoRequest, OpaEvaluationRequest
  <1>3. /\ "load" \in Ops /\ Nobody \in Items /\ 0 \in 0..MaxCalls
        /\ SeedData \in Payloads /\ SeedText \in RegoTexts
        /\ "unused" \in Stages /\ "ended" \in Stages
    BY SecurityAssumption, ConsoleAssumption DEF Ops, Items, Stages
  <1>4. Unused \in CallType
    BY <1>1, <1>2, <1>3 DEF Unused, CallType
  <1>5. Unused.stage = "unused" /\ Unused.op = "load" /\ Unused.mount = 0
    BY DEF Unused
  <1>6. PICK u \in CallType : u = Unused
    BY <1>4
  <1>7. /\ [u EXCEPT !.stage = "ended"] \in CallType
        /\ [u EXCEPT !.stage = "ended"].stage = "ended"
        /\ [u EXCEPT !.stage = "ended"].op = u.op
        /\ [u EXCEPT !.stage = "ended"].mount = u.mount
    BY <1>3 DEF CallType
  <1> QED BY <1>1, <1>2, <1>4, <1>5, <1>6, <1>7 DEF Ended

\* A request that is sent by the page shown.
Sends(call, op) ==
    /\ call \in CallType /\ call.op = op /\ call.stage = "sent"
    /\ call.seen = view /\ call.mount = mounts

LEMMA CallFacts ==
    ASSUME TypeOK, NEW op \in Ops
    PROVE  Sends(Call(op), op)
  <1>1. PICK u \in CallType : u = Unused
    BY EmptyFacts
  <1>2. view \in Tables /\ mounts \in 0..MaxCalls /\ "sent" \in Stages
    BY DEF TypeOK, Stages
  <1>3. Call(op) = [u EXCEPT !.op = op, !.stage = "sent", !.seen = view, !.mount = mounts]
    BY <1>1 DEF Call
  <1>4. Call(op) \in CallType
    BY <1>2, <1>3 DEF CallType
  <1>5. /\ Call(op).op = op /\ Call(op).stage = "sent"
        /\ Call(op).seen = view /\ Call(op).mount = mounts
    BY <1>3 DEF CallType
  <1> QED BY <1>4, <1>5 DEF Sends

\* A call that begins takes the next number; a list that it shares with a
\* pending one is raced from now on.
LEMMA BeginFacts ==
    ASSUME TypeOK, CallsFit, NEW call \in CallType, ItemFits(call), Begin(call),
           NEW n, n = started + 1
    PROVE  /\ n \in Calls /\ ~Running(n) /\ started' = n /\ outside' = outside
           /\ started' \in 0..MaxCalls /\ started' + outside' <= MaxCalls
           /\ calls' \in [Calls -> CallType] /\ calls'[n] = call
           /\ \A c \in Calls \ {n} : calls'[c] = calls[c]
           /\ raced \subseteq raced' /\ raced' \subseteq Lists
           /\ \A l \in Concerns(call.op) \ raced', c \in Calls : ~Touches(c, l)
           /\ tables' = tables /\ StoreTypeOK'
  <1>1. /\ started + outside < MaxCalls /\ started' = n
        /\ calls' = [calls EXCEPT ![n] = call]
        /\ raced' = raced \cup (Concerns(call.op) \cap BeingTouched)
        /\ UNCHANGED <<store, outside>>
    BY DEF Begin
  <1>2. /\ started \in Nat /\ outside \in Nat /\ MaxCalls \in Nat
        /\ calls \in [Calls -> CallType] /\ raced \subseteq Lists
    BY ConsoleAssumption DEF TypeOK
  <1>3. n \in Calls /\ n > started
    BY <1>1, <1>2 DEF Calls
  <1>4. ~Running(n)
    BY <1>3 DEF CallsFit
  <1>5. Concerns(call.op) \subseteq Lists
    BY ConcernFacts DEF CallType
  <1>6. \A l \in Concerns(call.op), c \in Calls : Touches(c, l) => l \in BeingTouched
    BY DEF Touches, BeingTouched
  <1>7. \A l \in Concerns(call.op) \ raced', c \in Calls : ~Touches(c, l)
    BY <1>1, <1>6
  <1>8. calls' \in [Calls -> CallType] /\ calls'[n] = call
        /\ \A c \in Calls \ {n} : calls'[c] = calls[c]
    BY <1>1, <1>2, <1>3
  <1>9. tables' = tables /\ StoreTypeOK'
    BY <1>1 DEF store, TypeOK, StoreTypeOK
  <1> QED BY <1>1, <1>2, <1>3, <1>4, <1>5, <1>7, <1>8, <1>9

LEMMA ClickKeeps ==
    ASSUME ConsoleInv, NEW op \in Ops \ {"load"}, op \in Guarded => op \notin busy,
           NEW call, Sends(call, op), ItemFits(call), Click(call)
    PROVE  ConsoleInv'
  <1>0. PICK n : n = started + 1
    OBVIOUS
  <1>1. call \in CallType /\ call.op = op /\ call.stage = "sent"
        /\ call.seen = view /\ call.mount = mounts
    BY DEF Sends
  <1>2. /\ open /\ open' = open /\ mounts' = mounts /\ view' = view /\ loaded' = loaded
        /\ busy' = busy \cup ({op} \cap Spinning)
    BY <1>1 DEF Click
  <1>3. /\ n \in Calls /\ ~Running(n) /\ started' = n /\ outside' = outside
        /\ started' \in 0..MaxCalls /\ started' + outside' <= MaxCalls
        /\ calls' \in [Calls -> CallType] /\ calls'[n] = call
        /\ \A c \in Calls \ {n} : calls'[c] = calls[c]
        /\ raced \subseteq raced' /\ raced' \subseteq Lists
        /\ \A l \in Concerns(call.op) \ raced', c \in Calls : ~Touches(c, l)
        /\ tables' = tables /\ StoreTypeOK'
    BY <1>0, <1>1, BeginFacts DEF ConsoleInv, Click
  <1>4. Concerns(op) \subseteq Lists
    BY ConcernFacts
  <1>5. /\ Pending(n)' /\ Running(n)' /\ Mine(n)' /\ ~Pending(n)
        /\ \A l \in Lists : Touches(n, l)' <=> l \in Concerns(op)
    BY <1>1, <1>2, <1>3 DEF Pending, Running, Mine, Touches
  <1>6. \A c \in Calls \ {n} : /\ Pending(c)' = Pending(c) /\ Running(c)' = Running(c)
                              /\ Mine(c)' = Mine(c)
                              /\ \A l \in Lists : Touches(c, l)' = Touches(c, l)
    BY <1>2, <1>3 DEF Pending, Running, Mine, Touches
  <1>7. TypeOK'
    BY <1>1, <1>2, <1>3 DEF ConsoleInv, TypeOK
  <1>8. CallsFit'
    <2>1. mounts \in Nat /\ started \in Nat
      BY DEF ConsoleInv, TypeOK
    <2>2. \A c \in Calls : c > started' => c > started /\ c # n
      BY <1>0, <1>3, <2>1 DEF Calls
    <2>3. mounts' <= started'
      BY <1>0, <1>2, <1>3, <2>1 DEF ConsoleInv, CallsFit
    <2>4. ASSUME NEW c \in Calls
          PROVE  (c > started' => ~Running(c)') /\ calls'[c].mount <= mounts'
                 /\ ItemFits(calls'[c])
      <3>1. CASE c = n
        BY <1>0, <1>1, <1>2, <1>3, <2>1, <3>1
      <3>2. CASE c # n
        BY <1>2, <1>3, <1>6, <2>2, <3>2 DEF ConsoleInv, CallsFit
      <3> QED BY <3>1, <3>2
    <2> QED BY <1>3, <2>3, <2>4 DEF CallsFit, ItemFits
  <1>9. OneAtATime'
    <2> SUFFICES ASSUME NEW l \in Lists \ raced', NEW c \in Calls, Touches(c, l)'
                 PROVE  calls'[c].mount = mounts' /\ \A d \in Calls : Touches(d, l)' => d = c
      BY DEF OneAtATime
    <2>1. CASE c = n
      <3>1. \A d \in Calls : ~Touches(d, l)
        BY <1>1, <1>3, <1>5, <2>1
      <3>2. \A d \in Calls : Touches(d, l)' => d = n
        BY <1>6, <3>1
      <3> QED BY <1>1, <1>2, <1>3, <2>1, <3>2
    <2>2. CASE c # n
      <3>1. Touches(c, l) /\ l \in Lists \ raced
        BY <1>3, <1>6, <2>2
      <3>2. calls[c].mount = mounts /\ \A d \in Calls : Touches(d, l) => d = c
        BY <3>1 DEF ConsoleInv, OneAtATime
      <3>3. l \notin Concerns(op)
        BY <1>1, <1>3, <3>1
      <3>4. \A d \in Calls : Touches(d, l)' => d # n /\ Touches(d, l)
        BY <1>5, <1>6, <3>3
      <3> QED BY <1>2, <1>3, <2>2, <3>2, <3>4
    <2> QED BY <2>1, <2>2
  <1>10. LoadsOnce'
    BY <1>1, <1>2, <1>3, <1>5, <1>6 DEF ConsoleInv, LoadsOnce
  <1>11. AnswersAgree'
    <2> SUFFICES ASSUME NEW l \in Lists \ raced'
                 PROVE  /\ \A c \in Calls : Touches(c, l)' /\ calls'[c].stage = "served"
                                            => calls'[c].reply[l] = tables'[l]
                        /\ open' /\ loaded' =>
                            /\ (\A c \in Calls : ~Touches(c, l)') => view'[l] = tables'[l]
                            /\ \A c \in Calls : Touches(c, l)' =>
                               /\ calls'[c].seen[l] = view'[l]
                               /\ calls'[c].stage = "sent" => view'[l] = tables'[l]
                               /\ calls'[c].stage = "served" =>
                                     Patched(calls'[c], l) = tables'[l]
      BY DEF AnswersAgree, Patched
    <2>1. l \in Lists \ raced
      BY <1>3
    <2>2. CASE l \in Concerns(op)
      <3>1. \A c \in Calls : ~Touches(c, l)
        BY <1>1, <1>3, <2>2
      <3> QED BY <1>1, <1>2, <1>3, <1>5, <1>6, <2>1, <2>2, <3>1 DEF ConsoleInv, AnswersAgree
    <2>3. CASE l \notin Concerns(op)
      <3>1. \A c \in Calls : Touches(c, l)' => c # n /\ Touches(c, l) /\ calls'[c] = calls[c]
        BY <1>3, <1>5, <1>6, <2>1, <2>3
      <3>2. \A c \in Calls : Touches(c, l) => Touches(c, l)'
        BY <1>5, <1>6, <2>1 DEF Touches
      <3> QED BY <1>2, <1>3, <2>1, <3>1, <3>2 DEF ConsoleInv, AnswersAgree
    <2> QED BY <2>2, <2>3
  <1>12. OneSpins'
    <2> SUFFICES ASSUME NEW o \in Guarded
                 PROVE  /\ o \notin busy' =>
                             \A c \in Calls : ~(Running(c)' /\ Mine(c)' /\ calls'[c].op = o)
                        /\ o \in busy' => \E c \in Calls : \A d \in Calls :
                             (Running(d)' /\ Mine(d)' /\ calls'[d].op = o) <=> d = c
      BY DEF OneSpins
    <2>1. CASE o = op
      <3>1. o \in busy' /\ \A c \in Calls : ~(Running(c) /\ Mine(c) /\ calls[c].op = o)
        BY <1>2, <2>1 DEF ConsoleInv, OneSpins, Guarded, Spinning
      <3> QED BY <1>1, <1>3, <1>5, <1>6, <2>1, <3>1
    <2>2. CASE o # op
      <3>1. o \in busy' <=> o \in busy
        BY <1>2, <2>2
      <3>2. \A c \in Calls : (Running(c)' /\ Mine(c)' /\ calls'[c].op = o)
                            <=> (Running(c) /\ Mine(c) /\ calls[c].op = o)
        BY <1>1, <1>3, <1>5, <1>6, <2>2
      <3> QED BY <1>2, <3>1, <3>2 DEF ConsoleInv, OneSpins
    <2> QED BY <2>1, <2>2
  <1> QED BY <1>7, <1>8, <1>9, <1>10, <1>11, <1>12 DEF ConsoleInv

LEMMA OpenKeeps ==
    ASSUME ConsoleInv, Open
    PROVE  ConsoleInv'
  <1>0. PICK n : n = started + 1
    OBVIOUS
  <1>1. PICK call : call = [Call("load") EXCEPT !.mount = mounts + 1]
    OBVIOUS
  <1>2. /\ ~open /\ open' = TRUE /\ mounts' = mounts + 1 /\ loaded' = FALSE
        /\ view' = EmptyTables /\ busy' = {} /\ Begin(call)
    BY <1>1 DEF Open
  <1>3. /\ mounts \in Nat /\ started \in Nat /\ outside \in Nat /\ MaxCalls \in Nat
        /\ mounts <= started /\ started + outside < MaxCalls
    BY <1>2, ConsoleAssumption DEF ConsoleInv, TypeOK, CallsFit, Begin
  <1>4. mounts + 1 \in 0..MaxCalls
    BY <1>3
  <1>5. /\ call \in CallType /\ call.op = "load" /\ call.stage = "sent"
        /\ call.mount = mounts + 1 /\ ItemFits(call)
    <2>1. PICK sent \in CallType : /\ sent = Call("load") /\ sent.op = "load"
                                  /\ sent.stage = "sent"
      BY CallFacts DEF ConsoleInv, Sends, Ops
    <2>2. call = [sent EXCEPT !.mount = mounts + 1]
      BY <1>1, <2>1
    <2> QED BY <1>4, <2>1, <2>2 DEF CallType, ItemFits
  <1>6. /\ n \in Calls /\ ~Running(n) /\ started' = n /\ outside' = outside
        /\ started' \in 0..MaxCalls /\ started' + outside' <= MaxCalls
        /\ calls' \in [Calls -> CallType] /\ calls'[n] = call
        /\ \A c \in Calls \ {n} : calls'[c] = calls[c]
        /\ raced \subseteq raced' /\ raced' \subseteq Lists
        /\ \A l \in Concerns(call.op) \ raced', c \in Calls : ~Touches(c, l)
        /\ tables' = tables /\ StoreTypeOK'
    BY <1>0, <1>2, <1>5, BeginFacts DEF ConsoleInv
  <1>7. \A l \in Lists \ raced', c \in Calls : ~Touches(c, l)
    BY <1>5, <1>6, ConcernFacts
  <1>8. \A c \in Calls \ {n} : /\ Pending(c)' = Pending(c) /\ Running(c)' = Running(c)
                              /\ \A l \in Lists : Touches(c, l)' = Touches(c, l)
    BY <1>6 DEF Pending, Running, Touches
  <1>9. \A c \in Calls \ {n} : calls'[c].mount # mounts' /\ calls'[c].mount <= mounts'
    <2> SUFFICES ASSUME NEW c \in Calls \ {n}
                 PROVE  calls'[c].mount # mounts' /\ calls'[c].mount <= mounts'
      OBVIOUS
    <2>1. calls[c].mount \in Nat /\ calls[c].mount <= mounts
      BY DEF ConsoleInv, TypeOK, CallsFit, CallType
    <2> QED BY <1>2, <1>3, <1>6, <2>1
  <1>10. TypeOK'
    BY <1>2, <1>4, <1>6, EmptyFacts DEF ConsoleInv, TypeOK, Spinning
  <1>11. CallsFit'
    <2>1. mounts' <= started'
      BY <1>0, <1>2, <1>3, <1>6
    <2>2. ASSUME NEW c \in Calls
          PROVE  (c > started' => ~Running(c)') /\ calls'[c].mount <= mounts'
                 /\ ItemFits(calls'[c])
      <3>1. CASE c = n
        BY <1>0, <1>2, <1>3, <1>5, <1>6, <3>1
      <3>2. CASE c # n
        <4>1. c > started' => c > started
          BY <1>0, <1>3, <1>6 DEF Calls
        <4> QED BY <1>6, <1>8, <1>9, <3>2, <4>1 DEF ConsoleInv, CallsFit
      <3> QED BY <3>1, <3>2
    <2> QED BY <1>6, <2>1, <2>2 DEF CallsFit, ItemFits
  <1>12. OneAtATime'
    BY <1>2, <1>5, <1>6, <1>7, <1>8 DEF OneAtATime
  <1>13. LoadsOnce'
    BY <1>2, <1>9 DEF LoadsOnce
  <1>14. AnswersAgree'
    <2>1. \A l \in Lists \ raced', c \in Calls : Touches(c, l)' => c = n
      BY <1>7, <1>8
    <2> QED BY <1>2, <1>5, <1>6, <2>1 DEF AnswersAgree
  <1>15. OneSpins'
    BY <1>2, <1>5, <1>6, <1>9 DEF OneSpins, Mine, Guarded
  <1> QED BY <1>10, <1>11, <1>12, <1>13, <1>14, <1>15 DEF ConsoleInv

\* The server changes one row of the list that a call concerns, the one the
\* call names.
LEMMA HandleFacts ==
    ASSUME TypeOK, NEW call \in CallType, NEW item, ItemFits(call),
           IF call.op = "createKey" THEN item \in KeyIds ELSE item = call.item,
           Handle(call, item)
    PROVE  /\ Recorded /\ \A l \in Lists \ Concerns(call.op) : tables'[l] = tables[l]
           /\ call.op = "load" => tables' = tables
           /\ call.op # "load" => \A l \in Concerns(call.op) :
                [tables[l] EXCEPT ![item] = tables'[l][item]] = tables'[l]
  <1>1. call.op \in Ops /\ call.data \in Payloads /\ call.text \in RegoTexts
        /\ call.request \in OpaEvaluationRequest
    BY DEF CallType
  <1>2. StoreTypeOK /\ tables \in Tables
    BY DEF TypeOK, StoreTypeOK
  <1>3. CASE call.op = "rotateSvid"
    <2>1. item \in Workloads /\ RotateWorkloadSvid(item)
      BY <1>3 DEF ItemFits, Handle
    <2>2. PICK v : tables'.svids = [tables.svids EXCEPT ![item] = v]
      BY <1>2, <2>1, SvidRotated
    <2>3. tables.svids \in [Workloads -> SpiffeSvid]
      BY <1>2 DEF Tables
    <2>4. [tables.svids EXCEPT ![item] = tables'.svids[item]] = tables'.svids
      BY <2>1, <2>2, <2>3
    <2> QED BY <1>2, <1>3, <2>1, <2>4, SvidRotated, ConcernFacts DEF OnlyChanges
  <1>4. CASE call.op \in {"rotateSecret", "addSecret"}
    <2>1. item \in Paths /\ RotateVaultSecret(item, call.data)
      BY <1>4 DEF ItemFits, Handle
    <2>2. PICK v : tables'.secrets = [tables.secrets EXCEPT ![item] = v]
      BY <1>1, <1>2, <2>1, SecretRotated
    <2>3. tables.secrets \in [Paths -> VaultSecret]
      BY <1>2 DEF Tables
    <2>4. [tables.secrets EXCEPT ![item] = tables'.secrets[item]] = tables'.secrets
      BY <2>1, <2>2, <2>3
    <2> QED BY <1>1, <1>2, <1>4, <2>1, <2>4, SecretRotated, ConcernFacts DEF OnlyChanges
  <1>5. CASE call.op = "saveOpa"
    <2>1. item \in Policies /\ SaveOpaPolicy(item, call.text)
      BY <1>5 DEF ItemFits, Handle
    <2>2. PICK v : tables'.opaPolicies = [tables.opaPolicies EXCEPT ![item] = v]
      BY <1>1, <1>2, <2>1, PolicySaved
    <2>3. tables.opaPolicies \in [Policies -> RegoTexts]
      BY <1>2 DEF Tables
    <2>4. [tables.opaPolicies EXCEPT ![item] = tables'.opaPolicies[item]]
            = tables'.opaPolicies
      BY <2>1, <2>2, <2>3
    <2> QED BY <1>1, <1>2, <1>5, <2>1, <2>4, PolicySaved, ConcernFacts DEF OnlyChanges
  <1>6. CASE call.op \in {"createKey", "revokeKey"}
    <2>1. item \in KeyIds /\ (CreateApiKey(item) \/ RevokeApiKey(item))
      BY <1>6 DEF ItemFits, Handle
    <2>2. PICK v : tables'.apiKeys = [tables.apiKeys EXCEPT ![item] = v]
      BY <1>2, <2>1, KeyChanged
    <2>3. tables.apiKeys \in [KeyIds -> ApiKeyStatus]
      BY <1>2 DEF Tables
    <2>4. [tables.apiKeys EXCEPT ![item] = tables'.apiKeys[item]] = tables'.apiKeys
      BY <2>1, <2>2, <2>3
    <2> QED BY <1>2, <1>6, <2>1, <2>4, KeyChanged, ConcernFacts DEF OnlyChanges
  <1>7. CASE call.op \in {"load", "issueJwt", "evaluate", "simulate"}
    <2>1. \/ GenerateKeycloakJwt \/ Refuse
          \/ \E r \in OpaEvaluationRequest : EvaluateOpaPolicy(r)
          \/ \E client \in ClientIds : TriggerRateLimitHit(client)
      BY <1>1, <1>7, SecurityAssumption DEF Handle
    <2>2. StoreTypeOK' /\ tables' = tables
      BY <1>2, <2>1, TablesKept
    <2> QED BY <1>7, <2>2, ConcernFacts DEF Recorded
  <1> QED BY <1>1, <1>3, <1>4, <1>5, <1>6, <1>7 DEF Ops

\* A step of one call that neither begins nor drops one.
LEMMA StagesKeep ==
    ASSUME ConsoleInv, NEW c \in Calls, Running(c), NEW next \in CallType,
           calls' = [calls EXCEPT ![c] = next], next.mount <= mounts, ItemFits(next),
           UNCHANGED <<mounts, started, outside>>
    PROVE  /\ CallsFit' /\ calls' \in [Calls -> CallType] /\ calls'[c] = next
           /\ \A d \in Calls \ {c} :
                /\ calls'[d] = calls[d]
                /\ Pending(d)' = Pending(d) /\ Running(d)' = Running(d)
                /\ \A l : Touches(d, l)' = Touches(d, l)
  <1>1. calls \in [Calls -> CallType]
    BY DEF ConsoleInv, TypeOK
  <1>2. calls' \in [Calls -> CallType] /\ calls'[c] = next
        /\ \A d \in Calls \ {c} : calls'[d] = calls[d]
    BY <1>1
  <1>3. \A d \in Calls \ {c} :
          /\ Pending(d)' = Pending(d) /\ Running(d)' = Running(d)
          /\ \A l : Touches(d, l)' = Touches(d, l)
    BY <1>2 DEF Pending, Running, Touches
  <1>4. ASSUME NEW d \in Calls
        PROVE  (d > started' => ~Running(d)') /\ calls'[d].mount <= mounts'
               /\ ItemFits(calls'[d])
    <2>1. CASE d = c
      BY <1>2, <2>1 DEF ConsoleInv, CallsFit
    <2>2. CASE d # c
      BY <1>2, <1>3, <2>2 DEF ConsoleInv, CallsFit
    <2> QED BY <2>1, <2>2
  <1>5. CallsFit'
    BY <1>4 DEF CallsFit, ConsoleInv, ItemFits
  <1> QED BY <1>2, <1>3, <1>5

LEMMA ServeKeeps ==
    ASSUME ConsoleInv, NEW c \in Calls, Serve(c)
    PROVE  ConsoleInv' /\ Recorded
  <1>1. PICK call \in CallType : call = calls[c]
    BY DEF ConsoleInv, TypeOK
  <1>2. PICK item \in IF call.op = "createKey" THEN KeyIds \cap {FreshKey} ELSE {call.item} :
          /\ Handle(call, item)
          /\ calls' = [calls EXCEPT ![c] =
               [call EXCEPT !.stage = "served", !.item = item, !.reply = tables']]
    BY <1>1 DEF Serve
  <1>3. /\ call.stage = "sent" /\ UNCHANGED <<started, outside, raced>>
        /\ UNCHANGED <<open, mounts, view, loaded, busy>> /\ Running(c) /\ Pending(c)
    BY <1>1 DEF Serve, console, Running, Pending
  <1>4. ItemFits(call) /\ call.mount <= mounts
    BY <1>1 DEF ConsoleInv, CallsFit
  <1>5. /\ Recorded /\ \A l \in Lists \ Concerns(call.op) : tables'[l] = tables[l]
        /\ call.op = "load" => tables' = tables
        /\ call.op # "load" => \A l \in Concerns(call.op) :
             [tables[l] EXCEPT ![item] = tables'[l][item]] = tables'[l]
    BY <1>2, <1>4, HandleFacts DEF ConsoleInv
  <1>6. StoreTypeOK' /\ tables' \in Tables
    BY <1>5 DEF Recorded, StoreTypeOK
  <1>7. PICK next : next = [call EXCEPT !.stage = "served", !.item = item, !.reply = tables']
    OBVIOUS
  <1>8. item \in Items
    BY <1>2 DEF CallType, Items
  <1>9. /\ next \in CallType /\ next.op = call.op /\ next.stage = "served"
        /\ next.mount = call.mount /\ next.item = item /\ next.seen = call.seen
        /\ next.reply = tables'
    BY <1>6, <1>7, <1>8 DEF CallType, Stages
  <1>10. ItemFits(next)
    BY <1>2, <1>4, <1>9 DEF ItemFits
  <1>11. calls' = [calls EXCEPT ![c] = next]
    BY <1>2, <1>7
  <1>12. /\ CallsFit' /\ calls' \in [Calls -> CallType] /\ calls'[c] = next
         /\ \A d \in Calls \ {c} :
              /\ calls'[d] = calls[d]
              /\ Pending(d)' = Pending(d) /\ Running(d)' = Running(d)
              /\ \A l : Touches(d, l)' = Touches(d, l)
    BY <1>3, <1>4, <1>9, <1>10, <1>11, StagesKeep
  <1>13. /\ Pending(c)' = Pending(c) /\ Running(c)' = Running(c)
         /\ \A l : Touches(c, l)' = Touches(c, l) /\ Touches(c, l) = (l \in Concerns(call.op))
    BY <1>1, <1>3, <1>9, <1>12 DEF Pending, Running, Touches
  <1>14. \A d \in Calls : /\ calls'[d].op = calls[d].op /\ calls'[d].mount = calls[d].mount
                         /\ Pending(d)' = Pending(d) /\ Running(d)' = Running(d)
                         /\ Mine(d)' = Mine(d)
                         /\ \A l : Touches(d, l)' = Touches(d, l)
    BY <1>1, <1>3, <1>9, <1>12, <1>13 DEF Mine
  <1>15. TypeOK'
    BY <1>3, <1>6, <1>12 DEF ConsoleInv, TypeOK
  <1>16. OneAtATime'
    BY <1>3, <1>14 DEF ConsoleInv, OneAtATime
  <1>17. LoadsOnce'
    BY <1>3, <1>14 DEF ConsoleInv, LoadsOnce
  <1>18. OneSpins'
    BY <1>3, <1>14 DEF ConsoleInv, OneSpins
  <1>19. AnswersAgree'
    <2> SUFFICES ASSUME NEW l \in Lists \ raced
                 PROVE  /\ \A d \in Calls : Touches(d, l) /\ calls'[d].stage = "served"
                                            => calls'[d].reply[l] = tables'[l]
                        /\ open /\ loaded =>
                            /\ (\A d \in Calls : ~Touches(d, l)) => view[l] = tables'[l]
                            /\ \A d \in Calls : Touches(d, l) =>
                               /\ calls'[d].seen[l] = view[l]
                               /\ calls'[d].stage = "sent" => view[l] = tables'[l]
                               /\ calls'[d].stage = "served" =>
                                     Patched(calls'[d], l) = tables'[l]
      BY <1>3, <1>14 DEF AnswersAgree, Patched
    <2>1. CASE l \notin Concerns(call.op)
      <3>1. tables'[l] = tables[l] /\ ~Touches(c, l)
        BY <1>5, <1>13, <2>1
      <3> QED BY <1>12, <3>1 DEF ConsoleInv, AnswersAgree
    <2>2. CASE l \in Concerns(call.op)
      <3>1. \A d \in Calls : Touches(d, l) <=> d = c
        BY <1>13, <2>2 DEF ConsoleInv, OneAtATime
      <3>2. calls[c].mount = mounts
        BY <1>13, <2>2 DEF ConsoleInv, OneAtATime
      <3>3. loaded => call.op # "load"
        BY <1>1, <1>3, <3>2 DEF ConsoleInv, LoadsOnce
      <3>4. open /\ loaded => call.seen[l] = view[l] /\ view[l] = tables[l]
        BY <1>1, <1>3, <3>1 DEF ConsoleInv, AnswersAgree
      <3>5. Patched(next, l) = [call.seen[l] EXCEPT ![item] = tables'[l][item]]
        BY <1>9 DEF Patched
      <3>6. open /\ loaded => Patched(next, l) = tables'[l]
        BY <1>5, <2>2, <3>3, <3>4, <3>5
      <3> QED BY <1>9, <1>12, <3>1, <3>4, <3>6
    <2> QED BY <2>1, <2>2
  <1> QED BY <1>5, <1>12, <1>15, <1>16, <1>17, <1>18, <1>19 DEF ConsoleInv

\* An answer changes the list of its call and no other; of a list seen as it
\* is shown it makes what Patched says.
LEMMA MergedFacts ==
    ASSUME NEW call \in CallType, ItemFits(call), call.stage = "served", view \in Tables
    PROVE  /\ Merged(call) \in Tables
           /\ call.op = "load" => Merged(call) = call.reply
           /\ \A l \in Lists \ Concerns(call.op) : Merged(call)[l] = view[l]
           /\ call.op # "load" => \A l \in Concerns(call.op) :
                call.seen[l] = view[l] => Merged(call)[l] = Patched(call, l)
  <1>1. call.op \in Ops /\ call.seen \in Tables /\ call.reply \in Tables
    BY DEF CallType
  <1>2. CASE call.op = "load"
    BY <1>1, <1>2, ConcernFacts DEF Merged
  <1>3. CASE call.op = "rotateSvid"
    <2>1. PICK row \in SpiffeSvid : row = call.reply.svids[call.item]
      BY <1>1, <1>3 DEF ItemFits, Tables
    <2>2. PICK list \in [Workloads -> SpiffeSvid] :
            list = [call.seen.svids EXCEPT ![call.item] = row]
      BY <1>1 DEF Tables
    <2>3. Merged(call) = [view EXCEPT !.svids = list]
      BY <1>3, <2>1, <2>2 DEF Merged
    <2>4. Patched(call, "svids") = list
      BY <2>1, <2>2 DEF Patched
    <2> QED BY <1>3, <2>3, <2>4, ConcernFacts DEF Tables, Lists
  <1>4. CASE call.op \in {"rotateSecret", "addSecret"}
    <2>1. PICK row \in VaultSecret : row = call.reply.secrets[call.item]
      BY <1>1, <1>4 DEF ItemFits, Tables
    <2>2. PICK base \in [Paths -> VaultSecret] :
            base = IF call.op = "addSecret" THEN view.secrets ELSE call.seen.secrets
      BY <1>1 DEF Tables
    <2>3. PICK list \in [Paths -> VaultSecret] : list = [base EXCEPT ![call.item] = row]
      OBVIOUS
    <2>4. Merged(call) = [view EXCEPT !.secrets = list]
      BY <1>4, <2>1, <2>2, <2>3 DEF Merged
    <2>5. call.seen.secrets = view.secrets => Patched(call, "secrets") = list
      BY <2>1, <2>2, <2>3 DEF Patched
    <2> QED BY <1>4, <2>4, <2>5, ConcernFacts DEF Tables, Lists
  <1>5. CASE call.op = "saveOpa"
    <2>1. PICK row \in RegoTexts : row = call.reply.opaPolicies[call.item]
      BY <1>1, <1>5 DEF ItemFits, Tables
    <2>2. PICK list \in [Policies -> RegoTexts] :
            list = [call.seen.opaPolicies EXCEPT ![call.item] = row]
      BY <1>1 DEF Tables
    <2>3. Merged(call) = [view EXCEPT !.opaPolicies = list]
      BY <1>5, <2>1, <2>2 DEF Merged
    <2>4. Patched(call, "opaPolicies") = list
      BY <2>1, <2>2 DEF Patched
    <2> QED BY <1>5, <2>3, <2>4, ConcernFacts DEF Tables, Lists
  <1>6. CASE call.op \in {"createKey", "revokeKey"}
    <2>1. PICK row \in ApiKeyStatus : row = call.reply.apiKeys[call.item]
      BY <1>1, <1>6 DEF ItemFits, Tables
    <2>2. PICK base \in [KeyIds -> ApiKeyStatus] :
            base = IF call.op = "createKey" THEN view.apiKeys ELSE call.seen.apiKeys
      BY <1>1 DEF Tables
    <2>3. PICK list \in [KeyIds -> ApiKeyStatus] : list = [base EXCEPT ![call.item] = row]
      OBVIOUS
    <2>4. Merged(call) = [view EXCEPT !.apiKeys = list]
      BY <1>6, <2>1, <2>2, <2>3 DEF Merged
    <2>5. call.seen.apiKeys = view.apiKeys => Patched(call, "apiKeys") = list
      BY <2>1, <2>2, <2>3 DEF Patched
    <2> QED BY <1>6, <2>4, <2>5, ConcernFacts DEF Tables, Lists
  <1>7. CASE call.op \in {"issueJwt", "evaluate", "simulate"}
    BY <1>7, ConcernFacts DEF Merged
  <1> QED BY <1>1, <1>2, <1>3, <1>4, <1>5, <1>6, <1>7 DEF Ops

\* After its answer a call reads the logs; the load asks for a token instead.
LEMMA ContinueFacts ==
    ASSUME ConsoleInv, NEW c \in Calls, calls[c].stage = "served", Continue(c)
    PROVE  \E next \in CallType :
             /\ calls' = [calls EXCEPT ![c] = next]
             /\ next.mount = calls[c].mount /\ ItemFits(next)
             /\ IF calls[c].op = "load"
                THEN next.op = "issueJwt" /\ next.stage = "sent"
                       /\ busy' \in {busy, busy \cup {"issueJwt"}}
                ELSE next.op = calls[c].op /\ next.stage = "reading" /\ busy' = busy
  <1>1. PICK call \in CallType : call = calls[c]
    BY DEF ConsoleInv, TypeOK
  <1>2. ItemFits(call) /\ calls \in [Calls -> CallType]
    BY <1>1 DEF ConsoleInv, CallsFit, TypeOK
  <1>3. CASE call.op = "load"
    <2>1. PICK sent \in CallType : sent = Call("issueJwt") /\ sent.op = "issueJwt"
                                  /\ sent.stage = "sent"
      BY CallFacts DEF ConsoleInv, Sends, Ops
    <2>2. PICK next : next = [sent EXCEPT !.item = FirstUser, !.mount = call.mount]
      OBVIOUS
    <2>3. FirstUser \in Items /\ call.mount \in 0..MaxCalls
      BY ConsoleAssumption DEF Items, CallType
    <2>4. /\ next \in CallType /\ next.op = "issueJwt" /\ next.stage = "sent"
          /\ next.mount = call.mount
      BY <2>1, <2>2, <2>3 DEF CallType
    <2>5. /\ calls' = [calls EXCEPT ![c] = next]
          /\ busy' \in {busy, busy \cup {"issueJwt"}}
      BY <1>1, <1>3, <2>1, <2>2 DEF Continue
    <2>6. ItemFits(next)
      BY <2>4 DEF ItemFits
    <2> QED BY <1>1, <1>3, <2>4, <2>5, <2>6
  <1>4. CASE call.op # "load"
    <2>1. PICK next : next = [call EXCEPT !.stage = "reading"]
      OBVIOUS
    <2>2. /\ next \in CallType /\ next.op = call.op /\ next.stage = "reading"
          /\ next.mount = call.mount /\ next.item = call.item
      BY <2>1 DEF CallType, Stages
    <2>3. calls' = [calls EXCEPT ![c] = next] /\ busy' = busy
      BY <1>1, <1>2, <1>4, <2>1 DEF Continue
    <2>4. ItemFits(next)
      BY <1>1, <1>2, <2>2 DEF ItemFits
    <2> QED BY <1>1, <1>4, <2>2, <2>3, <2>4
  <1> QED BY <1>3, <1>4

LEMMA UseKeeps ==
    ASSUME ConsoleInv, NEW c \in Calls, Use(c)
    PROVE  ConsoleInv' /\ UNCHANGED store
  <1>1. PICK call \in CallType : call = calls[c]
    BY DEF ConsoleInv, TypeOK
  <1>2. /\ call.stage = "served" /\ Running(c) /\ Pending(c)
        /\ view' = IF Mine(c) THEN Merged(call) ELSE view
        /\ loaded' = (loaded \/ (Mine(c) /\ call.op = "load"))
        /\ UNCHANGED <<store, open, mounts, started, outside, raced>>
    BY <1>1 DEF Use, Running, Pending
  <1>3. PICK next \in CallType :
          /\ calls' = [calls EXCEPT ![c] = next]
          /\ next.mount = call.mount /\ ItemFits(next)
          /\ IF call.op = "load"
             THEN next.op = "issueJwt" /\ next.stage = "sent"
                    /\ busy' \in {busy, busy \cup {"issueJwt"}}
             ELSE next.op = call.op /\ next.stage = "reading" /\ busy' = busy
    BY <1>1, <1>2, ContinueFacts DEF Use
  <1>4. ItemFits(call) /\ call.mount <= mounts /\ view \in Tables
    BY <1>1 DEF ConsoleInv, CallsFit, TypeOK
  <1>5. /\ CallsFit' /\ calls' \in [Calls -> CallType] /\ calls'[c] = next
        /\ \A d \in Calls \ {c} :
             /\ calls'[d] = calls[d]
             /\ Pending(d)' = Pending(d) /\ Running(d)' = Running(d)
             /\ \A l : Touches(d, l)' = Touches(d, l)
    BY <1>2, <1>3, <1>4, StagesKeep
  <1>6. Running(c)' /\ \A l : ~Touches(c, l)' /\ (Touches(c, l) <=> l \in Concerns(call.op))
    BY <1>1, <1>2, <1>3, <1>5, ConcernFacts DEF Running, Touches, Pending
  <1>7. /\ Merged(call) \in Tables
        /\ call.op = "load" => Merged(call) = call.reply
        /\ \A l \in Lists \ Concerns(call.op) : Merged(call)[l] = view[l]
        /\ call.op # "load" => \A l \in Concerns(call.op) :
             call.seen[l] = view[l] => Merged(call)[l] = Patched(call, l)
    BY <1>2, <1>4, MergedFacts
  <1>8. tables' = tables /\ StoreTypeOK'
    BY <1>2 DEF store, ConsoleInv, TypeOK, StoreTypeOK
  <1>9. TypeOK'
    <2>1. busy' \subseteq Spinning
      BY <1>3 DEF ConsoleInv, TypeOK, Spinning
    <2>2. view' \in Tables /\ loaded' \in BOOLEAN
      BY <1>2, <1>4, <1>7
    <2> QED BY <1>2, <1>5, <1>8, <2>1, <2>2 DEF ConsoleInv, TypeOK
  <1>10. OneAtATime'
    <2> SUFFICES ASSUME NEW l \in Lists \ raced, NEW d \in Calls, Touches(d, l)'
                 PROVE  calls'[d].mount = mounts /\ \A e \in Calls : Touches(e, l)' => e = d
      BY <1>2 DEF OneAtATime
    <2> QED BY <1>5, <1>6 DEF ConsoleInv, OneAtATime
  <1>11. LoadsOnce'
    <2> SUFFICES ASSUME NEW d \in Calls, Pending(d)', calls'[d].op = "load",
                        calls'[d].mount = mounts
                 PROVE  /\ ~loaded'
                        /\ \A e \in Calls : Pending(e)' /\ calls'[e].op = "load"
                                           /\ calls'[e].mount = mounts => e = d
      BY <1>2 DEF LoadsOnce
    <2>1. d # c /\ Pending(d) /\ calls[d].op = "load" /\ calls[d].mount = mounts
      <3>1. CASE d = c
        BY <1>2, <1>3, <1>5, <1>6, <3>1 DEF Pending
      <3> QED BY <1>5, <3>1
    <2>2. ~loaded /\ \A e \in Calls : Pending(e) /\ calls[e].op = "load"
                                     /\ calls[e].mount = mounts => e = d
      BY <2>1 DEF ConsoleInv, LoadsOnce
    <2>3. ~loaded'
      BY <1>1, <1>2, <2>1, <2>2 DEF Mine
    <2>4. ASSUME NEW e \in Calls, Pending(e)', calls'[e].op = "load", calls'[e].mount = mounts
          PROVE  e = d
      <3>1. CASE e = c
        BY <1>1, <1>2, <1>3, <1>5, <2>4, <3>1 DEF Pending
      <3> QED BY <1>5, <2>2, <2>4, <3>1
    <2> QED BY <2>3, <2>4
  <1>12. AnswersAgree'
    <2> SUFFICES ASSUME NEW l \in Lists \ raced
                 PROVE  /\ \A d \in Calls : Touches(d, l)' /\ calls'[d].stage = "served"
                                            => calls'[d].reply[l] = tables[l]
                        /\ open /\ loaded' =>
                            /\ (\A d \in Calls : ~Touches(d, l)') => view'[l] = tables[l]
                            /\ \A d \in Calls : Touches(d, l)' =>
                               /\ calls'[d].seen[l] = view'[l]
                               /\ calls'[d].stage = "sent" => view'[l] = tables[l]
                               /\ calls'[d].stage = "served" =>
                                     Patched(calls'[d], l) = tables[l]
      BY <1>2, <1>8 DEF AnswersAgree, Patched
    <2>1. CASE l \in Concerns(call.op)
      <3>1. \A d \in Calls : ~Touches(d, l)'
        BY <1>5, <1>6, <2>1 DEF ConsoleInv, OneAtATime
      <3>2. call.mount = mounts /\ call.reply[l] = tables[l]
        BY <1>1, <1>2, <1>6, <2>1 DEF ConsoleInv, OneAtATime, AnswersAgree
      <3>3. ASSUME open, loaded'
            PROVE  view'[l] = tables[l]
        <4>1. Mine(c) /\ view' = Merged(call)
          BY <1>1, <1>2, <3>2, <3>3 DEF Mine
        <4>2. CASE call.op = "load"
          BY <1>7, <3>2, <4>1, <4>2
        <4>3. CASE call.op # "load"
          <5>1. loaded /\ Touches(c, l)
            BY <1>2, <1>6, <2>1, <3>3, <4>3
          <5>2. call.seen[l] = view[l] /\ Patched(call, l) = tables[l]
            BY <1>1, <1>2, <3>3, <5>1 DEF ConsoleInv, AnswersAgree
          <5> QED BY <1>7, <2>1, <4>1, <4>3, <5>2
        <4> QED BY <4>2, <4>3
      <3> QED BY <3>1, <3>3
    <2>2. CASE l \notin Concerns(call.op)
      <3>1. call.op # "load" /\ (loaded' <=> loaded)
        BY <1>2, <2>2, ConcernFacts
      <3>2. view'[l] = view[l]
        BY <1>2, <1>7, <2>2
      <3>3. ~Touches(c, l) /\ ~Touches(c, l)'
        BY <1>6, <2>2
      <3>4. ASSUME NEW d \in Calls, Touches(d, l)'
            PROVE  /\ calls'[d].stage = "served" => calls'[d].reply[l] = tables[l]
                   /\ open /\ loaded =>
                        /\ calls'[d].seen[l] = view[l]
                        /\ calls'[d].stage = "sent" => view[l] = tables[l]
                        /\ calls'[d].stage = "served" => Patched(calls'[d], l) = tables[l]
        <4>1. Touches(d, l) /\ calls'[d] = calls[d]
          BY <1>5, <3>3, <3>4
        <4> QED BY <4>1 DEF ConsoleInv, AnswersAgree
      <3>5. open /\ loaded /\ (\A d \in Calls : ~Touches(d, l)') => view[l] = tables[l]
        <4>1. (\A d \in Calls : ~Touches(d, l)') => \A d \in Calls : ~Touches(d, l)
          BY <1>5, <3>3
        <4> QED BY <4>1 DEF ConsoleInv, AnswersAgree
      <3> QED BY <3>1, <3>2, <3>4, <3>5
    <2> QED BY <2>1, <2>2
  <1>13. OneSpins'
    <2> SUFFICES ASSUME open, NEW o \in Guarded
                 PROVE  /\ o \notin busy' =>
                             \A d \in Calls : ~(Running(d)' /\ Mine(d)' /\ calls'[d].op = o)
                        /\ o \in busy' => \E e \in Calls : \A d \in Calls :
                             (Running(d)' /\ Mine(d)' /\ calls'[d].op = o) <=> d = e
      BY <1>2 DEF OneSpins
    <2>1. (o \in busy') <=> (o \in busy)
      BY <1>3 DEF Guarded
    <2>2. \A d \in Calls : (Running(d)' /\ Mine(d)' /\ calls'[d].op = o)
                          <=> (Running(d) /\ Mine(d) /\ calls[d].op = o)
      <3>1. (Running(c)' /\ Mine(c)' /\ calls'[c].op = o)
              <=> (Running(c) /\ Mine(c) /\ calls[c].op = o)
        BY <1>1, <1>2, <1>3, <1>5, <1>6 DEF Mine, Guarded
      <3> QED BY <1>2, <1>5, <3>1 DEF Mine
    <2> QED BY <2>1, <2>2 DEF ConsoleInv, OneSpins
  <1> QED BY <1>2, <1>5, <1>9, <1>10, <1>11, <1>12, <1>13 DEF ConsoleInv

\* A call that ends, in its last line or in its catch block.
LEMMA EndKeeps ==
    ASSUME ConsoleInv, NEW c \in Calls, Finish(c) \/ Fail(c)
    PROVE  ConsoleInv' /\ UNCHANGED store
  <1>1. PICK call \in CallType : call = calls[c]
    BY DEF ConsoleInv, TypeOK
  <1>2. /\ Running(c) /\ calls' = [calls EXCEPT ![c] = Ended]
        /\ busy' = IF Mine(c) THEN busy \ {call.op} ELSE busy
        /\ UNCHANGED <<store, open, mounts, view, loaded, started, outside>>
    BY <1>1 DEF Finish, Fail, End, Running
  <1>3. /\ raced \subseteq raced' /\ raced' \subseteq Lists
        /\ call.stage = "served" => Concerns(call.op) \subseteq raced'
    BY <1>1, ConcernFacts DEF Finish, Fail, ConsoleInv, TypeOK, CallType
  <1>4. Ended \in CallType /\ Ended.mount <= mounts /\ ItemFits(Ended)
    BY EmptyFacts DEF ConsoleInv, TypeOK, ItemFits
  <1>5. /\ CallsFit' /\ calls' \in [Calls -> CallType] /\ calls'[c] = Ended
        /\ \A d \in Calls \ {c} :
             /\ calls'[d] = calls[d]
             /\ Pending(d)' = Pending(d) /\ Running(d)' = Running(d)
             /\ \A l : Touches(d, l)' = Touches(d, l)
    BY <1>2, <1>4, StagesKeep
  <1>6. ~Running(c)' /\ ~Pending(c)' /\ \A l : ~Touches(c, l)'
    BY <1>5, EmptyFacts DEF Running, Touches, Pending
  <1>7. tables' = tables /\ StoreTypeOK'
    BY <1>2 DEF store, ConsoleInv, TypeOK, StoreTypeOK
  <1>8. TypeOK'
    BY <1>2, <1>3, <1>5, <1>7 DEF ConsoleInv, TypeOK
  <1>9. OneAtATime'
    <2> SUFFICES ASSUME NEW l \in Lists \ raced', NEW d \in Calls, Touches(d, l)'
                 PROVE  calls'[d].mount = mounts /\ \A e \in Calls : Touches(e, l)' => e = d
      BY <1>2 DEF OneAtATime
    <2> QED BY <1>3, <1>5, <1>6 DEF ConsoleInv, OneAtATime
  <1>10. LoadsOnce'
    <2> SUFFICES ASSUME NEW d \in Calls, Pending(d)', calls'[d].op = "load",
                        calls'[d].mount = mounts
                 PROVE  /\ ~loaded
                        /\ \A e \in Calls : Pending(e)' /\ calls'[e].op = "load"
                                           /\ calls'[e].mount = mounts => e = d
      BY <1>2 DEF LoadsOnce
    <2> QED BY <1>5, <1>6 DEF ConsoleInv, LoadsOnce
  <1>11. AnswersAgree'
    <2> SUFFICES ASSUME NEW l \in Lists \ raced'
                 PROVE  /\ \A d \in Calls : Touches(d, l)' /\ calls'[d].stage = "served"
                                            => calls'[d].reply[l] = tables[l]
                        /\ open /\ loaded =>
                            /\ (\A d \in Calls : ~Touches(d, l)') => view[l] = tables[l]
                            /\ \A d \in Calls : Touches(d, l)' =>
                               /\ calls'[d].seen[l] = view[l]
                               /\ calls'[d].stage = "sent" => view[l] = tables[l]
                               /\ calls'[d].stage = "served" =>
                                     Patched(calls'[d], l) = tables[l]
      BY <1>2, <1>7 DEF AnswersAgree, Patched
    <2>1. l \in Lists \ raced
      BY <1>3
    <2>2. \A d \in Calls : Touches(d, l)' => Touches(d, l) /\ calls'[d] = calls[d]
      BY <1>5, <1>6
    <2>3. ASSUME open, loaded, \A d \in Calls : ~Touches(d, l)'
          PROVE  view[l] = tables[l]
      <3>1. CASE Touches(c, l)
        <4>1. calls[c].stage = "sent"
          BY <1>1, <1>3, <3>1 DEF Touches, Pending
        <4> QED BY <2>1, <2>3, <3>1, <4>1 DEF ConsoleInv, AnswersAgree
      <3>2. CASE ~Touches(c, l)
        <4>1. \A d \in Calls : ~Touches(d, l)
          BY <1>5, <2>3, <3>2
        <4> QED BY <2>1, <2>3, <4>1 DEF ConsoleInv, AnswersAgree
      <3> QED BY <3>1, <3>2
    <2> QED BY <2>1, <2>2, <2>3 DEF ConsoleInv, AnswersAgree
  <1>12. OneSpins'
    <2> SUFFICES ASSUME open, NEW o \in Guarded
                 PROVE  /\ o \notin busy' =>
                             \A d \in Calls : ~(Running(d)' /\ Mine(d)' /\ calls'[d].op = o)
                        /\ o \in busy' => \E e \in Calls : \A d \in Calls :
                             (Running(d)' /\ Mine(d)' /\ calls'[d].op = o) <=> d = e
      BY <1>2 DEF OneSpins
    <2>1. \A d \in Calls \ {c} : (Running(d)' /\ Mine(d)' /\ calls'[d].op = o)
                                <=> (Running(d) /\ Mine(d) /\ calls[d].op = o)
      BY <1>2, <1>5 DEF Mine
    <2>2. CASE Mine(c) /\ call.op = o
      <3>1. o \notin busy'
        BY <1>2, <2>2
      <3>2. \A d \in Calls : (Running(d) /\ Mine(d) /\ calls[d].op = o) <=> d = c
        BY <1>1, <1>2, <2>2 DEF ConsoleInv, OneSpins
      <3> QED BY <1>6, <2>1, <3>1, <3>2
    <2>3. CASE ~(Mine(c) /\ call.op = o)
      <3>1. (o \in busy') <=> (o \in busy)
        BY <1>2, <2>3
      <3>2. \A d \in Calls : (Running(d)' /\ Mine(d)' /\ calls'[d].op = o)
                            <=> (Running(d) /\ Mine(d) /\ calls[d].op = o)
        BY <1>1, <1>6, <2>1, <2>3
      <3> QED BY <3>1, <3>2 DEF ConsoleInv, OneSpins
    <2> QED BY <2>2, <2>3
  <1> QED BY <1>2, <1>5, <1>8, <1>9, <1>10, <1>11, <1>12 DEF ConsoleInv

LEMMA LeaveKeeps ==
    ASSUME ConsoleInv, Leave
    PROVE  ConsoleInv' /\ UNCHANGED store
  <1>1. /\ open' = FALSE
        /\ UNCHANGED <<store, mounts, view, loaded, busy, calls, started, outside, raced>>
    BY DEF Leave
  <1>2. tables' = tables /\ StoreTypeOK'
    BY <1>1 DEF store, ConsoleInv, TypeOK, StoreTypeOK
  <1>3. \A c \in Calls : Pending(c)' = Pending(c) /\ Running(c)' = Running(c)
                        /\ \A l : Touches(c, l)' = Touches(c, l)
    BY <1>1 DEF Pending, Running, Touches
  <1>4. TypeOK'
    BY <1>1, <1>2 DEF ConsoleInv, TypeOK
  <1>5. CallsFit' /\ OneAtATime' /\ LoadsOnce' /\ OneSpins'
    BY <1>1, <1>3 DEF ConsoleInv, CallsFit, OneAtATime, LoadsOnce, OneSpins, ItemFits
  <1>6. AnswersAgree'
    BY <1>1, <1>2, <1>3 DEF ConsoleInv, AnswersAgree
  <1> QED BY <1>1, <1>4, <1>5, <1>6 DEF ConsoleInv

\* Other clients change a list that the console then counts as raced.
LEMMA OutsideKeeps ==
    ASSUME ConsoleInv, Outside
    PROVE  ConsoleInv' /\ Recorded
  <1>1. /\ started + outside < MaxCalls /\ outside' = outside + 1
        /\ UNCHANGED <<open, mounts, view, loaded, busy, calls, started>>
    BY DEF Outside, console
  <1>2. StoreTypeOK
    BY DEF ConsoleInv, TypeOK
  <1>3. /\ Recorded /\ raced \subseteq raced' /\ raced' \subseteq Lists
        /\ \A l \in Lists \ raced' : tables'[l] = tables[l]
    <2>1. ASSUME NEW w \in Workloads, RotateWorkloadSvid(w), raced' = raced \cup {"svids"}
          PROVE  /\ Recorded /\ raced \subseteq raced' /\ raced' \subseteq Lists
                 /\ \A l \in Lists \ raced' : tables'[l] = tables[l]
      BY <1>2, <2>1, SvidRotated DEF OnlyChanges, Lists, ConsoleInv, TypeOK
    <2>2. ASSUME NEW p \in Paths, NEW d \in Payloads, RotateVaultSecret(p, d),
                 raced' = raced \cup {"secrets"}
          PROVE  /\ Recorded /\ raced \subseteq raced' /\ raced' \subseteq Lists
                 /\ \A l \in Lists \ raced' : tables'[l] = tables[l]
      BY <1>2, <2>2, SecretRotated DEF OnlyChanges, Lists, ConsoleInv, TypeOK
    <2>3. ASSUME NEW k \in TransitKeys, RotateTransitKey(k),
                 raced' = raced \cup {"transitKeys"}
          PROVE  /\ Recorded /\ raced \subseteq raced' /\ raced' \subseteq Lists
                 /\ \A l \in Lists \ raced' : tables'[l] = tables[l]
      BY <1>2, <2>3, TransitRotated DEF OnlyChanges, Lists, ConsoleInv, TypeOK
    <2>4. ASSUME NEW k \in KeyIds, RevokeApiKey(k), raced' = raced \cup {"apiKeys"}
          PROVE  /\ Recorded /\ raced \subseteq raced' /\ raced' \subseteq Lists
                 /\ \A l \in Lists \ raced' : tables'[l] = tables[l]
      BY <1>2, <2>4, KeyChanged DEF OnlyChanges, Lists, ConsoleInv, TypeOK
    <2>5. ASSUME (\E client \in ClientIds : TriggerRateLimitHit(client)) \/ Refuse,
                 raced' = raced
          PROVE  /\ Recorded /\ raced \subseteq raced' /\ raced' \subseteq Lists
                 /\ \A l \in Lists \ raced' : tables'[l] = tables[l]
      <3>1. StoreTypeOK' /\ tables' = tables
        BY <1>2, <2>5, TablesKept
      <3> QED BY <2>5, <3>1 DEF Recorded, ConsoleInv, TypeOK
    <2> QED BY <2>1, <2>2, <2>3, <2>4, <2>5 DEF Outside
  <1>4. \A c \in Calls : /\ Pending(c)' = Pending(c) /\ Running(c)' = Running(c)
                        /\ Mine(c)' = Mine(c)
                        /\ \A l : Touches(c, l)' = Touches(c, l)
    BY <1>1 DEF Pending, Running, Touches, Mine
  <1>5. /\ outside \in Nat /\ started \in Nat /\ MaxCalls \in Nat
        /\ started + outside' <= MaxCalls /\ outside' \in 0..MaxCalls
    BY <1>1, ConsoleAssumption DEF ConsoleInv, TypeOK
  <1>6. TypeOK'
    BY <1>1, <1>3, <1>5 DEF ConsoleInv, TypeOK, Recorded
  <1>7. CallsFit'
    BY <1>1, <1>4, <1>5 DEF ConsoleInv, CallsFit, ItemFits
  <1>8. OneAtATime'
    BY <1>1, <1>3, <1>4 DEF ConsoleInv, OneAtATime
  <1>9. LoadsOnce' /\ OneSpins'
    BY <1>1, <1>4 DEF ConsoleInv, LoadsOnce, OneSpins
  <1>10. AnswersAgree'
    <2>1. \A l \in Lists \ raced' : l \in Lists \ raced /\ tables'[l] = tables[l]
      BY <1>3
    <2> QED BY <1>1, <1>4, <2>1 DEF ConsoleInv, AnswersAgree, Patched
  <1> QED BY <1>3, <1>6, <1>7, <1>8, <1>9, <1>10 DEF ConsoleInv

LEMMA ClicksKeep ==
    ASSUME ConsoleInv, Clicks
    PROVE  ConsoleInv' /\ UNCHANGED store
  <1>1. \A op \in Ops : Sends(Call(op), op)
    BY CallFacts DEF ConsoleInv
  <1>2. /\ Workloads \subseteq Items /\ Paths \subseteq Items /\ Policies \subseteq Items
        /\ KeyIds \subseteq Items /\ Users \subseteq Items
        /\ {"rotateSvid", "rotateSecret", "addSecret", "issueJwt", "saveOpa", "evaluate",
            "createKey", "revokeKey", "simulate"} = Ops \ {"load"}
    BY DEF Items, Ops
  <1>3. ASSUME NEW w \in Workloads, RotateSvid(w)
       PROVE  ConsoleInv'
    <2>1. PICK sent : sent = Call("rotateSvid") /\ Sends(sent, "rotateSvid")
      BY <1>1, <1>2
    <2>2. PICK call : call = [sent EXCEPT !.item = w]
      OBVIOUS
    <2>3. Sends(call, "rotateSvid") /\ call.item = w
      BY <1>2, <2>1, <2>2 DEF Sends, CallType
    <2>4. ItemFits(call)
      BY <2>3 DEF Sends, ItemFits
    <2>5. Click(call) /\ ("rotateSvid" \in Guarded => "rotateSvid" \notin busy)
      BY <1>3, <2>1, <2>2 DEF RotateSvid, CertOffered, Guarded
    <2> QED BY <1>2, <2>3, <2>4, <2>5, ClickKeeps
  <1>4. ASSUME NEW p \in Paths, RotateSecret(p)
       PROVE  ConsoleInv'
    <2>0. view.secrets[p].data \in Payloads
      BY DEF ConsoleInv, TypeOK, Tables, VaultSecret
    <2>1. PICK sent : sent = Call("rotateSecret") /\ Sends(sent, "rotateSecret")
      BY <1>1, <1>2
    <2>2. PICK call : call = [sent EXCEPT
                               !.item = p, !.data = view.secrets[p].data]
      OBVIOUS
    <2>3. Sends(call, "rotateSecret") /\ call.item = p
      BY <2>0, <1>2, <2>1, <2>2 DEF Sends, CallType
    <2>4. ItemFits(call)
      BY <2>3 DEF Sends, ItemFits
    <2>5. Click(call) /\ ("rotateSecret" \in Guarded => "rotateSecret" \notin busy)
      BY <1>4, <2>1, <2>2 DEF RotateSecret, RotationOffered, Guarded
    <2> QED BY <1>2, <2>3, <2>4, <2>5, ClickKeeps
  <1>5. ASSUME NEW p \in Paths, NEW d \in Payloads, AddSecret(p, d)
       PROVE  ConsoleInv'
    <2>1. PICK sent : sent = Call("addSecret") /\ Sends(sent, "addSecret")
      BY <1>1, <1>2
    <2>2. PICK call : call = [sent EXCEPT !.item = p, !.data = d]
      OBVIOUS
    <2>3. Sends(call, "addSecret") /\ call.item = p
      BY <1>2, <2>1, <2>2 DEF Sends, CallType
    <2>4. ItemFits(call)
      BY <2>3 DEF Sends, ItemFits
    <2>5. Click(call) /\ ("addSecret" \in Guarded => "addSecret" \notin busy)
      BY <1>5, <2>1, <2>2 DEF AddSecret, Guarded
    <2> QED BY <1>2, <2>3, <2>4, <2>5, ClickKeeps
  <1>6. ASSUME NEW u \in Users, IssueJwt(u)
       PROVE  ConsoleInv'
    <2>1. PICK sent : sent = Call("issueJwt") /\ Sends(sent, "issueJwt")
      BY <1>1, <1>2
    <2>2. PICK call : call = [sent EXCEPT !.item = u]
      OBVIOUS
    <2>3. Sends(call, "issueJwt") /\ call.item = u
      BY <1>2, <2>1, <2>2 DEF Sends, CallType
    <2>4. ItemFits(call)
      BY <2>3 DEF Sends, ItemFits
    <2>5. Click(call) /\ ("issueJwt" \in Guarded => "issueJwt" \notin busy)
      BY <1>6, <2>1, <2>2 DEF IssueJwt, Guarded
    <2> QED BY <1>2, <2>3, <2>4, <2>5, ClickKeeps
  <1>7. ASSUME NEW p \in Policies, NEW t \in RegoTexts, SavePolicy(p, t)
       PROVE  ConsoleInv'
    <2>1. PICK sent : sent = Call("saveOpa") /\ Sends(sent, "saveOpa")
      BY <1>1, <1>2
    <2>2. PICK call : call = [sent EXCEPT !.item = p, !.text = t]
      OBVIOUS
    <2>3. Sends(call, "saveOpa") /\ call.item = p
      BY <1>2, <2>1, <2>2 DEF Sends, CallType
    <2>4. ItemFits(call)
      BY <2>3 DEF Sends, ItemFits
    <2>5. Click(call) /\ ("saveOpa" \in Guarded => "saveOpa" \notin busy)
      BY <1>7, <2>1, <2>2 DEF SavePolicy, Guarded
    <2> QED BY <1>2, <2>3, <2>4, <2>5, ClickKeeps
  <1>8. ASSUME NEW u \in Users, NEW m \in Methods, NEW r \in BOOLEAN, Evaluate(u, m, r)
       PROVE  ConsoleInv'
    <2>0. RequestOf(u, m, r) \in OpaEvaluationRequest
      BY ConsoleAssumption DEF RequestOf, OpaEvaluationRequest
    <2>1. PICK sent : sent = Call("evaluate") /\ Sends(sent, "evaluate")
      BY <1>1, <1>2
    <2>2. PICK call : call = [sent EXCEPT !.request = RequestOf(u, m, r)]
      OBVIOUS
    <2>3. Sends(call, "evaluate")
      BY <2>0, <1>2, <2>1, <2>2 DEF Sends, CallType
    <2>4. ItemFits(call)
      BY <2>3 DEF Sends, ItemFits
    <2>5. Click(call) /\ ("evaluate" \in Guarded => "evaluate" \notin busy)
      BY <1>8, <2>1, <2>2 DEF Evaluate, Guarded
    <2> QED BY <1>2, <2>3, <2>4, <2>5, ClickKeeps
  <1>9. ASSUME NewApiKey
       PROVE  ConsoleInv'
    <2>1. PICK call : call = Call("createKey")
      OBVIOUS
    <2>2. Sends(call, "createKey")
      BY <1>1, <1>2, <2>1
    <2>3. ItemFits(call)
      BY <2>2 DEF Sends, ItemFits
    <2>4. Click(call) /\ ("createKey" \in Guarded => "createKey" \notin busy)
      BY <1>9, <2>1 DEF NewApiKey, Guarded
    <2> QED BY <1>2, <2>2, <2>3, <2>4, ClickKeeps
  <1>10. ASSUME NEW k \in KeyIds, RevokeKey(k)
        PROVE  ConsoleInv'
    <2>1. PICK sent : sent = Call("revokeKey") /\ Sends(sent, "revokeKey")
      BY <1>1, <1>2
    <2>2. PICK call : call = [sent EXCEPT !.item = k]
      OBVIOUS
    <2>3. Sends(call, "revokeKey") /\ call.item = k
      BY <1>2, <2>1, <2>2 DEF Sends, CallType
    <2>4. ItemFits(call)
      BY <2>3 DEF Sends, ItemFits
    <2>5. Click(call) /\ ("revokeKey" \in Guarded => "revokeKey" \notin busy)
      BY <1>10, <2>1, <2>2 DEF RevokeKey, Guarded
    <2> QED BY <1>2, <2>3, <2>4, <2>5, ClickKeeps
  <1>11. ASSUME SimulateRateLimit
        PROVE  ConsoleInv'
    <2>1. PICK call : call = Call("simulate")
      OBVIOUS
    <2>2. Sends(call, "simulate")
      BY <1>1, <1>2, <2>1
    <2>3. ItemFits(call)
      BY <2>2 DEF Sends, ItemFits
    <2>4. Click(call) /\ ("simulate" \in Guarded => "simulate" \notin busy)
      BY <1>11, <2>1 DEF SimulateRateLimit, SpikeOffered, Guarded
    <2> QED BY <1>2, <2>2, <2>3, <2>4, ClickKeeps
  <1>12. UNCHANGED store
    BY DEF Clicks, RotateSvid, RotateSecret, AddSecret, IssueJwt, SavePolicy, Evaluate,
       NewApiKey, RevokeKey, SimulateRateLimit, Click, Begin
  <1> QED BY <1>3, <1>4, <1>5, <1>6, <1>7, <1>8, <1>9, <1>10, <1>11, <1>12 DEF Clicks

LEMMA ConsoleInit == Init => ConsoleInv
  <1> SUFFICES ASSUME Init PROVE ConsoleInv
    OBVIOUS
  <1>1. /\ StoreInit /\ open = FALSE /\ mounts = 0 /\ loaded = FALSE
        /\ view = EmptyTables /\ busy = {} /\ calls = [c \in Calls |-> Unused]
        /\ started = 0 /\ outside = 0 /\ raced = {} /\ MaxCalls \in Nat
    BY ConsoleAssumption DEF Init
  <1>2. StoreTypeOK
    <2>1. tables \in Tables
      <3>1. SeedSvids \in [Workloads -> SpiffeSvid]
        BY DEF SeedSvids, SpiffeSvid
      <3>2. SeedSecrets \in [Paths -> VaultSecret]
        <4>1. \A n \in Nat : [i \in 1..n |-> i] \in Seq(Nat)
          OBVIOUS
        <4> QED BY <4>1, SecurityAssumption DEF SeedSecrets, VaultSecret
      <3>3. /\ SeedTransitKeys \in [TransitKeys -> Nat]
            /\ SeedPolicies \in [Policies -> RegoTexts]
            /\ SeedApiKeys \in [KeyIds -> ApiKeyStatus]
        BY SecurityAssumption DEF SeedTransitKeys, SeedPolicies, SeedApiKeys, ApiKeyStatus
      <3> QED BY <1>1, <3>1, <3>2, <3>3 DEF StoreInit, Tables
    <2>2. rotationLogs \in Seq(SvidRotationLog) /\ granted \subseteq OpaEvaluationRequest
          /\ audited \in Nat
      BY <1>1, SecurityAssumption DEF StoreInit
    <2>3. rateLimitMetrics \in Seq(RateLimitMetric)
      <3>1. [client |-> Gateway, total |-> 0, blocked |-> 0] \in RateLimitMetric
        BY SecurityAssumption DEF RateLimitMetric
      <3> QED BY <1>1, <3>1, SecurityAssumption DEF StoreInit
    <2>4. auditLogs \in Seq(SecurityAuditEvent) /\ Len(auditLogs) = SeedAudit
      <3>1. \A i \in 1..SeedAudit :
              [id |-> SeedAudit - i, category |-> "secrets", status |-> "success"]
                \in SecurityAuditEvent
        BY SecurityAssumption DEF SecurityAuditEvent, Categories
      <3>2. SeedAudit \in Nat /\ auditLogs = [i \in 1..SeedAudit |->
              [id |-> SeedAudit - i, category |-> "secrets", status |-> "success"]]
        BY <1>1, SecurityAssumption DEF StoreInit
      <3>3. ASSUME NEW S, NEW n \in Nat, NEW f \in [1..n -> S]
            PROVE  f \in Seq(S) /\ Len(f) = n
        OBVIOUS
      <3>4. auditLogs \in [1..SeedAudit -> SecurityAuditEvent]
        BY <3>1, <3>2
      <3> QED BY <3>2, <3>3, <3>4
    <2> QED BY <2>1, <2>2, <2>3, <2>4, SecurityAssumption DEF StoreTypeOK
  <1>3. \A c \in Calls : /\ calls[c] = Unused /\ ~Running(c) /\ ~Pending(c)
                        /\ calls[c].mount = 0 /\ calls[c].op = "load"
    BY <1>1, EmptyFacts DEF Running, Pending
  <1>4. TypeOK
    <2>1. calls \in [Calls -> CallType] /\ view \in Tables
      BY <1>1, EmptyFacts
    <2>2. 0 \in 0..MaxCalls
      BY <1>1
    <2> QED BY <1>1, <1>2, <2>1, <2>2 DEF TypeOK
  <1>5. CallsFit
    BY <1>1, <1>3 DEF CallsFit, ItemFits
  <1>6. OneAtATime /\ LoadsOnce /\ AnswersAgree /\ OneSpins
    BY <1>1, <1>3 DEF OneAtATime, LoadsOnce, AnswersAgree, OneSpins, Touches
  <1> QED BY <1>4, <1>5, <1>6 DEF ConsoleInv

LEMMA ConsoleNext ==
    ConsoleInv /\ [Next]_vars => ConsoleInv' /\ (tables' # tables => Recorded)
  <1>1. ConsoleInv /\ UNCHANGED vars => ConsoleInv' /\ UNCHANGED store
    <2> SUFFICES ASSUME ConsoleInv, UNCHANGED vars PROVE ConsoleInv' /\ UNCHANGED store
      OBVIOUS
    <2>1. UNCHANGED <<open, mounts, view, loaded, busy, calls, started, outside, raced>>
          /\ UNCHANGED store
      BY DEF vars, console
    <2>2. tables' = tables /\ StoreTypeOK'
      BY <2>1 DEF store, ConsoleInv, TypeOK, StoreTypeOK
    <2>3. \A c \in Calls : /\ Pending(c)' = Pending(c) /\ Running(c)' = Running(c)
                          /\ Mine(c)' = Mine(c)
                          /\ \A l : Touches(c, l)' = Touches(c, l)
      BY <2>1 DEF Pending, Running, Touches, Mine
    <2>4. TypeOK'
      BY <2>1, <2>2 DEF ConsoleInv, TypeOK
    <2>5. CallsFit' /\ OneAtATime' /\ LoadsOnce' /\ OneSpins'
      BY <2>1, <2>3 DEF ConsoleInv, CallsFit, OneAtATime, LoadsOnce, OneSpins, ItemFits
    <2>6. AnswersAgree'
      BY <2>1, <2>2, <2>3 DEF ConsoleInv, AnswersAgree
    <2> QED BY <2>1, <2>4, <2>5, <2>6 DEF ConsoleInv
  <1>2. ConsoleInv /\ Open => ConsoleInv' /\ UNCHANGED store
    BY OpenKeeps DEF Open, Begin
  <1>3. UNCHANGED store => tables' = tables
    BY DEF store
  <1> QED BY <1>1, <1>2, <1>3, LeaveKeeps, ClicksKeep, OutsideKeeps, ServeKeeps, UseKeeps,
             EndKeeps DEF Next

LEMMA ConsoleInvariance == Spec => []ConsoleInv
  BY ConsoleInit, ConsoleNext, PTL DEF Spec

\* The store, the console and its calls keep their types (ZeroTrustDashboard
\* .tsx, securityEngine.ts).
THEOREM ConsoleTypes == Spec => []TypeOK
  <1>1. ConsoleInv => TypeOK
    BY DEF ConsoleInv
  <1> QED BY <1>1, ConsoleInvariance, PTL

\* A list that only one call at a time concerned is shown as the server has
\* it (ZeroTrustDashboard.tsx:271-537).
THEOREM ViewsStayAgreed == Spec => []ViewsAgree
  <1>1. ConsoleInv => ViewsAgree
    BY DEF ConsoleInv, AnswersAgree, ViewsAgree, Touches
  <1> QED BY <1>1, ConsoleInvariance, PTL

\* One call runs behind each button that a spinner disables, and none when it
\* does not (ZeroTrustDashboard.tsx:698, 938 and 1527).
THEOREM SpinnersStayMatched == Spec => []SpinnersMatchCalls
  <1>1. ConsoleInv => SpinnersMatchCalls
    <2> SUFFICES ASSUME ConsoleInv, open, NEW op \in Guarded,
                        NEW running, running = {c \in Calls :
                                       Running(c) /\ Mine(c) /\ calls[c].op = op}
                 PROVE  IF op \in busy THEN Cardinality(running) = 1 ELSE running = {}
      BY DEF SpinnersMatchCalls
    <2>1. CASE op \in busy
      <3>1. PICK c \in Calls : \A d \in Calls :
              (Running(d) /\ Mine(d) /\ calls[d].op = op) <=> d = c
        BY <2>1 DEF ConsoleInv, OneSpins
      <3>2. running = {c}
        BY <3>1
      <3> QED BY <2>1, <3>2, FS_Singleton
    <2>2. CASE op \notin busy
      BY <2>2 DEF ConsoleInv, OneSpins
    <2> QED BY <2>1, <2>2
  <1> QED BY <1>1, ConsoleInvariance, PTL

\* No table changes without its event at the head of the trail
\* (securityEngine.ts:376-403).
THEOREM ChangesStayAudited == Spec => ChangesAreAudited
  <1>1. ConsoleInv /\ [Next]_vars =>
          [tables' # tables =>
             /\ audited' = audited + 1
             /\ Head(auditLogs').id = audited
             /\ Head(auditLogs').status = "success"
             /\ \A i \in 2..Len(auditLogs') : auditLogs'[i] = auditLogs[i - 1]
             /\ Len(auditLogs') < Len(auditLogs) + 1 => Len(auditLogs') = AuditCap]_vars
    BY ConsoleNext DEF Recorded
  <1> QED BY <1>1, ConsoleInvariance, PTL DEF Spec, ChangesAreAudited

-----------------------------------------------------------------------------
(***************************************************************************)
(* The AI platform.  A call and its request go through their stages        *)
(* together.  A copy of the page that misses nothing is the business of    *)
(* one call at a time, and what a call has done by its stage is what the   *)
(* page still lacks, or has ahead of the server.  A session no two chats   *)
(* were in at once waits for one reply or for none.                        *)
(***************************************************************************)

\* Where a request waits tells its kind.
Placed(job) ==
    /\ job.at = "free" <=> job.kind = "none"
    /\ job.at \in {"primary", "failover"} => job.kind = "chat"
    /\ job.at \in {"auth", "encode", "lookup", "hydrate", "execute"} => job.kind = "rag"
    /\ job.at = "simulated" => job.kind \in {"chat", "rag"}
    /\ job.at = "index" => job.kind = "index"

\* What a request on the server does is what its call asked for; a call that
\* was given up may still be served.
JobFits(j) ==
    LET job == jobs[j]
        asked == aiCalls[j]
    IN  /\ Placed(job)
        /\ asked.stage \in {"unused", "sent"} => job.at = "free"
        /\ asked.stage = "unused" => asked.op = "prompt"
        /\ asked.stage = "sent" /\ asked.op = "index" => asked.doc \in Documents
        /\ asked.stage = "sent" /\ asked.op = "chat" => sessions[asked.session].exists
        /\ asked.stage = "working" =>
               /\ job.kind = asked.op /\ job.at # "done"
               /\ asked.op = "chat" => job.session = asked.session
        /\ asked.stage = "served" =>
               IF asked.op \in {"chat", "rag", "index"}
               THEN job.kind = asked.op /\ job.at = "done" ELSE job.at = "free"

Chatting(j, s) == jobs[j].kind = "chat" /\ jobs[j].at # "done" /\ jobs[j].session = s

About(j, copy) == AI!Pending(j) /\ copy \in AI!Concerns(aiCalls[j].op)

\* A copy that misses nothing is the business of one fetch or of one call of
\* the page, which has loaded it.
OneAsks ==
    \A copy \in AI!Copies \ aiRaced, j \in Jobs : About(j, copy) =>
      /\ AI!Mine(j) /\ copy \in aiLoaded /\ fetches[copy].stage = "none"
      /\ \A k \in Jobs : About(k, copy) => k = j

PolicyAgrees ==
    "config" \notin aiRaced =>
      /\ fetches["config"].stage = "served" => fetches["config"].config = gatewayConfig
      /\ (\A j \in Jobs : ~About(j, "config")) =>
           gatewayConfig = wanted /\ ("config" \in aiLoaded => config = wanted)
      /\ \A j \in Jobs : About(j, "config") =>
           /\ aiCalls[j].config = wanted
           /\ aiCalls[j].stage # "sent" => gatewayConfig = wanted

Told(s, m) == shown[s].exists = sessions[s].exists /\ shown[s].messages = m

\* What the page lacks, or has ahead, of the session a call is about.
CallTold(j) ==
    LET asked == aiCalls[j]
        s == asked.session
        kept == sessions[s].messages
    IN  /\ asked.op = "chat" => sessions[s].exists
        /\ \A t \in Sessions :
             t # s \/ (asked.op = "session" /\ asked.stage = "sent")
               => Told(t, sessions[t].messages)
        /\ asked.op = "chat" /\ asked.stage = "sent" => Told(s, Append(kept, AI!Says("user", j)))
        /\ asked.op = "chat" /\ asked.stage = "working" => Told(s, kept)
        /\ asked.op = "chat" /\ asked.stage = "served" =>
             /\ shown[s].exists /\ kept = Append(shown[s].messages, AI!Says("model", j))
        /\ asked.op = "session" /\ asked.stage = "served" =>
             /\ sessions[s].exists /\ kept = <<>>

SessionsAgree ==
    "sessions" \notin aiRaced =>
      /\ fetches["sessions"].stage = "served" => fetches["sessions"].sessions = sessions
      /\ \A j \in Jobs, s \in Sessions : Chatting(j, s) =>
           aiCalls[j].stage = "working" /\ aiCalls[j].op = "chat"
      /\ "sessions" \in aiLoaded /\ (\A j \in Jobs : ~About(j, "sessions")) =>
           \A s \in Sessions : Told(s, sessions[s].messages)
      /\ \A j \in Jobs : About(j, "sessions") => CallTold(j)

AppearsAt(j, role, s, i) ==
    i \in DOMAIN sessions[s].messages /\ sessions[s].messages[i] = AI!Says(role, j)

\* A request has said nothing before it starts, has asked once when it is
\* under way and has had one reply when it is done.
Spoken(j) ==
    LET s == jobs[j].session IN
    /\ jobs[j].kind = "none" =>
         \A t \in Sessions : \A i \in DOMAIN sessions[t].messages : sessions[t].messages[i].of # j
    /\ jobs[j].kind = "chat" =>
         \E a \in DOMAIN sessions[s].messages :
           /\ \A i \in DOMAIN sessions[s].messages : AppearsAt(j, "user", s, i) <=> i = a
           /\ jobs[j].at # "done" =>
                \A i \in DOMAIN sessions[s].messages : ~AppearsAt(j, "model", s, i)
           /\ jobs[j].at = "done" => \E b \in DOMAIN sessions[s].messages :
                a < b /\ \A i \in DOMAIN sessions[s].messages :
                  AppearsAt(j, "model", s, i) <=> i = b

\* A session no two chats were in at once waits for one reply or for none.
Turns(s) ==
    LET m == sessions[s].messages IN
    /\ ~sessions[s].exists => m = <<>>
    /\ s \notin crowded =>
         /\ \A i \in DOMAIN m : IF i % 2 = 1 THEN m[i].role = "user"
                                ELSE m[i] = AI!Says("model", m[i - 1].of)
         /\ \A j, k \in Jobs : Chatting(j, s) /\ Chatting(k, s) => j = k
         /\ \A j \in Jobs : Chatting(j, s) => Len(m) % 2 = 1 /\ m[Len(m)] = AI!Says("user", j)
         /\ (\A j \in Jobs : ~Chatting(j, s)) => Len(m) % 2 = 0

Logged(j) == jobs[j].at = "done" /\ jobs[j].kind \in {"chat", "rag"}

Entry(j) ==
    IF Logged(j)
    THEN \/ /\ Len(gatewayLogs) = LogCap
            /\ \A i \in DOMAIN gatewayLogs : gatewayLogs[i].of # j
         \/ \E a \in DOMAIN gatewayLogs :
              /\ \A i \in DOMAIN gatewayLogs : gatewayLogs[i].of = j <=> i = a
              /\ gatewayLogs[a].status = "success" <=> jobs[j].answeredBy # AI!NoModel
    ELSE \A i \in DOMAIN gatewayLogs : gatewayLogs[i].of # j

PlatformInv ==
    /\ AI!TypeOK /\ \A j \in Jobs : JobFits(j)
    /\ OneAsks /\ PolicyAgrees /\ SessionsAgree
    /\ \A j \in Jobs : Spoken(j)
    /\ \A s \in Sessions : Turns(s)
    /\ \A j \in Jobs : Entry(j)

-----------------------------------------------------------------------------
LEMMA SequenceFacts ==
    ASSUME NEW S
    PROVE  /\ \A q \in Seq(S), x \in S :
                /\ Append(q, x) \in Seq(S) /\ Len(Append(q, x)) = Len(q) + 1
                /\ Append(q, x)[Len(q) + 1] = x
                /\ \A i \in 1..Len(q) : Append(q, x)[i] = q[i]
           /\ \A q \in Seq(S) : \A n \in Nat : n >= 1 => AI!LastOf(q, n) \in Seq(S)
  BY DEF AI!LastOf

LEMMA RoutedModel ==
    ASSUME NEW text \in AI!Texts, NEW policy \in AI!GatewayConfig
    PROVE  AI!ResolveModelRouting(text, policy).model \in AI!Models
  <1>1. policy.routingStrategy \in AI!Strategies /\ policy.defaultModel \in AI!Models
    BY DEF AI!GatewayConfig
  <1>2. CASE policy.routingStrategy = "static"
    BY <1>1, <1>2 DEF AI!ResolveModelRouting, AI!Route
  <1>3. CASE policy.routingStrategy = "cost"
    BY <1>3 DEF AI!ResolveModelRouting, AI!Route, AI!Models
  <1>4. CASE policy.routingStrategy = "latency"
    BY <1>4 DEF AI!ResolveModelRouting, AI!Route, AI!Models
  <1>5. CASE policy.routingStrategy = "capability"
    BY <1>5 DEF AI!ResolveModelRouting, AI!Route, AI!Models
  <1> QED BY <1>1, <1>2, <1>3, <1>4, <1>5 DEF AI!Strategies

LEMMA ChosenModel ==
    ASSUME gatewayConfig \in AI!GatewayConfig, NEW text \in AI!Texts,
           NEW override \in AI!Models \cup {AI!NoModel}
    PROVE  AI!Routing(text, override).model \in AI!Models
  BY RoutedModel DEF AI!Routing, AI!Route

LEMMA ContextType ==
    ASSUME NEW kept \in AI!ChatSession
    PROVE  AI!Context(kept) \in Seq(AI!ChatMessage)
  <1>1. kept.memory \in AI!Memories /\ kept.messages \in Seq(AI!ChatMessage)
    BY DEF AI!ChatSession
  <1>2. Window \in Nat /\ Window >= 1
    BY PlatformAssumption DEF AI!ConsoleAssumption, AI!EngineAssumption
  <1> QED BY <1>1, <1>2, SequenceFacts DEF AI!Context, AI!Memories

\* A setting that suits the first policy suits every policy.
LEMMA ChangedPolicy ==
    ASSUME NEW policy \in AI!GatewayConfig, NEW setting \in Settings
    PROVE  [policy EXCEPT ![setting.field] = setting.value] \in AI!GatewayConfig
  <1>1. [AI!SeedConfig EXCEPT ![setting.field] = setting.value] \in AI!GatewayConfig
    BY PlatformAssumption DEF AI!ConsoleAssumption
  <1>2. CASE setting.field = "defaultProvider"
    BY <1>1, <1>2 DEF AI!GatewayConfig, AI!SeedConfig
  <1>3. CASE setting.field = "defaultModel"
    BY <1>1, <1>3 DEF AI!GatewayConfig, AI!SeedConfig
  <1>4. CASE setting.field = "routingStrategy"
    BY <1>1, <1>4 DEF AI!GatewayConfig, AI!SeedConfig
  <1>5. CASE setting.field = "failoverEnabled"
    BY <1>1, <1>5 DEF AI!GatewayConfig, AI!SeedConfig
  <1>6. CASE setting.field = "failoverModel"
    BY <1>1, <1>6 DEF AI!GatewayConfig, AI!SeedConfig
  <1>7. CASE setting.field \notin {"defaultProvider", "defaultModel", "routingStrategy",
                                   "failoverEnabled", "failoverModel"}
    BY <1>7 DEF AI!GatewayConfig
  <1> QED BY <1>2, <1>3, <1>4, <1>5, <1>6, <1>7

LEMMA SummaryType ==
    ASSUME NEW kind \in {"none", "recap", "routing"}, NEW j \in Jobs \cup {0}
    PROVE  AI!Sums(kind, j) \in AI!Summary
  BY DEF AI!Sums, AI!Summary

LEMMA SeedTypes ==
    /\ AI!SeedConfig \in AI!GatewayConfig /\ AI!PlainText \in AI!Texts
    /\ AI!NoSession \in AI!ChatSession /\ SeedSession \in Sessions
    /\ AI!NoModel \notin AI!Models /\ AI!FreeJob \in AI!Job /\ AI!NoCall \in AI!CallType
    /\ AI!NoFetch \in [stage : {"none", "sent", "served"}, config : AI!GatewayConfig,
                    blank : BOOLEAN, sessions : [Sessions -> AI!ChatSession]]
  <1>1. AI!SeedConfig \in AI!GatewayConfig /\ AI!PlainText \in AI!Texts /\ SeedSession \in Sessions
    BY PlatformAssumption
       DEF AI!SeedConfig, AI!GatewayConfig, AI!PlainText, AI!Texts, AI!Providers, AI!Models,
           AI!Flash, AI!Pro, AI!Strategies, AI!ConsoleAssumption, AI!EngineAssumption
  <1>2. AI!NoSession \in AI!ChatSession /\ AI!NoModel \notin AI!Models
    BY SummaryType DEF AI!NoSession, AI!ChatSession, AI!Memories, AI!NoModel, AI!Models, AI!Flash, AI!Pro
  <1>3. AI!FreeJob \in AI!Job
    BY <1>1 DEF AI!FreeJob, AI!Job, AI!Places, AI!Models, AI!Encoders, AI!Statuses, AI!NoModel
  <1>4. AI!NoCall \in AI!CallType
    BY <1>1 DEF AI!NoCall, AI!CallType, AI!Ops, AI!Stages, AI!Memories
  <1>5. [t \in Sessions |-> AI!NoSession] \in [Sessions -> AI!ChatSession]
    BY <1>2
  <1> HIDE DEF AI!SeedConfig, AI!NoSession
  <1> QED BY <1>1, <1>2, <1>3, <1>4, <1>5 DEF AI!NoFetch

LEMMA LogTypes ==
    ASSUME AI!TypeOK, NEW j \in Jobs, NEW model \in AI!Models, NEW status \in AI!Statuses,
           AI!LogGatewayCall(j, model, status)
    PROVE  /\ gatewayLogs' \in Seq(AI!GatewayLog) /\ Len(gatewayLogs') <= LogCap
           /\ Len(gatewayLogs') >= Len(gatewayLogs) /\ Len(gatewayLogs') >= 1
           /\ Len(gatewayLogs') <= Len(gatewayLogs) + 1
           /\ Len(gatewayLogs') < Len(gatewayLogs) + 1 => Len(gatewayLogs') = LogCap
           /\ gatewayLogs'[1] = [of |-> j, model |-> model, status |-> status]
           /\ \A i \in 2..Len(gatewayLogs') : gatewayLogs'[i] = gatewayLogs[i - 1]
  <1> DEFINE entry == [of |-> j, model |-> model, status |-> status]
             longer == <<entry>> \o gatewayLogs
  <1>1. entry \in AI!GatewayLog
    BY DEF AI!GatewayLog
  <1>2. gatewayLogs \in Seq(AI!GatewayLog) /\ Len(gatewayLogs) <= LogCap /\ LogCap \in Nat \ {0}
    BY PlatformAssumption DEF AI!TypeOK, AI!EngineTypeOK, AI!ConsoleAssumption, AI!EngineAssumption
  <1>3. gatewayLogs' = IF Len(longer) > LogCap THEN SubSeq(longer, 1, Len(longer) - 1) ELSE longer
    BY DEF AI!LogGatewayCall
  <1> HIDE DEF entry
  <1>4. /\ longer \in Seq(AI!GatewayLog) /\ Len(longer) = Len(gatewayLogs) + 1
        /\ longer[1] = entry
        /\ \A i \in 2..Len(longer) : longer[i] = gatewayLogs[i - 1]
    BY <1>1, <1>2
  <1> HIDE DEF longer
  <1>5. CASE Len(longer) > LogCap
    <2>1. gatewayLogs' = SubSeq(longer, 1, Len(longer) - 1) /\ Len(longer) = LogCap + 1
      BY <1>2, <1>3, <1>4, <1>5
    <2>2. /\ gatewayLogs' \in Seq(AI!GatewayLog) /\ Len(gatewayLogs') = LogCap
          /\ \A i \in 1..LogCap : gatewayLogs'[i] = longer[i]
      BY <1>2, <1>4, <2>1
    <2>3. Len(gatewayLogs) = LogCap /\ Len(gatewayLogs') = LogCap /\ LogCap \in Nat /\ LogCap >= 1
      BY <1>2, <1>4, <2>1, <2>2
    <2>4. gatewayLogs'[1] = longer[1]
      BY <2>2, <2>3
    <2>5. ASSUME NEW i \in 2..LogCap
          PROVE  gatewayLogs'[i] = gatewayLogs[i - 1]
      <3>1. i \in 1..LogCap /\ i \in 2..Len(longer)
        BY <2>1, <2>3
      <3> QED BY <1>4, <2>2, <3>1
    <2> QED BY <1>4, <2>2, <2>3, <2>4, <2>5 DEF entry
  <1>6. CASE ~(Len(longer) > LogCap)
    BY <1>2, <1>3, <1>4, <1>6 DEF entry
  <1> QED BY <1>5, <1>6

LEMMA Counted ==
    ASSUME NEW S
    PROVE  AI!Cardinality(S) = Cardinality(S)
  BY Zenon DEF AI!Cardinality, Cardinality, AI!IsFiniteSet, IsFiniteSet

LEMMA InitTypes == AI!Init => AI!TypeOK
  <1> SUFFICES ASSUME AI!Init PROVE AI!TypeOK
    OBVIOUS
  <1>1. gatewayLogs \in Seq(AI!GatewayLog) /\ Len(gatewayLogs) <= LogCap
    <2>1. SeedLogs \in Nat /\ SeedLogs <= LogCap /\ LogCap \in Nat
      BY PlatformAssumption DEF AI!ConsoleAssumption, AI!EngineAssumption
    <2>2. [of |-> 0, model |-> AI!Flash, status |-> "success"] \in AI!GatewayLog
      BY DEF AI!GatewayLog, AI!Models, AI!Statuses
    <2>3. gatewayLogs = [i \in 1..SeedLogs |-> [of |-> 0, model |-> AI!Flash, status |-> "success"]]
      BY DEF AI!Init, AI!EngineInit
    <2> QED BY <2>1, <2>2, <2>3
  <1>2. sessions \in [Sessions -> AI!ChatSession]
    <2>1. <<AI!Says("user", 0), AI!Says("model", 0)>> \in Seq(AI!ChatMessage)
      BY DEF AI!Says, AI!ChatMessage
    <2>2. [AI!NoSession EXCEPT !.exists = TRUE,
                               !.messages = <<AI!Says("user", 0), AI!Says("model", 0)>>]
            \in AI!ChatSession
      <3> DEFINE said == <<AI!Says("user", 0), AI!Says("model", 0)>>
      <3> HIDE DEF said
      <3> QED BY <2>1, SeedTypes DEF AI!ChatSession, said
    <2> QED BY <2>2, SeedTypes DEF AI!Init, AI!EngineInit
  <1>3. AI!EngineTypeOK
    BY <1>1, <1>2, SeedTypes, PlatformAssumption
       DEF AI!EngineTypeOK, AI!Init, AI!EngineInit, AI!Encoders, AI!ConsoleAssumption,
            AI!EngineAssumption
  <1>4. AI!Cardinality({}) <= 1
    BY FS_EmptySet, Counted
  <1>5. loads \in 0..MaxLoads
    BY PlatformAssumption DEF AI!ConsoleAssumption, AI!Init
  <1> QED BY <1>3, <1>4, <1>5, SeedTypes DEF AI!TypeOK, AI!Init, AI!NoFetch

-----------------------------------------------------------------------------
(* Types *)

LEMMA BeginTypes ==
    ASSUME AI!TypeOK, NEW j \in Jobs, NEW mine \in BOOLEAN, NEW op \in AI!Ops,
           NEW call \in AI!CallType, AI!Begin(j, mine, op, call)
    PROVE  /\ aiCalls' \in [Jobs -> AI!CallType] /\ aiRaced' \subseteq AI!Copies
           /\ spinning' \subseteq {"chat", "rag", "index"}
  <1>1. [call EXCEPT !.op = op, !.stage = "sent", !.mine = mine] \in AI!CallType
    BY DEF AI!CallType, AI!Stages
  <1>2. AI!Concerns(op) \subseteq AI!Copies
    BY DEF AI!Concerns, AI!Ops, AI!Copies
  <1>3. AI!Spinner(op) \subseteq {"chat", "rag", "index"}
    BY DEF AI!Spinner
  <1> QED BY <1>1, <1>2, <1>3 DEF AI!Begin, AI!TypeOK

LEMMA EndTypes ==
    ASSUME AI!TypeOK, NEW j \in Jobs, AI!End(j)
    PROVE  aiCalls' \in [Jobs -> AI!CallType] /\ spinning' \subseteq {"chat", "rag", "index"}
  <1>1. [AI!NoCall EXCEPT !.stage = "ended"] \in AI!CallType
    BY SeedTypes DEF AI!CallType, AI!Stages
  <1> QED BY <1>1 DEF AI!End, AI!TypeOK

LEMMA FetchTypes ==
    ASSUME AI!TypeOK, AI!Load \/ AI!UseConfig \/ AI!UseSessions
                   \/ (\E copy \in AI!Copies : AI!ServeFetch(copy) \/ AI!LoseFetch(copy))
    PROVE  AI!TypeOK'
  <1>1. CASE AI!Load
    <2>1. loads' \in 0..MaxLoads
      <3>1. MaxLoads \in Nat
        BY PlatformAssumption DEF AI!ConsoleAssumption
      <3>2. loads \in 0..MaxLoads /\ loads < MaxLoads /\ loads' = loads + 1
        BY <1>1 DEF AI!Load, AI!TypeOK
      <3> QED BY <3>1, <3>2
    <2>2. [AI!NoFetch EXCEPT !.stage = "sent", !.blank = (active = {})]
            \in [stage : {"none", "sent", "served"}, config : AI!GatewayConfig,
                 blank : BOOLEAN, sessions : [Sessions -> AI!ChatSession]]
      BY SeedTypes
    <2>3. fetches' = [copy \in AI!Copies |->
                        [AI!NoFetch EXCEPT !.stage = "sent", !.blank = (active = {})]]
          /\ aiRaced' \subseteq AI!Copies
      BY <1>1 DEF AI!Load, AI!TypeOK
    <2>4. fetches' \in [AI!Copies -> [stage : {"none", "sent", "served"}, config : AI!GatewayConfig,
                                  blank : BOOLEAN, sessions : [Sessions -> AI!ChatSession]]]
      BY <2>2, <2>3
    <2> QED BY <1>1, <2>1, <2>3, <2>4 DEF AI!Load, AI!TypeOK, AI!EngineTypeOK, AI!engine
  <1>2. CASE AI!UseConfig
    <2>1. fetches["config"].config \in AI!GatewayConfig
      BY DEF AI!TypeOK, AI!Copies
    <2> QED BY <1>2, <2>1, SeedTypes
        DEF AI!UseConfig, AI!TypeOK, AI!EngineTypeOK, AI!engine, AI!history, AI!Copies
  <1>3. CASE AI!UseSessions
    <2>1. fetches["sessions"].sessions \in [Sessions -> AI!ChatSession]
      BY DEF AI!TypeOK, AI!Copies
    <2>2. AI!Cardinality({SeedSession}) = 1
      BY FS_Singleton, Counted
    <2>3. active' \subseteq Sessions /\ AI!Cardinality(active') <= 1
      BY <1>3, <2>2, SeedTypes DEF AI!UseSessions, AI!TypeOK
    <2> QED BY <1>3, <2>1, <2>3, SeedTypes
        DEF AI!UseSessions, AI!TypeOK, AI!EngineTypeOK, AI!engine, AI!history, AI!Copies
  <1>4. ASSUME NEW copy \in AI!Copies, AI!ServeFetch(copy)
        PROVE  AI!TypeOK'
    <2>1. PICK f \in [stage : {"none", "sent", "served"}, config : AI!GatewayConfig,
                      blank : BOOLEAN, sessions : [Sessions -> AI!ChatSession]] :
            f = fetches[copy]
      BY DEF AI!TypeOK
    <2>2. [f EXCEPT !.stage = "served", !.config = gatewayConfig, !.sessions = sessions]
            \in [stage : {"none", "sent", "served"}, config : AI!GatewayConfig,
                 blank : BOOLEAN, sessions : [Sessions -> AI!ChatSession]]
      BY DEF AI!TypeOK, AI!EngineTypeOK
    <2>3. fetches' = [fetches EXCEPT ![copy] =
            [f EXCEPT !.stage = "served", !.config = gatewayConfig, !.sessions = sessions]]
      BY <1>4, <2>1 DEF AI!ServeFetch
    <2>4. fetches' \in [AI!Copies -> [stage : {"none", "sent", "served"}, config : AI!GatewayConfig,
                                  blank : BOOLEAN, sessions : [Sessions -> AI!ChatSession]]]
      BY <2>2, <2>3 DEF AI!TypeOK
    <2> QED BY <1>4, <2>4 DEF AI!ServeFetch, AI!TypeOK, AI!EngineTypeOK, AI!engine, AI!history
  <1>5. ASSUME NEW copy \in AI!Copies, AI!LoseFetch(copy)
        PROVE  AI!TypeOK'
    BY <1>5, SeedTypes DEF AI!LoseFetch, AI!TypeOK, AI!EngineTypeOK, AI!engine, AI!history
  <1> QED BY <1>1, <1>2, <1>3, <1>4, <1>5

LEMMA ClickTypes ==
    ASSUME AI!TypeOK, NEW j \in Jobs, NEW mine \in BOOLEAN, AI!Clicks(j, mine)
    PROVE  AI!TypeOK'
  <1>1. ASSUME NEW setting \in Settings, AI!UpdateGatewayConfig(j, mine, setting)
        PROVE  AI!TypeOK'
    <2> DEFINE merged == [config EXCEPT ![setting.field] = setting.value]
    <2>1. merged \in AI!GatewayConfig
               /\ [wanted EXCEPT ![setting.field] = setting.value] \in AI!GatewayConfig
      BY ChangedPolicy DEF AI!TypeOK
    <2>2. [AI!NoCall EXCEPT !.config = merged] \in AI!CallType
      BY <2>1, SeedTypes DEF AI!CallType
    <2>3. AI!Begin(j, mine, "config", [AI!NoCall EXCEPT !.config = merged])
      BY <1>1 DEF AI!UpdateGatewayConfig
    <2> HIDE DEF merged
    <2>4. /\ aiCalls' \in [Jobs -> AI!CallType] /\ aiRaced' \subseteq AI!Copies
          /\ spinning' \subseteq {"chat", "rag", "index"}
      BY <2>2, <2>3, BeginTypes DEF AI!Ops
    <2> QED BY <1>1, <2>1, <2>4 DEF AI!UpdateGatewayConfig, AI!TypeOK, AI!EngineTypeOK, AI!engine
  <1>2. ASSUME NEW s \in Sessions, NEW text \in ChatTexts, NEW model \in Overrides,
               AI!SendChat(j, mine, s, text, model)
        PROVE  AI!TypeOK'
    <2> DEFINE call == [AI!NoCall EXCEPT !.session = s, !.text = text, !.override = model]
    <2>1. call \in AI!CallType
      BY SeedTypes, PlatformAssumption DEF AI!CallType, AI!ConsoleAssumption
    <2>2. AI!Begin(j, mine, "chat", call)
      BY <1>2 DEF AI!SendChat
    <2> HIDE DEF call
    <2>3. /\ aiCalls' \in [Jobs -> AI!CallType] /\ aiRaced' \subseteq AI!Copies
          /\ spinning' \subseteq {"chat", "rag", "index"}
      BY <2>1, <2>2, BeginTypes DEF AI!Ops
    <2>4. AI!Says("user", j) \in AI!ChatMessage
      BY DEF AI!Says, AI!ChatMessage
    <2>5. shown' \in [Sessions -> AI!ChatSession]
      <3>1. PICK old \in AI!ChatSession : old = shown[s]
        BY DEF AI!TypeOK
      <3>2. Append(old.messages, AI!Says("user", j)) \in Seq(AI!ChatMessage)
        BY <2>4, SequenceFacts DEF AI!ChatSession
      <3>3. [old EXCEPT !.messages = Append(old.messages, AI!Says("user", j))] \in AI!ChatSession
        BY <3>2 DEF AI!ChatSession
      <3>4. [shown EXCEPT ![s].messages = Append(@, AI!Says("user", j))]
              = [shown EXCEPT ![s] =
                   [old EXCEPT !.messages = Append(old.messages, AI!Says("user", j))]]
        BY <3>1 DEF AI!TypeOK
      <3> QED BY <1>2, <3>3, <3>4 DEF AI!SendChat, AI!TypeOK
    <2> QED BY <1>2, <2>3, <2>5 DEF AI!SendChat, AI!TypeOK, AI!EngineTypeOK, AI!engine
  <1>3. ASSUME NEW op \in AI!Ops, NEW call \in AI!CallType, AI!Submit(j, mine, op, call)
        PROVE  AI!TypeOK'
    <2>1. AI!Begin(j, mine, op, call)
      BY <1>3 DEF AI!Submit
    <2>2. /\ aiCalls' \in [Jobs -> AI!CallType] /\ aiRaced' \subseteq AI!Copies
          /\ spinning' \subseteq {"chat", "rag", "index"}
      BY <2>1, BeginTypes
    <2> QED BY <1>3, <2>2 DEF AI!Submit, AI!TypeOK, AI!EngineTypeOK, AI!engine
  <1>4. ASSUME NEW text \in RagTexts, AI!RunRag(j, mine, text)
        PROVE  AI!TypeOK'
    <2>1. [AI!NoCall EXCEPT !.text = text] \in AI!CallType
      BY SeedTypes, PlatformAssumption DEF AI!CallType, AI!ConsoleAssumption
    <2> QED BY <1>3, <1>4, <2>1 DEF AI!RunRag, AI!Ops
  <1>5. ASSUME NEW d \in Documents, AI!IndexDoc(j, mine, d)
        PROVE  AI!TypeOK'
    <2>1. [AI!NoCall EXCEPT !.doc = d] \in AI!CallType
      BY SeedTypes DEF AI!CallType
    <2> QED BY <1>3, <1>5, <2>1 DEF AI!IndexDoc, AI!Ops
  <1>6. ASSUME NEW m \in NewMemories, AI!SubmitSession(j, mine, m)
        PROVE  AI!TypeOK'
    <2>1. [AI!NoCall EXCEPT !.memory = m] \in AI!CallType
      BY SeedTypes, PlatformAssumption DEF AI!CallType, AI!ConsoleAssumption
    <2> QED BY <1>3, <1>6, <2>1 DEF AI!SubmitSession, AI!Ops
  <1>7. CASE AI!SubmitPrompt(j, mine)
    BY <1>3, <1>7, SeedTypes DEF AI!SubmitPrompt, AI!Ops
  <1> QED BY <1>1, <1>2, <1>4, <1>5, <1>6, <1>7 DEF AI!Clicks

LEMMA AnswerTypes ==
    ASSUME AI!TypeOK, NEW j \in Jobs, AI!UseAnswer(j) \/ AI!Fail(j)
    PROVE  AI!TypeOK'
  <1>0. AI!Concerns(aiCalls[j].op) \subseteq AI!Copies
    BY DEF AI!TypeOK, AI!CallType, AI!Concerns, AI!Ops, AI!Copies
  <1>1. CASE AI!Fail(j)
    BY <1>0, <1>1, EndTypes DEF AI!Fail, AI!TypeOK, AI!EngineTypeOK, AI!engine
  <1>2. CASE AI!UseAnswer(j)
    <2>1. PICK call \in AI!CallType : call = aiCalls[j]
      BY DEF AI!TypeOK
    <2>2. /\ call.session \in Sessions /\ call.config \in AI!GatewayConfig
          /\ call.memory \in AI!Memories
      BY DEF AI!CallType
    <2>3. shown' \in [Sessions -> AI!ChatSession]
      <3>1. [AI!NoSession EXCEPT !.exists = TRUE, !.memory = call.memory] \in AI!ChatSession
        BY <2>2, SeedTypes DEF AI!ChatSession
      <3>2. PICK old \in AI!ChatSession : old = shown[call.session]
        BY <2>2 DEF AI!TypeOK
      <3>3. AI!Says("model", j) \in AI!ChatMessage
        BY DEF AI!Says, AI!ChatMessage
      <3>4. Append(old.messages, AI!Says("model", j)) \in Seq(AI!ChatMessage)
        BY <3>3, SequenceFacts DEF AI!ChatSession
      <3>41. AI!Sums("routing", j) \in AI!Summary
        BY SummaryType
      <3>5. AI!Answered(old, j) \in AI!ChatSession
        BY <3>4, <3>41 DEF AI!ChatSession, AI!Answered
      <3>6. [shown EXCEPT ![call.session] = AI!Answered(@, j)]
              = [shown EXCEPT ![call.session] = AI!Answered(old, j)]
        BY <2>2, <3>2 DEF AI!TypeOK
      <3>7. \/ shown' = shown
            \/ shown' = [shown EXCEPT ![call.session] =
                           [AI!NoSession EXCEPT !.exists = TRUE, !.memory = call.memory]]
            \/ shown' = [shown EXCEPT ![call.session] = AI!Answered(@, j)]
        BY <1>2, <2>1 DEF AI!UseAnswer
      <3>8. shown \in [Sessions -> AI!ChatSession]
        BY DEF AI!TypeOK
      <3>9. CASE shown' = [shown EXCEPT ![call.session] =
                             [AI!NoSession EXCEPT !.exists = TRUE, !.memory = call.memory]]
        BY <2>2, <3>1, <3>8, <3>9
      <3>10. CASE shown' = [shown EXCEPT ![call.session] = AI!Answered(@, j)]
        <4>1. shown' = [shown EXCEPT ![call.session] = AI!Answered(old, j)]
          BY <3>6, <3>10
        <4> QED BY <2>2, <3>5, <3>8, <4>1
      <3> QED BY <3>7, <3>8, <3>9, <3>10
    <2>4. active' \subseteq Sessions /\ AI!Cardinality(active') <= 1
      <3>1. AI!Cardinality({call.session}) = 1
        BY FS_Singleton, Counted
      <3> QED BY <1>2, <2>1, <2>2, <3>1 DEF AI!UseAnswer, AI!TypeOK
    <2>5. config' \in AI!GatewayConfig /\ AI!End(j)
      BY <1>2, <2>1, <2>2 DEF AI!UseAnswer, AI!TypeOK
    <2>6. aiCalls' \in [Jobs -> AI!CallType] /\ spinning' \subseteq {"chat", "rag", "index"}
      BY <2>5, EndTypes
    <2> QED BY <1>2, <2>3, <2>4, <2>5, <2>6 DEF AI!UseAnswer, AI!TypeOK, AI!EngineTypeOK,
         AI!engine, AI!history
  <1> QED BY <1>1, <1>2

-----------------------------------------------------------------------------
(***************************************************************************)
(* What the server does in a step: nothing to the conversations and the    *)
(* log, or open a session, or start, move or end one request.              *)
(***************************************************************************)
SameJob(k) ==
    /\ jobs'[k].at = jobs[k].at /\ jobs'[k].kind = jobs[k].kind
    /\ jobs'[k].session = jobs[k].session /\ jobs'[k].answeredBy = jobs[k].answeredBy

Keeps ==
    gatewayLogs' = gatewayLogs /\ sessions' = sessions /\ \A k \in Jobs : SameJob(k)

OthersKeep(j) == \A k \in Jobs \ {j} : jobs'[k] = jobs[k]
OtherSessionsKeep(s) == \A t \in Sessions \ {s} : sessions'[t] = sessions[t]

Opens(s) ==
    /\ ~sessions[s].exists /\ sessions'[s].exists /\ sessions'[s].messages = <<>>
    /\ OtherSessionsKeep(s) /\ gatewayLogs' = gatewayLogs /\ \A k \in Jobs : SameJob(k)

\* One request moves, and is of a kind and in a session for good.
Works(j) ==
    /\ OthersKeep(j) /\ Placed(jobs'[j]) /\ jobs'[j].at # "free"
    /\ jobs[j].at # "free" =>
         jobs'[j].kind = jobs[j].kind /\ jobs'[j].session = jobs[j].session

Speaks(j, s, role) ==
    /\ sessions[s].exists => sessions'[s].exists
    /\ sessions'[s].messages = Append(sessions[s].messages, AI!Says(role, j))
    /\ OtherSessionsKeep(s)

Asks(j, s) ==
    /\ Works(j) /\ jobs[j].at = "free" /\ gatewayLogs' = gatewayLogs
    /\ jobs'[j].kind = "chat" /\ jobs'[j].session = s /\ jobs'[j].at # "done"
    /\ Speaks(j, s, "user") /\ sessions'[s].exists

Starts(j, kind) ==
    /\ Works(j) /\ jobs[j].at = "free" /\ gatewayLogs' = gatewayLogs /\ sessions' = sessions
    /\ jobs'[j].kind = kind /\ kind \in {"rag", "index"} /\ jobs'[j].at # "done"

Moves(j) ==
    /\ Works(j) /\ jobs[j].at \notin {"free", "done"} /\ jobs'[j].at # "done"
    /\ gatewayLogs' = gatewayLogs /\ sessions' = sessions

\* The entry of a request at the head of the log, and what it says of it.
IsLogged(j) ==
    /\ Len(gatewayLogs') >= 1 /\ Len(gatewayLogs') >= Len(gatewayLogs)
    /\ Len(gatewayLogs') <= Len(gatewayLogs) + 1
    /\ Len(gatewayLogs') < Len(gatewayLogs) + 1 => Len(gatewayLogs') = LogCap
    /\ gatewayLogs'[1].of = j
    /\ gatewayLogs'[1].status = "success" <=> jobs'[j].answeredBy # AI!NoModel
    /\ \A i \in 2..Len(gatewayLogs') : gatewayLogs'[i] = gatewayLogs[i - 1]

Ends(j) == Works(j) /\ jobs[j].at \notin {"free", "done"} /\ jobs'[j].at = "done"

Replies(j) ==
    Ends(j) /\ jobs[j].kind = "chat" /\ IsLogged(j) /\ Speaks(j, jobs[j].session, "model")

EndsRag(j) == Ends(j) /\ jobs[j].kind = "rag" /\ IsLogged(j) /\ sessions' = sessions
EndsIndex(j) ==
    /\ Ends(j) /\ jobs[j].kind = "index"
    /\ sessions' = sessions /\ gatewayLogs' = gatewayLogs

Closed(job, model, status, tried) ==
    [AI!Done(job) EXCEPT !.answeredBy = model, !.status = status, !.triedFailover = tried]

LEMMA DoneJob ==
    ASSUME NEW job \in AI!Job, job.at # "free", Placed(job)
    PROVE  /\ AI!Done(job) \in AI!Job /\ Placed(AI!Done(job)) /\ AI!Done(job).at = "done"
           /\ AI!Done(job).kind = job.kind /\ AI!Done(job).session = job.session
           /\ AI!Done(job).triedFailover = FALSE
  <1>1. PICK blank \in AI!Job : blank = AI!FreeJob
    BY SeedTypes
  <1>2. AI!Done(job) = [blank EXCEPT !.at = "done", !.kind = job.kind,
                                  !.session = job.session, !.offSince = job.offSince]
    BY <1>1 DEF AI!Done
  <1>3. PICK done \in AI!Job : done = AI!Done(job)
    BY <1>2 DEF AI!Job, AI!Places
  <1>4. done.at = "done" /\ done.kind = job.kind /\ done.session = job.session
    BY <1>2, <1>3 DEF AI!Job
  <1>5. done.triedFailover = FALSE
    BY <1>1, <1>2, <1>3 DEF AI!Job, AI!FreeJob
  <1>6. Placed(done)
    BY <1>4 DEF Placed
  <1> QED BY <1>3, <1>4, <1>5, <1>6

LEMMA EndedJob ==
    ASSUME NEW job \in AI!Job, job.at # "free", Placed(job),
           NEW model \in AI!Models \cup {AI!NoModel},
           NEW status \in AI!Statuses, NEW tried, tried \in BOOLEAN
    PROVE  /\ Closed(job, model, status, tried) \in AI!Job
           /\ Placed(Closed(job, model, status, tried))
           /\ Closed(job, model, status, tried).at = "done"
           /\ Closed(job, model, status, tried).kind = job.kind
           /\ Closed(job, model, status, tried).session = job.session
           /\ Closed(job, model, status, tried).answeredBy = model
  <1>1. PICK done \in AI!Job : done = AI!Done(job)
    BY DoneJob
  <1>2. done.at = "done" /\ done.kind = job.kind /\ done.session = job.session
    BY <1>1, DoneJob
  <1>3. PICK over \in AI!Job : over = [done EXCEPT !.answeredBy = model, !.status = status,
                                                !.triedFailover = tried]
    BY DEF AI!Job
  <1>4. /\ over.at = "done" /\ over.kind = job.kind
        /\ over.session = job.session /\ over.answeredBy = model
    BY <1>2, <1>3 DEF AI!Job
  <1>5. Placed(over)
    BY <1>2, <1>4 DEF Placed
  <1> QED BY <1>1, <1>3, <1>4, <1>5 DEF Closed

LEMMA ReplyKind ==
    ASSUME AI!TypeOK, NEW j \in Jobs, Placed(jobs[j]), jobs[j].kind = "chat",
           jobs[j].at \notin {"free", "done"},
           NEW model \in AI!Models \cup {AI!NoModel}, NEW status \in AI!Statuses,
           NEW tried, tried \in BOOLEAN, status = "success" <=> model # AI!NoModel,
           AI!Reply(j, model, status, tried)
    PROVE  Replies(j) /\ AI!EngineTypeOK'
  <1>1. PICK job \in AI!Job : job = jobs[j]
    BY DEF AI!TypeOK, AI!EngineTypeOK
  <1>2. job.session \in Sessions /\ job.model \in AI!Models
    BY DEF AI!Job
  <1>3. PICK old \in AI!ChatSession : old = sessions[job.session]
    BY <1>2 DEF AI!TypeOK, AI!EngineTypeOK
  <1> DEFINE messages == Append(old.messages, AI!Says("model", j))
             new == [old EXCEPT !.messages = messages,
                        !.summary = IF old.memory = "summary" /\ Len(messages) > 4
                                    THEN AI!Sums("recap", j) ELSE old.summary]
             over == Closed(job, model, status, tried)
  <1>4. messages \in Seq(AI!ChatMessage)
    <2>1. AI!Says("model", j) \in AI!ChatMessage
      BY DEF AI!Says, AI!ChatMessage
    <2> QED BY <2>1, SequenceFacts DEF AI!ChatSession
  <1>5. /\ sessions' = [sessions EXCEPT ![job.session] = new]
        /\ jobs' = [jobs EXCEPT ![j] = over]
        /\ AI!LogGatewayCall(j, job.model, status)
        /\ UNCHANGED <<gatewayConfig, prompts, vectors>>
    BY <1>1, <1>3 DEF AI!Reply, Closed
  <1>6. /\ over \in AI!Job /\ Placed(over) /\ over.at = "done" /\ over.kind = job.kind
        /\ over.session = job.session /\ over.answeredBy = model
    <2>1. job.at # "free"
      BY <1>1
    <2>2. Placed(job)
      BY <1>1
    <2> HIDE DEF messages, new
    <2>3. over \in AI!Job
      BY <2>1, <2>2, EndedJob
    <2>4. Placed(over)
      BY <2>1, <2>2, EndedJob
    <2>5. over.at = "done" /\ over.kind = job.kind
      BY <2>1, <2>2, EndedJob
    <2>6. over.session = job.session /\ over.answeredBy = model
      BY <2>1, <2>2, EndedJob
    <2> QED BY <2>3, <2>4, <2>5, <2>6
  <1> HIDE DEF over, messages
  <1>7. new \in AI!ChatSession /\ new.messages = messages /\ new.exists = old.exists
    BY <1>4, SummaryType DEF AI!ChatSession
  <1> HIDE DEF new
  <1>8. AI!EngineTypeOK'
    <2>1. gatewayLogs' \in Seq(AI!GatewayLog) /\ Len(gatewayLogs') <= LogCap
      BY <1>2, <1>5, LogTypes
    <2> QED BY <1>2, <1>5, <1>6, <1>7, <2>1 DEF AI!TypeOK, AI!EngineTypeOK
  <1>9. IsLogged(j)
    <2>1. /\ Len(gatewayLogs') >= Len(gatewayLogs) /\ Len(gatewayLogs') >= 1
          /\ Len(gatewayLogs') < Len(gatewayLogs) + 1 => Len(gatewayLogs') = LogCap
          /\ gatewayLogs'[1] = [of |-> j, model |-> job.model, status |-> status]
          /\ \A i \in 2..Len(gatewayLogs') : gatewayLogs'[i] = gatewayLogs[i - 1]
          /\ Len(gatewayLogs') <= Len(gatewayLogs) + 1
      BY <1>2, <1>5, LogTypes
    <2>2. jobs'[j] = over
      BY <1>5 DEF AI!TypeOK, AI!EngineTypeOK
    <2> QED BY <1>6, <2>1, <2>2 DEF IsLogged
  <1>10. Ends(j)
    BY <1>1, <1>5, <1>6 DEF Ends, Works, OthersKeep, AI!TypeOK, AI!EngineTypeOK
  <1>11. Speaks(j, job.session, "model")
    BY <1>1, <1>2, <1>3, <1>5, <1>7 DEF Speaks, OtherSessionsKeep, messages, AI!TypeOK,
       AI!EngineTypeOK
  <1> QED BY <1>1, <1>8, <1>9, <1>10, <1>11 DEF Replies

LEMMA GoKind ==
    ASSUME AI!TypeOK, NEW j \in Jobs, NEW job \in AI!Job, AI!Go(j, job), Placed(job),
           jobs[j].at \notin {"free", "done"}, job.at \notin {"free", "done"},
           job.kind = jobs[j].kind, job.session = jobs[j].session
    PROVE  Moves(j) /\ AI!EngineTypeOK'
  BY DEF AI!Go, Moves, Works, OthersKeep, AI!TypeOK, AI!EngineTypeOK

LEMMA RagEndKind ==
    ASSUME AI!TypeOK, NEW j \in Jobs, Placed(jobs[j]), jobs[j].kind = "rag",
           jobs[j].at \notin {"free", "done"},
           NEW model \in AI!Models \cup {AI!NoModel}, NEW status \in AI!Statuses,
           status = "success" <=> model # AI!NoModel, AI!RagEnd(j, model, status)
    PROVE  EndsRag(j) /\ AI!EngineTypeOK'
  <1>1. PICK job \in AI!Job : job = jobs[j]
    BY DEF AI!TypeOK, AI!EngineTypeOK
  <1>2. job.model \in AI!Models /\ job.at # "free" /\ Placed(job)
    BY <1>1 DEF AI!Job
  <1>3. PICK done \in AI!Job : done = AI!Done(job)
    BY <1>2, DoneJob
  <1>4. done.at = "done" /\ done.kind = job.kind /\ done.session = job.session
    BY <1>2, <1>3, DoneJob
  <1>5. PICK over \in AI!Job : over = [done EXCEPT !.answeredBy = model, !.status = status]
    BY DEF AI!Job
  <1>6. /\ over.at = "done" /\ over.kind = job.kind
        /\ over.session = job.session /\ over.answeredBy = model
    BY <1>4, <1>5 DEF AI!Job
  <1>7. Placed(over)
    BY <1>2, <1>6 DEF Placed
  <1>8. /\ jobs' = [jobs EXCEPT ![j] = over] /\ AI!LogGatewayCall(j, job.model, status)
        /\ UNCHANGED <<gatewayConfig, sessions, prompts, vectors>>
    BY <1>1, <1>3, <1>5 DEF AI!RagEnd
  <1>9. /\ gatewayLogs' \in Seq(AI!GatewayLog) /\ Len(gatewayLogs') <= LogCap
        /\ Len(gatewayLogs') >= Len(gatewayLogs) /\ Len(gatewayLogs') >= 1
        /\ Len(gatewayLogs') < Len(gatewayLogs) + 1 => Len(gatewayLogs') = LogCap
        /\ gatewayLogs'[1] = [of |-> j, model |-> job.model, status |-> status]
        /\ \A i \in 2..Len(gatewayLogs') : gatewayLogs'[i] = gatewayLogs[i - 1]
        /\ Len(gatewayLogs') <= Len(gatewayLogs) + 1
    BY <1>2, <1>8, LogTypes
  <1>10. AI!EngineTypeOK'
    BY <1>8, <1>9 DEF AI!TypeOK, AI!EngineTypeOK
  <1>11. jobs'[j] = over
    BY <1>8 DEF AI!TypeOK, AI!EngineTypeOK
  <1>12. IsLogged(j)
    BY <1>6, <1>9, <1>11 DEF IsLogged
  <1>13. Ends(j)
    BY <1>1, <1>6, <1>7, <1>8, <1>11 DEF Ends, Works, OthersKeep, AI!TypeOK, AI!EngineTypeOK
  <1> QED BY <1>8, <1>10, <1>12, <1>13 DEF EndsRag

LEMMA WorkKind ==
    ASSUME AI!TypeOK, NEW j \in Jobs, Placed(jobs[j]), AI!Work(j)
    PROVE  (Moves(j) \/ Replies(j) \/ EndsRag(j) \/ EndsIndex(j)) /\ AI!EngineTypeOK'
  <1>0. PICK job \in AI!Job : job = jobs[j]
    BY DEF AI!TypeOK, AI!EngineTypeOK
  <1>01. job.model \in AI!Models /\ job.backup \in AI!Models /\ Placed(job) /\ job.text \in AI!Texts
    BY <1>0 DEF AI!Job
  <1>02. "success" \in AI!Statuses /\ "failed" \in AI!Statuses /\ AI!NoModel \notin AI!Models
    BY SeedTypes DEF AI!Statuses
  <1>1. CASE AI!PrimaryAnswers(j)
    <2>1. /\ job.at = "primary" /\ job.kind = "chat"
          /\ AI!Reply(j, job.model, "success", FALSE)
      BY <1>0, <1>01, <1>1 DEF AI!PrimaryAnswers, Placed
    <2> QED BY <1>0, <1>01, <1>02, <2>1, ReplyKind
  <1>2. CASE AI!PrimaryFails(j)
    <2>1. job.at = "primary" /\ job.kind = "chat"
      BY <1>0, <1>01, <1>2 DEF AI!PrimaryFails, Placed
    <2>2. CASE gatewayConfig.failoverEnabled
      <3>1. PICK next \in AI!Job :
              next = [job EXCEPT !.at = "failover", !.backup = gatewayConfig.failoverModel]
        BY DEF AI!Job, AI!Places, AI!TypeOK, AI!EngineTypeOK, AI!GatewayConfig
      <3>2. next.at = "failover" /\ next.kind = "chat" /\ next.session = job.session
        BY <2>1, <3>1 DEF AI!Job
      <3>3. Placed(next)
        BY <3>2 DEF Placed
      <3>4. AI!Go(j, next)
        BY <1>0, <1>2, <2>2, <3>1 DEF AI!PrimaryFails, AI!Go
      <3> QED BY <1>0, <2>1, <3>2, <3>3, <3>4, GoKind
    <2>3. CASE ~gatewayConfig.failoverEnabled
      <3>1. AI!Reply(j, AI!NoModel, "failed", FALSE)
        BY <1>2, <2>3 DEF AI!PrimaryFails
      <3> QED BY <1>0, <1>02, <2>1, <3>1, ReplyKind
    <2> QED BY <2>2, <2>3
  <1>3. CASE AI!FailoverEnds(j)
    <2>1. job.at = "failover" /\ job.kind = "chat"
      BY <1>0, <1>01, <1>3 DEF AI!FailoverEnds, Placed
    <2>2. CASE AI!Reply(j, job.backup, "success", TRUE)
      BY <1>0, <1>01, <1>02, <2>1, <2>2, ReplyKind
    <2>3. CASE AI!Reply(j, AI!NoModel, "failed", TRUE)
      BY <1>0, <1>02, <2>1, <2>3, ReplyKind
    <2> QED BY <1>0, <1>3, <2>2, <2>3 DEF AI!FailoverEnds
  <1>4. CASE jobs[j].kind = "chat" /\ AI!SimulationEnds(j)
    <2>1. job.at = "simulated" /\ job.kind = "chat"
      BY <1>0, <1>4 DEF AI!SimulationEnds
    <2>2. CASE AI!Reply(j, job.model, "success", FALSE)
      BY <1>0, <1>01, <1>02, <2>1, <2>2, ReplyKind
    <2>3. CASE AI!Reply(j, AI!NoModel, "failed", FALSE)
      BY <1>0, <1>02, <2>1, <2>3, ReplyKind
    <2> QED BY <1>0, <1>4, <2>2, <2>3 DEF AI!SimulationEnds
  <1>5. CASE AI!RagAuthorized(j)
    <2>1. job.at = "auth" /\ job.kind = "rag" /\ AI!Go(j, [job EXCEPT !.at = "encode"])
      BY <1>0, <1>01, <1>5 DEF AI!RagAuthorized, Placed
    <2>2. PICK next \in AI!Job : next = [job EXCEPT !.at = "encode"]
      BY DEF AI!Job, AI!Places
    <2>3. next.at = "encode" /\ next.kind = "rag" /\ next.session = job.session
      BY <2>1, <2>2 DEF AI!Job
    <2>4. Placed(next)
      BY <2>3 DEF Placed
    <2> QED BY <1>0, <2>1, <2>2, <2>3, <2>4, GoKind
  <1>6. CASE AI!RagLookup(j)
    <2>1. job.at = "encode" /\ job.kind = "rag"
      BY <1>0, <1>01, <1>6 DEF AI!RagLookup, Placed
    <2>2. PICK encoder \in AI!Encoders, hits \in SUBSET Documents :
            AI!Go(j, [job EXCEPT !.at = "lookup", !.hits = hits, !.encoder = encoder])
      BY <1>0, <1>6 DEF AI!RagLookup
    <2>3. PICK next \in AI!Job :
            next = [job EXCEPT !.at = "lookup", !.hits = hits, !.encoder = encoder]
      BY DEF AI!Job, AI!Places
    <2>4. next.at = "lookup" /\ next.kind = "rag" /\ next.session = job.session
      BY <2>1, <2>3 DEF AI!Job
    <2>5. Placed(next)
      BY <2>4 DEF Placed
    <2> QED BY <1>0, <2>1, <2>2, <2>3, <2>4, <2>5, GoKind
  <1>7. CASE AI!RagHydrate(j)
    <2>1. job.at = "lookup" /\ job.kind = "rag" /\ AI!Go(j, [job EXCEPT !.at = "hydrate"])
      BY <1>0, <1>01, <1>7 DEF AI!RagHydrate, Placed
    <2>2. PICK next \in AI!Job : next = [job EXCEPT !.at = "hydrate"]
      BY DEF AI!Job, AI!Places
    <2>3. next.at = "hydrate" /\ next.kind = "rag" /\ next.session = job.session
      BY <2>1, <2>2 DEF AI!Job
    <2>4. Placed(next)
      BY <2>3 DEF Placed
    <2> QED BY <1>0, <2>1, <2>2, <2>3, <2>4, GoKind
  <1>8. CASE AI!RagRoute(j)
    <2>1. job.at = "hydrate" /\ job.kind = "rag"
      BY <1>0, <1>01, <1>8 DEF AI!RagRoute, Placed
    <2>2. PICK model \in AI!Models : model = AI!ResolveModelRouting(job.text, gatewayConfig).model
      BY <1>01, RoutedModel DEF AI!TypeOK, AI!EngineTypeOK
    <2>3. PICK place \in {"execute", "simulated"} :
            AI!Go(j, [job EXCEPT !.model = model, !.at = place])
      BY <1>0, <1>8, <2>2 DEF AI!RagRoute
    <2>4. PICK next \in AI!Job : next = [job EXCEPT !.model = model, !.at = place]
      BY DEF AI!Job, AI!Places
    <2>5. next.at = place /\ next.kind = "rag" /\ next.session = job.session
      BY <2>1, <2>4 DEF AI!Job
    <2>6. Placed(next)
      BY <2>5 DEF Placed
    <2> QED BY <1>0, <2>1, <2>3, <2>4, <2>5, <2>6, GoKind
  <1>9. CASE AI!RagExecuted(j)
    <2>1. job.kind = "rag" /\ job.at \in {"execute", "simulated"}
      BY <1>0, <1>9 DEF AI!RagExecuted
    <2>2. CASE AI!RagEnd(j, job.model, "success")
      BY <1>0, <1>01, <1>02, <2>1, <2>2, RagEndKind
    <2>3. CASE AI!RagEnd(j, AI!NoModel, "failed")
      BY <1>0, <1>02, <2>1, <2>3, RagEndKind
    <2> QED BY <1>0, <1>9, <2>2, <2>3 DEF AI!RagExecuted
  <1>10. CASE AI!Indexed(j)
    <2>1. job.at = "index" /\ job.kind = "index"
      BY <1>0, <1>01, <1>10 DEF AI!Indexed, Placed
    <2>2. PICK encoder \in AI!Encoders :
            /\ vectors' = [vectors EXCEPT ![job.doc] = encoder]
            /\ jobs' = [jobs EXCEPT ![j] = AI!Done(job)]
            /\ UNCHANGED <<gatewayConfig, gatewayLogs, sessions, prompts>>
      BY <1>0, <1>10 DEF AI!Indexed
    <2>3. PICK done \in AI!Job : done = AI!Done(job)
      BY <1>01, <2>1, DoneJob
    <2>4. done.at = "done" /\ done.kind = job.kind /\ done.session = job.session
          /\ Placed(done)
      BY <1>01, <2>1, <2>3, DoneJob
    <2>5. AI!EngineTypeOK'
      BY <2>2, <2>3 DEF AI!TypeOK, AI!EngineTypeOK
    <2>6. Ends(j)
      BY <1>0, <2>1, <2>2, <2>3, <2>4 DEF Ends, Works, OthersKeep, AI!TypeOK, AI!EngineTypeOK
    <2> QED BY <1>0, <2>1, <2>2, <2>5, <2>6 DEF EndsIndex
  <1> QED BY <1>1, <1>2, <1>3, <1>4, <1>5, <1>6, <1>7, <1>8, <1>9, <1>10 DEF AI!Work

\* A call goes on to its next stage, about the session s.
Advances(j, stage, s) ==
    /\ aiCalls'[j].stage = stage /\ aiCalls'[j].session = s
    /\ aiCalls'[j].op = aiCalls[j].op /\ aiCalls'[j].mine = aiCalls[j].mine
    /\ aiCalls'[j].config = aiCalls[j].config /\ aiCalls'[j].doc = aiCalls[j].doc
    /\ \A k \in Jobs \ {j} : aiCalls'[k] = aiCalls[k]

\* How the server takes a call.
Serves(j) ==
    LET asked == aiCalls[j] IN
    \/ /\ asked.op = "config" /\ Keeps /\ gatewayConfig' = asked.config /\ crowded' = crowded
       /\ Advances(j, "served", asked.session)
    \/ /\ asked.op = "prompt" /\ Keeps /\ gatewayConfig' = gatewayConfig /\ crowded' = crowded
       /\ Advances(j, "served", asked.session)
    \/ \E s \in Sessions :
         /\ asked.op = "session" /\ Opens(s) /\ gatewayConfig' = gatewayConfig
         /\ crowded' = crowded /\ Advances(j, "served", s)
    \/ /\ asked.op = "chat" /\ Asks(j, asked.session) /\ gatewayConfig' = gatewayConfig
       /\ IF \E k \in Jobs : jobs[k].kind = "chat" /\ jobs[k].at # "done"
                               /\ jobs[k].session = asked.session
          THEN crowded' = crowded \cup {asked.session} ELSE crowded' = crowded
       /\ Advances(j, "working", asked.session)
    \/ /\ asked.op \in {"rag", "index"} /\ Starts(j, asked.op)
       /\ gatewayConfig' = gatewayConfig /\ crowded' = crowded
       /\ Advances(j, "working", asked.session)

LEMMA AdvanceFacts ==
    ASSUME AI!TypeOK, NEW j \in Jobs, NEW stage \in AI!Stages, NEW s \in Sessions,
           aiCalls' = [aiCalls EXCEPT ![j] = [aiCalls[j] EXCEPT !.stage = stage, !.session = s]]
    PROVE  Advances(j, stage, s) /\ aiCalls' \in [Jobs -> AI!CallType]
  <1>1. PICK call \in AI!CallType : call = aiCalls[j]
    BY DEF AI!TypeOK
  <1>2. PICK next \in AI!CallType : next = [call EXCEPT !.stage = stage, !.session = s]
    BY DEF AI!CallType
  <1>3. /\ next.stage = stage /\ next.session = s /\ next.op = call.op
        /\ next.mine = call.mine /\ next.config = call.config /\ next.doc = call.doc
    BY <1>2 DEF AI!CallType
  <1>4. aiCalls' = [aiCalls EXCEPT ![j] = next]
    BY <1>1, <1>2
  <1> QED BY <1>1, <1>3, <1>4 DEF Advances, AI!TypeOK

LEMMA HandledFacts ==
    ASSUME AI!TypeOK, NEW j \in Jobs, NEW stage \in AI!Stages, AI!Handled(j, stage)
    PROVE  Advances(j, stage, aiCalls[j].session) /\ aiCalls' \in [Jobs -> AI!CallType]
  <1>1. PICK call \in AI!CallType : call = aiCalls[j]
    BY DEF AI!TypeOK
  <1>2. [call EXCEPT !.stage = stage] = [call EXCEPT !.stage = stage, !.session = call.session]
    BY DEF AI!CallType
  <1>3. aiCalls' = [aiCalls EXCEPT ![j] = [aiCalls[j] EXCEPT !.stage = stage]]
    BY DEF AI!Handled
  <1>4. aiCalls[j].session \in Sessions
    BY <1>1 DEF AI!CallType
  <1>5. aiCalls' = [aiCalls EXCEPT ![j] =
                    [aiCalls[j] EXCEPT !.stage = stage, !.session = aiCalls[j].session]]
    BY <1>1, <1>2, <1>3
  <1> QED BY <1>4, <1>5, AdvanceFacts

LEMMA StartChatKind ==
    ASSUME AI!TypeOK, NEW j \in Jobs, NEW s \in Sessions, NEW text \in AI!Texts,
           NEW override \in AI!Models \cup {AI!NoModel}, AI!StartChat(j, s, text, override)
    PROVE  Asks(j, s) /\ AI!EngineTypeOK' /\ gatewayConfig' = gatewayConfig
  <1>1. PICK old \in AI!ChatSession : old = sessions[s]
    BY DEF AI!TypeOK, AI!EngineTypeOK
  <1>2. Append(old.messages, AI!Says("user", j)) \in Seq(AI!ChatMessage)
    <2>1. AI!Says("user", j) \in AI!ChatMessage
      BY DEF AI!Says, AI!ChatMessage
    <2> QED BY <2>1, SequenceFacts DEF AI!ChatSession
  <1>3. PICK session \in AI!ChatSession :
          session = [old EXCEPT !.exists = TRUE,
                                !.messages = Append(old.messages, AI!Says("user", j))]
    BY <1>2 DEF AI!ChatSession
  <1>4. session.exists /\ session.messages = Append(old.messages, AI!Says("user", j))
    BY <1>3 DEF AI!ChatSession
  <1>5. AI!Context(session) \in Seq(AI!ChatMessage)
    BY ContextType
  <1>6. PICK model \in AI!Models : model = AI!Routing(text, override).model
    BY ChosenModel DEF AI!TypeOK, AI!EngineTypeOK
  <1>7. PICK blank \in AI!Job : blank = AI!FreeJob
    BY SeedTypes
  <1>8. gatewayConfig.failoverEnabled \in BOOLEAN
    BY DEF AI!TypeOK, AI!EngineTypeOK, AI!GatewayConfig
  <1>9. PICK place \in {"primary", "simulated"} :
          /\ jobs[j].at = "free"
          /\ sessions' = [sessions EXCEPT ![s] = session]
          /\ jobs' = [jobs EXCEPT ![j] =
               [blank EXCEPT !.kind = "chat", !.session = s, !.text = text,
                  !.model = model, !.context = AI!Context(session),
                  !.offSince = ~gatewayConfig.failoverEnabled, !.at = place]]
          /\ UNCHANGED <<gatewayConfig, gatewayLogs, prompts, vectors>>
    BY <1>1, <1>3, <1>6, <1>7 DEF AI!StartChat
  <1>10. PICK job \in AI!Job :
           job = [blank EXCEPT !.kind = "chat", !.session = s, !.text = text,
                    !.model = model, !.context = AI!Context(session),
                    !.offSince = ~gatewayConfig.failoverEnabled, !.at = place]
    BY <1>5, <1>8 DEF AI!Job, AI!Places
  <1>11. job.kind = "chat" /\ job.session = s /\ job.at = place
    BY <1>10 DEF AI!Job
  <1>12. Placed(job)
    BY <1>11 DEF Placed
  <1>13. jobs' = [jobs EXCEPT ![j] = job]
    BY <1>9, <1>10
  <1>14. AI!EngineTypeOK'
    BY <1>9, <1>13 DEF AI!TypeOK, AI!EngineTypeOK
  <1>15. Works(j)
    BY <1>9, <1>11, <1>12, <1>13 DEF Works, OthersKeep, AI!TypeOK, AI!EngineTypeOK
  <1>16. Speaks(j, s, "user") /\ sessions'[s].exists
    BY <1>1, <1>4, <1>9 DEF Speaks, OtherSessionsKeep, AI!TypeOK, AI!EngineTypeOK
  <1>17. jobs'[j] = job
    BY <1>13 DEF AI!TypeOK, AI!EngineTypeOK
  <1> QED BY <1>9, <1>11, <1>14, <1>15, <1>16, <1>17 DEF Asks

LEMMA StartKind ==
    ASSUME AI!TypeOK, NEW j \in Jobs, NEW job \in AI!Job, jobs[j].at = "free", AI!Go(j, job),
           Placed(job), NEW kind \in {"rag", "index"}, job.kind = kind,
           job.at \notin {"free", "done"}
    PROVE  Starts(j, kind) /\ AI!EngineTypeOK' /\ gatewayConfig' = gatewayConfig
  BY DEF AI!Go, Starts, Works, OthersKeep, AI!TypeOK, AI!EngineTypeOK

LEMMA ServeKind ==
    ASSUME AI!TypeOK, NEW j \in Jobs, JobFits(j), AI!Serve(j)
    PROVE  /\ Serves(j) /\ AI!EngineTypeOK' /\ aiCalls' \in [Jobs -> AI!CallType]
           /\ crowded' \subseteq Sessions
  <1>0. PICK call \in AI!CallType : call = aiCalls[j]
    BY DEF AI!TypeOK
  <1>01. /\ call.stage = "sent" /\ call.session \in Sessions /\ call.config \in AI!GatewayConfig
         /\ call.text \in AI!Texts /\ call.memory \in AI!Memories
         /\ call.override \in AI!Models \cup {AI!NoModel}
    BY <1>0 DEF AI!CallType, AI!Serve
  <1>1. CASE AI!ServeConfig(j)
    <2>1. /\ call.op = "config" /\ AI!UpdateConfig(call.config) /\ AI!Handled(j, "served")
          /\ crowded' = crowded
      BY <1>0, <1>1 DEF AI!ServeConfig
    <2>2. /\ Advances(j, "served", call.session) /\ aiCalls' \in [Jobs -> AI!CallType]
      BY <1>0, <2>1, HandledFacts DEF AI!Stages
    <2>3. call.config.failoverEnabled \in BOOLEAN
      BY <1>01 DEF AI!GatewayConfig
    <2>4. ASSUME NEW k \in Jobs
          PROVE  jobs'[k] \in AI!Job /\ SameJob(k)
      <3>1. PICK job \in AI!Job : job = jobs[k]
        BY DEF AI!TypeOK, AI!EngineTypeOK
      <3>2. jobs'[k] = [job EXCEPT !.offSince = job.offSince \/ ~call.config.failoverEnabled]
        BY <2>1, <3>1 DEF AI!UpdateConfig
      <3> QED BY <2>3, <3>1, <3>2 DEF AI!Job, SameJob
    <2>5. jobs' \in [Jobs -> AI!Job]
      BY <2>1, <2>4 DEF AI!UpdateConfig
    <2>6. AI!EngineTypeOK'
      BY <1>01, <2>1, <2>5 DEF AI!UpdateConfig, AI!TypeOK, AI!EngineTypeOK
    <2>7. Keeps /\ gatewayConfig' = call.config
      BY <2>1, <2>4 DEF Keeps, AI!UpdateConfig
    <2> QED BY <1>0, <2>1, <2>2, <2>6, <2>7 DEF Serves, AI!TypeOK
  <1>2. CASE AI!ServePrompt(j)
    <2>1. /\ call.op = "prompt" /\ AI!Handled(j, "served") /\ crowded' = crowded
          /\ \E p \in Prompts : AI!CreatePrompt(p)
      BY <1>0, <1>2 DEF AI!ServePrompt
    <2>2. /\ Advances(j, "served", call.session) /\ aiCalls' \in [Jobs -> AI!CallType]
      BY <1>0, <2>1, HandledFacts DEF AI!Stages
    <2>3. Keeps /\ gatewayConfig' = gatewayConfig
      BY <2>1 DEF Keeps, SameJob, AI!CreatePrompt
    <2>4. AI!EngineTypeOK'
      BY <2>1 DEF AI!CreatePrompt, AI!TypeOK, AI!EngineTypeOK
    <2> QED BY <1>0, <2>1, <2>2, <2>3, <2>4 DEF Serves, AI!TypeOK
  <1>3. CASE AI!ServeSession(j)
    <2>1. PICK s \in Sessions :
            /\ call.op = "session" /\ AI!CreateSession(s, call.memory) /\ crowded' = crowded
            /\ aiCalls' = [aiCalls EXCEPT ![j] =
                 [aiCalls[j] EXCEPT !.stage = "served", !.session = s]]
      BY <1>0, <1>3 DEF AI!ServeSession
    <2>2. /\ Advances(j, "served", s) /\ aiCalls' \in [Jobs -> AI!CallType]
      BY <2>1, AdvanceFacts DEF AI!Stages
    <2>31. PICK blank \in AI!ChatSession : blank = AI!NoSession
      BY SeedTypes
    <2>3. PICK new \in AI!ChatSession : new = [blank EXCEPT !.exists = TRUE, !.memory = call.memory]
      BY <1>01 DEF AI!ChatSession
    <2>4. new.exists /\ new.messages = <<>>
      BY <2>3, <2>31 DEF AI!NoSession
    <2>5. /\ sessions' = [sessions EXCEPT ![s] = new] /\ ~sessions[s].exists
          /\ UNCHANGED <<gatewayConfig, gatewayLogs, prompts, vectors, jobs>>
      BY <2>1, <2>3, <2>31 DEF AI!CreateSession
    <2>6. AI!EngineTypeOK'
      BY <2>5 DEF AI!TypeOK, AI!EngineTypeOK
    <2>7. Opens(s)
      BY <2>4, <2>5 DEF Opens, OtherSessionsKeep, SameJob, AI!TypeOK, AI!EngineTypeOK
    <2> QED BY <1>0, <2>1, <2>2, <2>5, <2>6, <2>7 DEF Serves, AI!TypeOK
  <1>4. CASE AI!ServeJob(j)
    <2>1. AI!Handled(j, "working") /\ aiCalls[j].stage = "sent"
      BY <1>4 DEF AI!ServeJob, AI!Serve
    <2>2. /\ Advances(j, "working", call.session) /\ aiCalls' \in [Jobs -> AI!CallType]
      BY <1>0, <2>1, HandledFacts DEF AI!Stages
    <2>3. CASE /\ call.op = "chat"
               /\ AI!StartChat(j, call.session, call.text, call.override)
               /\ crowded' = IF \E k \in Jobs : /\ jobs[k].kind = "chat"
                                                /\ jobs[k].at # "done"
                                                /\ jobs[k].session = call.session
                             THEN crowded \cup {call.session} ELSE crowded
      <3>1. Asks(j, call.session) /\ AI!EngineTypeOK' /\ gatewayConfig' = gatewayConfig
        BY <1>01, <2>3, StartChatKind
      <3>2. crowded' \subseteq Sessions
        BY <1>01, <2>3 DEF AI!TypeOK
      <3> QED BY <1>0, <2>2, <2>3, <3>1, <3>2 DEF Serves
    <2>4. CASE call.op = "rag" /\ AI!StartRag(j, call.text) /\ UNCHANGED crowded
      <3>1. PICK blank \in AI!Job : blank = AI!FreeJob
        BY SeedTypes
      <3>2. gatewayConfig.failoverEnabled \in BOOLEAN
        BY DEF AI!TypeOK, AI!EngineTypeOK, AI!GatewayConfig
      <3>3. PICK job \in AI!Job :
              job = [blank EXCEPT !.at = "auth", !.kind = "rag", !.text = call.text,
                                  !.offSince = ~gatewayConfig.failoverEnabled]
        BY <1>01, <3>2 DEF AI!Job, AI!Places
      <3>4. job.kind = "rag" /\ job.at = "auth"
        BY <3>3 DEF AI!Job
      <3>5. Placed(job)
        BY <3>4 DEF Placed
      <3>6. jobs[j].at = "free" /\ AI!Go(j, job)
        BY <2>4, <3>1, <3>3 DEF AI!StartRag
      <3>7. Starts(j, "rag") /\ AI!EngineTypeOK' /\ gatewayConfig' = gatewayConfig
        BY <3>4, <3>5, <3>6, StartKind
      <3> QED BY <1>0, <2>2, <2>4, <3>7 DEF Serves, AI!TypeOK
    <2>5. CASE call.op = "index" /\ AI!StartIndex(j, call.doc) /\ UNCHANGED crowded
      <3>1. PICK blank \in AI!Job : blank = AI!FreeJob
        BY SeedTypes
      <3>2. call.doc \in Documents \cup {0}
        BY <1>0 DEF AI!CallType
      <3>3. PICK job \in AI!Job :
              job = [blank EXCEPT !.at = "index", !.kind = "index", !.doc = call.doc]
        BY <3>2 DEF AI!Job, AI!Places
      <3>4. job.kind = "index" /\ job.at = "index"
        BY <3>3 DEF AI!Job
      <3>5. Placed(job)
        BY <3>4 DEF Placed
      <3>6. jobs[j].at = "free" /\ AI!Go(j, job)
        BY <2>5, <3>1, <3>3 DEF AI!StartIndex
      <3>7. Starts(j, "index") /\ AI!EngineTypeOK' /\ gatewayConfig' = gatewayConfig
        BY <3>4, <3>5, <3>6, StartKind
      <3> QED BY <1>0, <2>2, <2>5, <3>7 DEF Serves, AI!TypeOK
    <2> QED BY <1>0, <1>4, <2>3, <2>4, <2>5 DEF AI!ServeJob
  <1> QED BY <1>1, <1>2, <1>3, <1>4 DEF AI!Serve

LEMMA ServerTypes ==
    ASSUME AI!TypeOK, NEW j \in Jobs, JobFits(j), AI!Serve(j) \/ AI!WorkOn(j)
    PROVE  AI!TypeOK'
  <1>1. CASE AI!Serve(j)
    <2>1. UNCHANGED <<AI!console, wanted, aiRaced>>
      BY <1>1 DEF AI!Serve
    <2> QED BY <1>1, <2>1, ServeKind DEF AI!TypeOK, AI!console
  <1>2. CASE AI!WorkOn(j)
    <2>1. AI!EngineTypeOK'
      BY <1>2, WorkKind DEF AI!WorkOn, JobFits
    <2>2. aiCalls' \in [Jobs -> AI!CallType]
      <3>1. PICK call \in AI!CallType : call = aiCalls[j]
        BY DEF AI!TypeOK
      <3>2. [call EXCEPT !.stage = "served"] \in AI!CallType
        BY DEF AI!CallType, AI!Stages
      <3> QED BY <1>2, <3>1, <3>2 DEF AI!WorkOn, AI!TypeOK
    <2>3. UNCHANGED <<AI!console, AI!history>>
      BY <1>2 DEF AI!WorkOn
    <2> QED BY <2>1, <2>2, <2>3 DEF AI!TypeOK, AI!console, AI!history
  <1> QED BY <1>1, <1>2

-----------------------------------------------------------------------------
(* What the page does in a step. *)

OtherCallsKeep(j) == \A k \in Jobs \ {j} : aiCalls'[k] = aiCalls[k]

\* A call begins, about what it changes on the page at once.
Clicked(j) ==
    LET asks == aiCalls'[j] IN
    /\ UNCHANGED <<AI!engine, config, fetches, aiLoaded, crowded>>
    /\ aiCalls[j].stage = "unused" /\ asks.stage = "sent" /\ OtherCallsKeep(j)
    /\ aiRaced' = aiRaced \cup
         {copy \in AI!Concerns(asks.op) : AI!Busy(copy) \/ copy \notin aiLoaded \/ ~asks.mine}
    /\ asks.op # "config" => wanted' = wanted
    /\ asks.op # "chat" => shown' = shown
    /\ asks.op = "config" =>
         \E setting \in Settings :
           /\ asks.config = [config EXCEPT ![setting.field] = setting.value]
           /\ wanted' = [wanted EXCEPT ![setting.field] = setting.value]
    /\ asks.op = "chat" =>
         /\ asks.session \in Sessions /\ sessions[asks.session].exists
         /\ shown' = IF asks.mine /\ shown[asks.session].exists
                     THEN [shown EXCEPT ![asks.session].messages =
                             Append(shown[asks.session].messages, AI!Says("user", j))]
                     ELSE shown
    /\ asks.op = "index" => asks.doc \in Documents

LEMMA CallBegins ==
    ASSUME AI!TypeOK, NEW j \in Jobs, NEW mine, mine \in BOOLEAN, NEW op \in AI!Ops,
           NEW call \in AI!CallType, AI!Begin(j, mine, op, call)
    PROVE  /\ aiCalls[j].stage = "unused" /\ aiCalls'[j].stage = "sent" /\ OtherCallsKeep(j)
           /\ aiCalls'[j].op = op /\ aiCalls'[j].mine = mine
           /\ aiCalls'[j].config = call.config /\ aiCalls'[j].session = call.session
           /\ aiCalls'[j].doc = call.doc
           /\ aiRaced' = aiRaced \cup
                {copy \in AI!Concerns(op) : AI!Busy(copy) \/ copy \notin aiLoaded \/ ~mine}
  <1>1. PICK new \in AI!CallType : new = [call EXCEPT !.op = op, !.stage = "sent", !.mine = mine]
    BY DEF AI!CallType, AI!Stages
  <1>2. /\ new.stage = "sent" /\ new.op = op /\ new.mine = mine /\ new.config = call.config
        /\ new.session = call.session /\ new.doc = call.doc
    BY <1>1 DEF AI!CallType
  <1>3. aiCalls[j].stage = "unused" /\ aiCalls' = [aiCalls EXCEPT ![j] = new]
    BY <1>1 DEF AI!Begin
  <1>4. aiRaced' = aiRaced \cup
          {copy \in AI!Concerns(op) : AI!Busy(copy) \/ copy \notin aiLoaded \/ ~mine}
    BY DEF AI!Begin
  <1>5. aiCalls'[j] = new /\ OtherCallsKeep(j)
    BY <1>3 DEF OtherCallsKeep, AI!TypeOK
  <1> QED BY <1>2, <1>3, <1>4, <1>5

LEMMA SubmitKind ==
    ASSUME AI!TypeOK, NEW j \in Jobs, NEW mine, mine \in BOOLEAN,
           NEW op \in {"session", "prompt", "rag", "index"},
           NEW call \in AI!CallType, op = "index" => call.doc \in Documents,
           AI!Submit(j, mine, op, call)
    PROVE  Clicked(j)
  <1>1. AI!Begin(j, mine, op, call) /\ op \in AI!Ops
    BY DEF AI!Submit, AI!Ops
  <1>2. UNCHANGED <<AI!engine, config, shown, fetches, aiLoaded, wanted, crowded>>
    BY DEF AI!Submit
  <1>3. /\ aiCalls[j].stage = "unused" /\ aiCalls'[j].stage = "sent" /\ OtherCallsKeep(j)
        /\ aiCalls'[j].op = op /\ aiCalls'[j].mine = mine /\ aiCalls'[j].doc = call.doc
        /\ aiRaced' = aiRaced \cup
             {copy \in AI!Concerns(op) : AI!Busy(copy) \/ copy \notin aiLoaded \/ ~mine}
    BY <1>1, CallBegins
  <1> QED BY <1>2, <1>3 DEF Clicked

LEMMA ClickKind ==
    ASSUME AI!TypeOK, NEW j \in Jobs, NEW mine, mine \in BOOLEAN, AI!Clicks(j, mine)
    PROVE  Clicked(j)
  <1>1. ASSUME NEW setting \in Settings, AI!UpdateGatewayConfig(j, mine, setting)
        PROVE  Clicked(j)
    <2> DEFINE merged == [config EXCEPT ![setting.field] = setting.value]
               call == [AI!NoCall EXCEPT !.config = merged]
    <2>1. merged \in AI!GatewayConfig
      BY ChangedPolicy DEF AI!TypeOK
    <2>2. call \in AI!CallType /\ call.config = merged
      BY <2>1, SeedTypes DEF AI!CallType
    <2>3. /\ AI!Begin(j, mine, "config", call) /\ "config" \in AI!Ops
          /\ wanted' = [wanted EXCEPT ![setting.field] = setting.value]
          /\ UNCHANGED <<AI!engine, config, shown, fetches, aiLoaded, crowded>>
      BY <1>1 DEF AI!UpdateGatewayConfig, AI!Ops
    <2> HIDE DEF call
    <2>4. /\ aiCalls[j].stage = "unused" /\ aiCalls'[j].stage = "sent" /\ OtherCallsKeep(j)
          /\ aiCalls'[j].op = "config" /\ aiCalls'[j].mine = mine /\ aiCalls'[j].config = merged
          /\ aiRaced' = aiRaced \cup
               {copy \in AI!Concerns("config") : AI!Busy(copy) \/ copy \notin aiLoaded \/ ~mine}
      BY <2>2, <2>3, CallBegins
    <2> QED BY <2>3, <2>4 DEF Clicked
  <1>2. ASSUME NEW s \in Sessions, sessions[s].exists, NEW text \in ChatTexts,
               NEW model \in Overrides, AI!SendChat(j, mine, s, text, model)
        PROVE  Clicked(j)
    <2> DEFINE call == [AI!NoCall EXCEPT !.session = s, !.text = text, !.override = model]
    <2>1. call \in AI!CallType /\ call.session = s
      BY SeedTypes, PlatformAssumption DEF AI!CallType, AI!ConsoleAssumption
    <2>2. /\ AI!Begin(j, mine, "chat", call) /\ "chat" \in AI!Ops
          /\ shown' = IF mine /\ shown[s].exists
                      THEN [shown EXCEPT ![s].messages = Append(@, AI!Says("user", j))]
                      ELSE shown
          /\ UNCHANGED <<AI!engine, config, fetches, aiLoaded, wanted, crowded>>
      BY <1>2 DEF AI!SendChat, AI!Ops
    <2> HIDE DEF call
    <2>3. /\ aiCalls[j].stage = "unused" /\ aiCalls'[j].stage = "sent" /\ OtherCallsKeep(j)
          /\ aiCalls'[j].op = "chat" /\ aiCalls'[j].mine = mine /\ aiCalls'[j].session = s
          /\ aiRaced' = aiRaced \cup
               {copy \in AI!Concerns("chat") : AI!Busy(copy) \/ copy \notin aiLoaded \/ ~mine}
      BY <2>1, <2>2, CallBegins
    <2>4. [shown EXCEPT ![s].messages = Append(@, AI!Says("user", j))]
            = [shown EXCEPT ![s].messages = Append(shown[s].messages, AI!Says("user", j))]
      BY DEF AI!TypeOK
    <2> QED BY <1>2, <2>2, <2>3, <2>4 DEF Clicked
  <1>3. ASSUME NEW text \in RagTexts, AI!RunRag(j, mine, text)
        PROVE  Clicked(j)
    <2>1. [AI!NoCall EXCEPT !.text = text] \in AI!CallType
      BY SeedTypes, PlatformAssumption DEF AI!CallType, AI!ConsoleAssumption
    <2> QED BY <1>3, <2>1, SubmitKind DEF AI!RunRag
  <1>4. ASSUME NEW d \in Documents, AI!IndexDoc(j, mine, d)
        PROVE  Clicked(j)
    <2>1. [AI!NoCall EXCEPT !.doc = d] \in AI!CallType /\ [AI!NoCall EXCEPT !.doc = d].doc = d
      BY SeedTypes DEF AI!CallType
    <2> QED BY <1>4, <2>1, SubmitKind DEF AI!IndexDoc
  <1>5. ASSUME NEW m \in NewMemories, AI!SubmitSession(j, mine, m)
        PROVE  Clicked(j)
    <2>1. [AI!NoCall EXCEPT !.memory = m] \in AI!CallType
      BY SeedTypes, PlatformAssumption DEF AI!CallType, AI!ConsoleAssumption
    <2> QED BY <1>5, <2>1, SubmitKind DEF AI!SubmitSession
  <1>6. CASE AI!SubmitPrompt(j, mine)
    BY <1>6, SeedTypes, SubmitKind DEF AI!SubmitPrompt
  <1> QED BY <1>1, <1>2, <1>3, <1>4, <1>5, <1>6 DEF AI!Clicks

\* A call is over.
LEMMA EndFacts ==
    ASSUME AI!TypeOK, NEW j \in Jobs, AI!End(j)
    PROVE  aiCalls'[j].stage = "ended" /\ OtherCallsKeep(j)
  <1>1. [AI!NoCall EXCEPT !.stage = "ended"].stage = "ended"
    BY SeedTypes DEF AI!CallType
  <1> QED BY <1>1 DEF AI!End, OtherCallsKeep, AI!TypeOK

\* A request moves; its call is answered when it is done, if it still waits.
Worked(j) ==
    /\ UNCHANGED <<AI!console, AI!history>> /\ OtherCallsKeep(j)
    /\ IF jobs'[j].at = "done" /\ aiCalls[j].stage = "working"
       THEN Advances(j, "served", aiCalls[j].session) ELSE aiCalls'[j] = aiCalls[j]

LEMMA WorkOnKind ==
    ASSUME AI!TypeOK, NEW j \in Jobs, JobFits(j), AI!WorkOn(j)
    PROVE  Worked(j) /\ (Moves(j) \/ Replies(j) \/ EndsRag(j) \/ EndsIndex(j))
  <1>1. UNCHANGED <<AI!console, AI!history>>
    BY DEF AI!WorkOn
  <1>2. CASE jobs'[j].at = "done" /\ aiCalls[j].stage = "working"
    <2>1. PICK call \in AI!CallType : call = aiCalls[j]
      BY DEF AI!TypeOK
    <2>2. [call EXCEPT !.stage = "served"] =
            [call EXCEPT !.stage = "served", !.session = call.session]
          /\ call.session \in Sessions
      BY DEF AI!CallType
    <2>3. aiCalls' = [aiCalls EXCEPT ![j] =
            [aiCalls[j] EXCEPT !.stage = "served", !.session = aiCalls[j].session]]
      BY <1>2, <2>1, <2>2 DEF AI!WorkOn
    <2>4. Advances(j, "served", aiCalls[j].session)
      BY <2>1, <2>2, <2>3, AdvanceFacts DEF AI!Stages
    <2> QED BY <1>1, <1>2, <2>4, WorkKind DEF Worked, AI!WorkOn, JobFits, Advances, OtherCallsKeep
  <1>3. CASE ~(jobs'[j].at = "done" /\ aiCalls[j].stage = "working")
    <2>1. aiCalls' = aiCalls
      BY <1>3 DEF AI!WorkOn
    <2> QED BY <1>1, <1>3, <2>1, WorkKind DEF Worked, AI!WorkOn, JobFits, OtherCallsKeep
  <1> QED BY <1>2, <1>3

-----------------------------------------------------------------------------
(* Requests and their calls *)

LEMMA SessionsStay ==
    ASSUME AI!TypeOK, NEW j \in Jobs,
           Keeps \/ (\E s \in Sessions : Opens(s) \/ Asks(j, s)) \/ Starts(j, "rag")
             \/ Starts(j, "index") \/ Moves(j) \/ Replies(j) \/ EndsRag(j) \/ EndsIndex(j),
           NEW t \in Sessions, sessions[t].exists
    PROVE  sessions'[t].exists
  <1>1. jobs[j].session \in Sessions
    BY DEF AI!TypeOK, AI!EngineTypeOK, AI!Job
  <1> QED BY <1>1 DEF Keeps, Opens, Asks, Starts, Moves, Replies, EndsRag, EndsIndex, Speaks,
       OtherSessionsKeep

LEMMA FitsStep ==
    ASSUME AI!TypeOK, \A k \in Jobs : JobFits(k), AI!Next
    PROVE  \A k \in Jobs : JobFits(k)'
  <1>1. CASE AI!Load \/ AI!UseConfig \/ AI!UseSessions
             \/ (\E copy \in AI!Copies : AI!ServeFetch(copy) \/ AI!LoseFetch(copy))
             \/ (\E s \in Sessions : AI!Select(s))
    <2>1. UNCHANGED <<jobs, aiCalls, sessions>>
      BY <1>1 DEF AI!Load, AI!UseConfig, AI!UseSessions, AI!ServeFetch, AI!LoseFetch, AI!Select,
         AI!engine, AI!console
    <2> QED BY <2>1 DEF JobFits, Placed
  <1>2. ASSUME NEW j \in Jobs, NEW mine \in BOOLEAN, AI!Clicks(j, mine), NEW k \in Jobs
        PROVE  JobFits(k)'
    <2>1. Clicked(j)
      BY <1>2, ClickKind
    <2> QED BY <2>1 DEF Clicked, OtherCallsKeep, JobFits, Placed, AI!engine
  <1>3. ASSUME NEW j \in Jobs, AI!Serve(j), NEW k \in Jobs
        PROVE  JobFits(k)'
    <2>1. Serves(j) /\ aiCalls[j].stage = "sent" /\ aiCalls[j].session \in Sessions
      BY <1>3, ServeKind DEF AI!Serve, AI!TypeOK, AI!CallType
    <2>2. \A t \in Sessions : sessions[t].exists => sessions'[t].exists
      BY <2>1, SessionsStay DEF Serves
    <2>3. aiCalls[k].session \in Sessions
      BY DEF AI!TypeOK, AI!CallType
    <2>4. CASE k # j
      <3>1. aiCalls'[k] = aiCalls[k]
        BY <2>1, <2>4 DEF Serves, Advances
      <3>2. SameJob(k)
        BY <2>1, <2>4 DEF Serves, Keeps, Opens, Asks, Starts, Works, OthersKeep, SameJob
      <3> QED BY <2>2, <2>3, <3>1, <3>2 DEF JobFits, Placed, SameJob
    <2>5. CASE k = j
      <3>1. JobFits(j)
        OBVIOUS
      <3>2. CASE aiCalls[j].op \in {"config", "prompt", "session"}
        <4>1. SameJob(j) /\ aiCalls'[j].stage = "served" /\ aiCalls'[j].op = aiCalls[j].op
          BY <2>1, <3>2 DEF Serves, Keeps, Opens, Advances
        <4> QED BY <2>1, <2>5, <3>1, <3>2, <4>1 DEF JobFits, Placed, SameJob
      <3>3. CASE aiCalls[j].op \in {"chat", "rag", "index"}
        <4>1. /\ aiCalls'[j].stage = "working" /\ aiCalls'[j].op = aiCalls[j].op
              /\ aiCalls'[j].session = aiCalls[j].session
          BY <2>1, <3>3 DEF Serves, Advances
        <4>2. /\ jobs'[j].kind = aiCalls[j].op /\ Placed(jobs'[j]) /\ jobs'[j].at # "done"
              /\ aiCalls[j].op = "chat" => jobs'[j].session = aiCalls[j].session
          BY <2>1, <3>3 DEF Serves, Asks, Starts, Works
        <4> QED BY <2>5, <4>1, <4>2 DEF JobFits
      <3> QED BY <2>1, <3>2, <3>3 DEF Serves
    <2> QED BY <2>4, <2>5
  <1>4. ASSUME NEW j \in Jobs, AI!WorkOn(j), NEW k \in Jobs
        PROVE  JobFits(k)'
    <2>1. Worked(j) /\ (Moves(j) \/ Replies(j) \/ EndsRag(j) \/ EndsIndex(j))
      BY <1>4, WorkOnKind
    <2>2. \A t \in Sessions : sessions[t].exists => sessions'[t].exists
      BY <2>1, SessionsStay
    <2>3. aiCalls[k].session \in Sessions
      BY DEF AI!TypeOK, AI!CallType
    <2>4. Works(j) /\ jobs[j].at \notin {"free", "done"}
      BY <2>1 DEF Moves, Replies, EndsRag, EndsIndex, Ends
    <2>5. CASE k # j
      BY <2>1, <2>2, <2>3, <2>4, <2>5
         DEF Worked, OtherCallsKeep, Works, OthersKeep, JobFits, Placed
    <2>6. CASE k = j
      <3>1. JobFits(j)
        OBVIOUS
      <3>2. CASE jobs'[j].at = "done" /\ aiCalls[j].stage = "working"
        <4>1. jobs[j].kind \in {"chat", "rag", "index"}
          BY <2>4, <3>1 DEF JobFits, Placed, AI!TypeOK, AI!EngineTypeOK, AI!Job
        <4>2. /\ aiCalls'[j].stage = "served" /\ aiCalls'[j].op = aiCalls[j].op
              /\ jobs[j].kind = aiCalls[j].op
          BY <2>1, <3>1, <3>2 DEF Worked, Advances, JobFits
        <4>3. jobs'[j].kind = jobs[j].kind /\ Placed(jobs'[j])
          BY <2>4 DEF Works
        <4> QED BY <2>6, <3>2, <4>1, <4>2, <4>3 DEF JobFits
      <3>3. CASE ~(jobs'[j].at = "done" /\ aiCalls[j].stage = "working")
        <4>1. aiCalls'[j] = aiCalls[j] /\ aiCalls[j].stage \notin {"unused", "sent", "served"}
          BY <2>1, <2>4, <3>1, <3>3 DEF Worked, JobFits, Placed
        <4> QED BY <2>4, <2>6, <3>1, <3>3, <4>1 DEF Works, JobFits
      <3> QED BY <3>2, <3>3
    <2> QED BY <2>5, <2>6
  <1>5. ASSUME NEW j \in Jobs, AI!UseAnswer(j) \/ AI!Fail(j), NEW k \in Jobs
        PROVE  JobFits(k)'
    <2>1. UNCHANGED AI!engine /\ AI!End(j)
      BY <1>5 DEF AI!UseAnswer, AI!Fail
    <2>2. aiCalls'[j].stage = "ended" /\ OtherCallsKeep(j)
      BY <2>1, EndFacts
    <2>3. jobs' = jobs /\ sessions' = sessions
      BY <2>1 DEF AI!engine
    <2>4. CASE k = j
      BY <2>2, <2>3, <2>4 DEF JobFits, Placed
    <2>5. CASE k # j
      BY <2>2, <2>3, <2>5 DEF OtherCallsKeep, JobFits, Placed
    <2> QED BY <2>4, <2>5
  <1> QED BY <1>1, <1>2, <1>3, <1>4, <1>5 DEF AI!Next

LEMMA TypeStep ==
    ASSUME AI!TypeOK, \A k \in Jobs : JobFits(k), [AI!Next]_(AI!vars)
    PROVE  AI!TypeOK'
  <1>1. CASE UNCHANGED AI!vars
    BY <1>1 DEF AI!vars, AI!engine, AI!console, AI!history, AI!TypeOK, AI!EngineTypeOK
  <1>2. ASSUME NEW s \in Sessions, AI!Select(s)
        PROVE  AI!TypeOK'
    <2>1. AI!Cardinality({s}) = 1
      BY FS_Singleton, Counted
    <2> QED BY <1>2, <2>1 DEF AI!Select, AI!TypeOK, AI!EngineTypeOK, AI!engine, AI!history
  <1> QED BY <1>1, <1>2, FetchTypes, ClickTypes, ServerTypes, AnswerTypes DEF AI!Next

-----------------------------------------------------------------------------
(* One call, or one fetch, at a time *)

LEMMA ConcernedCopies ==
    /\ AI!Concerns("config") = {"config"}
    /\ AI!Concerns("chat") = {"sessions"} /\ AI!Concerns("session") = {"sessions"}
    /\ \A op \in AI!Ops : op \in {"rag", "index", "prompt"} => AI!Concerns(op) = {}
    /\ \A op \in AI!Ops : AI!Concerns(op) \subseteq AI!Copies
  BY DEF AI!Concerns, AI!Ops, AI!Copies

\* What the server does to a call leaves it about what it was about.
LEMMA ServedCalls ==
    ASSUME AI!TypeOK, NEW j \in Jobs, JobFits(j), AI!Serve(j) \/ AI!WorkOn(j), NEW k \in Jobs
    PROVE  /\ AI!Pending(k)' <=> AI!Pending(k)
           /\ AI!Pending(k) => aiCalls'[k].op = aiCalls[k].op
           /\ aiCalls'[k].mine = aiCalls[k].mine /\ aiCalls'[k].config = aiCalls[k].config
           /\ UNCHANGED <<AI!console, wanted, aiRaced>>
           /\ aiCalls[k].op = "config" =>
                aiCalls'[k].stage = aiCalls[k].stage \/ (AI!Serve(j) /\ k = j)
  <1>1. CASE AI!Serve(j)
    <2>1. Serves(j) /\ aiCalls[j].stage = "sent" /\ UNCHANGED <<AI!console, wanted, aiRaced>>
      BY <1>1, ServeKind DEF AI!Serve
    <2> QED BY <1>1, <2>1 DEF Serves, Advances, AI!Pending
  <1>2. CASE AI!WorkOn(j)
    <2>1. Worked(j) /\ Works(j) /\ jobs[j].at \notin {"free", "done"}
      BY <1>2, WorkOnKind DEF Moves, Replies, EndsRag, EndsIndex, Ends
    <2>2. aiCalls[j].stage = "working" => aiCalls[j].op # "config"
      BY DEF JobFits, AI!TypeOK, AI!EngineTypeOK, AI!Job
    <2> QED BY <2>1, <2>2 DEF Worked, OtherCallsKeep, Advances, AI!Pending, AI!history
  <1> QED BY <1>1, <1>2

LEMMA OneAsksStep ==
    ASSUME AI!TypeOK, \A k \in Jobs : JobFits(k), OneAsks, AI!Next
    PROVE  OneAsks'
  <1>1. CASE AI!Load
    <2>1. /\ aiCalls' = aiCalls /\ aiRaced' = aiRaced \cup {copy \in AI!Copies : AI!Busy(copy)}
      BY <1>1 DEF AI!Load
    <2>2. ASSUME NEW copy \in AI!Copies \ aiRaced', NEW k \in Jobs, About(k, copy)'
          PROVE  FALSE
      <3>1. About(k, copy)
        BY <2>1, <2>2 DEF About, AI!Pending
      <3>2. AI!Busy(copy)
        BY <3>1 DEF AI!Busy, About
      <3> QED BY <2>1, <2>2, <3>2
    <2> QED BY <2>2 DEF OneAsks
  <1>2. CASE \/ AI!UseConfig \/ AI!UseSessions \/ (\E s \in Sessions : AI!Select(s))
             \/ (\E copy \in AI!Copies : AI!ServeFetch(copy) \/ AI!LoseFetch(copy))
    <2>1. aiCalls' = aiCalls /\ aiRaced' = aiRaced /\ aiLoaded \subseteq aiLoaded'
      BY <1>2 DEF AI!UseConfig, AI!UseSessions, AI!ServeFetch, AI!LoseFetch, AI!Select, AI!history
    <2>2. \A copy \in AI!Copies : fetches[copy].stage = "none" => fetches'[copy].stage = "none"
      BY <1>2 DEF AI!UseConfig, AI!UseSessions, AI!ServeFetch, AI!LoseFetch, AI!Select, AI!NoFetch,
         AI!TypeOK, AI!Copies
    <2>3. ASSUME NEW copy \in AI!Copies \ aiRaced', NEW k \in Jobs, About(k, copy)'
          PROVE  /\ AI!Mine(k)' /\ copy \in aiLoaded' /\ fetches'[copy].stage = "none"
                 /\ \A i \in Jobs : About(i, copy)' => i = k
      <3>1. \A i \in Jobs : About(i, copy)' <=> About(i, copy)
        BY <2>1 DEF About, AI!Pending
      <3>2. /\ AI!Mine(k) /\ copy \in aiLoaded /\ fetches[copy].stage = "none"
            /\ \A i \in Jobs : About(i, copy) => i = k
        BY <2>1, <2>3, <3>1 DEF OneAsks
      <3> QED BY <2>1, <2>2, <3>1, <3>2 DEF AI!Mine
    <2> QED BY <2>3 DEF OneAsks
  <1>3. ASSUME NEW j \in Jobs, NEW mine \in BOOLEAN, AI!Clicks(j, mine)
        PROVE  OneAsks'
    <2>1. Clicked(j)
      BY <1>3, ClickKind
    <2>2. ASSUME NEW copy \in AI!Copies \ aiRaced', NEW k \in Jobs, About(k, copy)'
          PROVE  /\ AI!Mine(k)' /\ copy \in aiLoaded' /\ fetches'[copy].stage = "none"
                 /\ \A i \in Jobs : About(i, copy)' => i = k
      <3>1. \A i \in Jobs \ {j} : About(i, copy)' <=> About(i, copy)
        BY <2>1 DEF Clicked, OtherCallsKeep, About, AI!Pending
      <3>2. copy \in AI!Copies \ aiRaced /\ fetches' = fetches /\ aiLoaded' = aiLoaded
        BY <2>1, <2>2 DEF Clicked
      <3>3. CASE About(j, copy)'
        <4>1. copy \in AI!Concerns(aiCalls'[j].op)
          BY <3>3 DEF About
        <4>2. ~AI!Busy(copy) /\ copy \in aiLoaded /\ aiCalls'[j].mine
          BY <2>1, <2>2, <4>1 DEF Clicked
        <4>3. \A i \in Jobs : ~About(i, copy)
          BY <4>2 DEF AI!Busy, About
        <4>4. \A i \in Jobs : About(i, copy)' => i = j
          BY <3>1, <4>3
        <4> QED BY <2>2, <3>2, <4>2, <4>4 DEF AI!Busy, AI!Mine
      <3>4. CASE ~About(j, copy)'
        <4>1. k # j
          BY <2>2, <3>4
        <4>2. About(k, copy)
          BY <2>2, <3>1, <4>1
        <4>3. /\ AI!Mine(k) /\ copy \in aiLoaded /\ fetches[copy].stage = "none"
              /\ \A i \in Jobs : About(i, copy) => i = k
          BY <3>2, <4>2 DEF OneAsks
        <4>4. AI!Mine(k)'
          BY <2>1, <4>1, <4>3 DEF Clicked, OtherCallsKeep, AI!Mine
        <4>5. \A i \in Jobs : About(i, copy)' => i = k
          BY <3>1, <3>4, <4>3
        <4> QED BY <3>2, <4>3, <4>4, <4>5
      <3> QED BY <3>3, <3>4
    <2> QED BY <2>2 DEF OneAsks
  <1>4. ASSUME NEW j \in Jobs, AI!Serve(j) \/ AI!WorkOn(j)
        PROVE  OneAsks'
    <2>1. ASSUME NEW copy \in AI!Copies \ aiRaced', NEW k \in Jobs, About(k, copy)'
          PROVE  /\ AI!Mine(k)' /\ copy \in aiLoaded' /\ fetches'[copy].stage = "none"
                 /\ \A i \in Jobs : About(i, copy)' => i = k
      <3>1. ASSUME NEW i \in Jobs, About(i, copy)' PROVE About(i, copy)
        BY <1>4, <3>1, ServedCalls DEF About, AI!Pending
      <3>2. aiRaced' = aiRaced /\ aiLoaded' = aiLoaded /\ fetches' = fetches
        BY <1>4, <2>1, ServedCalls DEF AI!console
      <3>3. /\ AI!Mine(k) /\ copy \in aiLoaded /\ fetches[copy].stage = "none"
            /\ \A i \in Jobs : About(i, copy) => i = k
        BY <2>1, <3>1, <3>2 DEF OneAsks
      <3>4. AI!Mine(k)'
        BY <1>4, <3>3, ServedCalls DEF AI!Mine
      <3> QED BY <3>1, <3>2, <3>3, <3>4
    <2> QED BY <2>1 DEF OneAsks
  <1>5. ASSUME NEW j \in Jobs, AI!UseAnswer(j) \/ AI!Fail(j)
        PROVE  OneAsks'
    <2>1. /\ AI!End(j) /\ aiRaced \subseteq aiRaced' /\ aiLoaded' = aiLoaded /\ fetches' = fetches
      BY <1>5 DEF AI!UseAnswer, AI!Fail, AI!history
    <2>2. aiCalls'[j].stage = "ended" /\ OtherCallsKeep(j)
      BY <2>1, EndFacts
    <2>3. ASSUME NEW copy \in AI!Copies \ aiRaced', NEW k \in Jobs, About(k, copy)'
          PROVE  /\ AI!Mine(k)' /\ copy \in aiLoaded' /\ fetches'[copy].stage = "none"
                 /\ \A i \in Jobs : About(i, copy)' => i = k
      <3>1. ASSUME NEW i \in Jobs, About(i, copy)' PROVE i # j /\ About(i, copy)
        BY <2>2, <3>1 DEF OtherCallsKeep, About, AI!Pending
      <3>2. /\ AI!Mine(k) /\ copy \in aiLoaded /\ fetches[copy].stage = "none"
            /\ \A i \in Jobs : About(i, copy) => i = k
        BY <2>1, <2>3, <3>1 DEF OneAsks
      <3>3. AI!Mine(k)'
        BY <2>2, <2>3, <3>1, <3>2 DEF OtherCallsKeep, AI!Mine
      <3> QED BY <2>1, <3>1, <3>2, <3>3
    <2> QED BY <2>3 DEF OneAsks
  <1> QED BY <1>1, <1>2, <1>3, <1>4, <1>5 DEF AI!Next

-----------------------------------------------------------------------------
(* The settings *)

LEMMA WorkKeepsPolicy ==
    ASSUME NEW j \in Jobs, AI!Work(j)
    PROVE  gatewayConfig' = gatewayConfig
  BY DEF AI!Work, AI!PrimaryAnswers, AI!PrimaryFails, AI!FailoverEnds, AI!SimulationEnds, AI!Reply,
     AI!RagAuthorized, AI!RagLookup, AI!RagHydrate, AI!RagRoute, AI!RagExecuted, AI!RagEnd,
     AI!Indexed, AI!Go

\* What becomes of a fetch that is served or lost.
LEMMA FetchKinds ==
    ASSUME AI!TypeOK, NEW copy \in AI!Copies, AI!ServeFetch(copy) \/ AI!LoseFetch(copy)
    PROVE  /\ \A c \in AI!Copies \ {copy} : fetches'[c] = fetches[c]
           /\ \/ fetches'[copy].stage = "none"
              \/ /\ fetches'[copy].stage = "served" /\ fetches'[copy].config = gatewayConfig
                 /\ fetches'[copy].sessions = sessions
  <1> DEFINE Fetch == [stage : {"none", "sent", "served"}, config : AI!GatewayConfig,
                       blank : BOOLEAN, sessions : [Sessions -> AI!ChatSession]]
  <1>1. fetches \in [AI!Copies -> Fetch]
    BY DEF AI!TypeOK
  <1>2. CASE AI!ServeFetch(copy)
    <2>1. PICK fetch \in Fetch : fetch = fetches[copy]
      BY <1>1
    <2>2. fetches' = [fetches EXCEPT ![copy] =
            [fetch EXCEPT !.stage = "served", !.config = gatewayConfig, !.sessions = sessions]]
      BY <1>2, <2>1 DEF AI!ServeFetch
    <2> QED BY <1>1, <2>1, <2>2
  <1>3. CASE AI!LoseFetch(copy)
    <2>1. fetches' = [fetches EXCEPT ![copy] = AI!NoFetch] /\ AI!NoFetch.stage = "none"
      BY <1>3 DEF AI!LoseFetch, AI!NoFetch
    <2> QED BY <1>1, <2>1
  <1> QED BY <1>2, <1>3

LEMMA PolicyStep ==
    ASSUME AI!TypeOK, \A k \in Jobs : JobFits(k), OneAsks, PolicyAgrees, AI!Next
    PROVE  PolicyAgrees'
  <1>0. "config" \in AI!Copies /\ "sessions" \in AI!Copies
    BY DEF AI!Copies
  <1>1. CASE AI!Load
    <2>1. SUFFICES ASSUME "config" \notin aiRaced' PROVE PolicyAgrees'
      BY DEF PolicyAgrees
    <2>2. ~AI!Busy("config") /\ "config" \notin aiRaced
      BY <1>0, <1>1, <2>1 DEF AI!Load
    <2>3. \A k \in Jobs : ~About(k, "config")
      BY <2>2 DEF AI!Busy, About
    <2>4. UNCHANGED <<gatewayConfig, config, aiLoaded, aiCalls, wanted>>
      BY <1>1 DEF AI!Load, AI!engine
    <2>5. \A k \in Jobs : ~About(k, "config")'
      BY <2>3, <2>4 DEF About, AI!Pending
    <2>6. fetches'["config"].stage = "sent"
      BY <1>0, <1>1 DEF AI!Load, AI!NoFetch
    <2> QED BY <2>2, <2>3, <2>4, <2>5, <2>6 DEF PolicyAgrees
  <1>2. CASE AI!UseConfig
    <2>1. SUFFICES ASSUME "config" \notin aiRaced' PROVE PolicyAgrees'
      BY DEF PolicyAgrees
    <2>2. /\ UNCHANGED <<gatewayConfig, aiCalls, wanted, aiRaced>>
          /\ fetches["config"].stage = "served" /\ config' = fetches["config"].config
          /\ fetches' = [fetches EXCEPT !["config"] = AI!NoFetch]
      BY <1>2 DEF AI!UseConfig, AI!engine, AI!history
    <2>3. \A k \in Jobs : ~About(k, "config")
      BY <1>0, <2>1, <2>2 DEF OneAsks
    <2>4. \A k \in Jobs : ~About(k, "config")'
      BY <2>2, <2>3 DEF About, AI!Pending
    <2>5. gatewayConfig = wanted /\ config' = wanted
      BY <2>1, <2>2, <2>3 DEF PolicyAgrees
    <2>6. fetches'["config"].stage = "none"
      BY <1>0, <2>2 DEF AI!NoFetch, AI!TypeOK
    <2> QED BY <2>2, <2>4, <2>5, <2>6 DEF PolicyAgrees
  <1>3. CASE AI!UseSessions \/ (\E s \in Sessions : AI!Select(s))
             \/ (\E copy \in AI!Copies : AI!ServeFetch(copy) \/ AI!LoseFetch(copy))
    <2>1. /\ UNCHANGED <<gatewayConfig, config, aiCalls, wanted, aiRaced>>
          /\ "config" \in aiLoaded' <=> "config" \in aiLoaded
      BY <1>3 DEF AI!UseSessions, AI!Select, AI!ServeFetch, AI!LoseFetch, AI!engine, AI!history
    <2>2. \/ fetches'["config"] = fetches["config"]
          \/ fetches'["config"].stage = "none"
          \/ fetches'["config"].config = gatewayConfig
      BY <1>0, <1>3, FetchKinds DEF AI!UseSessions, AI!Select, AI!NoFetch, AI!TypeOK
    <2>3. \A k \in Jobs : About(k, "config")' <=> About(k, "config")
      BY <2>1 DEF About, AI!Pending
    <2> QED BY <2>1, <2>2, <2>3 DEF PolicyAgrees
  <1>4. ASSUME NEW j \in Jobs, NEW mine \in BOOLEAN, AI!Clicks(j, mine)
        PROVE  PolicyAgrees'
    <2>1. Clicked(j)
      BY <1>4, ClickKind
    <2>2. SUFFICES ASSUME "config" \notin aiRaced' PROVE PolicyAgrees'
      BY DEF PolicyAgrees
    <2>3. /\ "config" \notin aiRaced /\ UNCHANGED <<gatewayConfig, config, fetches, aiLoaded>>
          /\ \A k \in Jobs \ {j} : aiCalls'[k] = aiCalls[k]
      BY <2>1, <2>2 DEF Clicked, OtherCallsKeep, AI!engine
    <2>4. \A k \in Jobs \ {j} : About(k, "config")' <=> About(k, "config")
      BY <2>3 DEF About, AI!Pending
    <2>5. aiCalls'[j].op \in AI!Ops
      BY <1>4, ClickTypes DEF AI!TypeOK, AI!CallType
    <2>6. CASE aiCalls'[j].op = "config"
      <3>1. ~AI!Busy("config") /\ "config" \in aiLoaded
        BY <2>1, <2>2, <2>6, ConcernedCopies DEF Clicked
      <3>2. (\A k \in Jobs : ~About(k, "config")) /\ fetches["config"].stage = "none"
        BY <3>1 DEF AI!Busy, About
      <3>3. gatewayConfig = wanted /\ config = wanted
        BY <2>3, <3>1, <3>2 DEF PolicyAgrees
      <3>4. aiCalls'[j].config = wanted' /\ aiCalls'[j].stage = "sent"
        BY <2>1, <2>6, <3>3 DEF Clicked
      <3>5. About(j, "config")'
        BY <2>6, <3>4, ConcernedCopies DEF About, AI!Pending
      <3>6. \A k \in Jobs : About(k, "config")' => k = j
        BY <2>4, <3>2
      <3> QED BY <2>3, <3>2, <3>4, <3>5, <3>6 DEF PolicyAgrees
    <2>7. CASE aiCalls'[j].op # "config"
      <3>1. ~About(j, "config")' /\ wanted' = wanted /\ ~About(j, "config")
        <4>1. "config" \notin AI!Concerns(aiCalls'[j].op)
          BY <2>5, <2>7 DEF AI!Concerns, AI!Ops
        <4> QED BY <2>1, <2>7, <4>1 DEF Clicked, About, AI!Pending
      <3>2. \A k \in Jobs : About(k, "config")' <=> About(k, "config")
        BY <2>4, <3>1
      <3>3. \A k \in Jobs : About(k, "config") => aiCalls'[k] = aiCalls[k]
        BY <2>3, <3>1
      <3> QED BY <2>3, <3>1, <3>2, <3>3 DEF PolicyAgrees
    <2> QED BY <2>6, <2>7
  <1>5. ASSUME NEW j \in Jobs, AI!Serve(j) \/ AI!WorkOn(j)
        PROVE  PolicyAgrees'
    <2>1. SUFFICES ASSUME "config" \notin aiRaced' PROVE PolicyAgrees'
      BY DEF PolicyAgrees
    <2>2. /\ UNCHANGED <<config, fetches, aiLoaded, wanted, aiRaced>>
      BY <1>5, ServedCalls DEF AI!console
    <2>3. ASSUME NEW k \in Jobs
          PROVE  About(k, "config")' <=> About(k, "config")
      BY <1>5, ServedCalls DEF About, AI!Pending
    <2>4. CASE AI!Serve(j) /\ aiCalls[j].op = "config"
      <3>1. Serves(j) /\ aiCalls[j].stage = "sent"
        BY <2>4, ServeKind DEF AI!Serve
      <3>2. gatewayConfig' = aiCalls[j].config /\ aiCalls'[j].config = aiCalls[j].config
        BY <2>4, <3>1 DEF Serves, Advances
      <3>3. About(j, "config")
        BY <2>4, <3>1, ConcernedCopies DEF About, AI!Pending
      <3>4. fetches["config"].stage = "none" /\ \A k \in Jobs : About(k, "config") => k = j
        BY <1>0, <2>1, <2>2, <3>3 DEF OneAsks
      <3>5. aiCalls[j].config = wanted
        BY <2>1, <2>2, <3>3 DEF PolicyAgrees
      <3> QED BY <2>2, <2>3, <3>2, <3>3, <3>4, <3>5 DEF PolicyAgrees
    <2>5. CASE ~(AI!Serve(j) /\ aiCalls[j].op = "config")
      <3>1. gatewayConfig' = gatewayConfig
        <4>1. CASE AI!Serve(j)
          <5>1. Serves(j) /\ aiCalls[j].op # "config"
            BY <2>5, <4>1, ServeKind
          <5> QED BY <5>1 DEF Serves
        <4>2. CASE AI!WorkOn(j)
          BY <4>2, WorkKeepsPolicy DEF AI!WorkOn
        <4> QED BY <1>5, <4>1, <4>2
      <3>2. ASSUME NEW k \in Jobs, About(k, "config")
            PROVE  aiCalls'[k].config = aiCalls[k].config /\ aiCalls'[k].stage = aiCalls[k].stage
        <4>1. aiCalls[k].op = "config"
          BY <3>2 DEF About, AI!Concerns, AI!TypeOK, AI!CallType, AI!Ops
        <4> QED BY <1>5, <2>5, <4>1, ServedCalls
      <3> QED BY <2>1, <2>2, <2>3, <3>1, <3>2 DEF PolicyAgrees
    <2> QED BY <2>4, <2>5
  <1>6. ASSUME NEW j \in Jobs, AI!UseAnswer(j) \/ AI!Fail(j)
        PROVE  PolicyAgrees'
    <2>1. SUFFICES ASSUME "config" \notin aiRaced' PROVE PolicyAgrees'
      BY DEF PolicyAgrees
    <2>2. /\ AI!End(j) /\ "config" \notin aiRaced
          /\ UNCHANGED <<gatewayConfig, fetches, aiLoaded, wanted>>
      BY <1>6, <2>1 DEF AI!UseAnswer, AI!Fail, AI!engine, AI!history
    <2>3. aiCalls'[j].stage = "ended" /\ \A k \in Jobs \ {j} : aiCalls'[k] = aiCalls[k]
      BY <2>2, EndFacts DEF OtherCallsKeep
    <2>4. ~About(j, "config")' /\ \A k \in Jobs \ {j} : About(k, "config")' <=> About(k, "config")
      BY <2>3 DEF About, AI!Pending
    <2>5. CASE About(j, "config")
      <3>1. aiCalls[j].op = "config"
        BY <2>5 DEF About, AI!Concerns, AI!TypeOK, AI!CallType, AI!Ops
      <3>2. AI!UseAnswer(j)
        BY <1>6, <2>1, <3>1, ConcernedCopies DEF AI!Fail
      <3>3. /\ AI!Mine(j) /\ fetches["config"].stage = "none"
            /\ \A k \in Jobs : About(k, "config") => k = j
        BY <1>0, <2>2, <2>5 DEF OneAsks
      <3>4. config' = aiCalls[j].config /\ aiCalls[j].stage = "served"
        BY <3>1, <3>2, <3>3 DEF AI!UseAnswer
      <3>5. aiCalls[j].config = wanted /\ gatewayConfig = wanted
        BY <2>2, <2>5, <3>4 DEF PolicyAgrees
      <3>6. \A k \in Jobs : ~About(k, "config")'
        BY <2>4, <3>3
      <3> QED BY <2>2, <3>3, <3>4, <3>5, <3>6 DEF PolicyAgrees
    <2>6. CASE ~About(j, "config")
      <3>1. AI!Pending(j)
        BY <1>6 DEF AI!UseAnswer, AI!Fail, AI!Pending
      <3>2. aiCalls[j].op # "config"
        BY <2>6, <3>1, ConcernedCopies DEF About
      <3>3. config' = config
        BY <1>6, <3>2 DEF AI!UseAnswer, AI!Fail
      <3>4. \A k \in Jobs : About(k, "config")' <=> About(k, "config")
        BY <2>4, <2>6
      <3>5. \A k \in Jobs : About(k, "config") => aiCalls'[k] = aiCalls[k]
        BY <2>3, <2>6
      <3> QED BY <2>2, <3>3, <3>4, <3>5 DEF PolicyAgrees
    <2> QED BY <2>5, <2>6
  <1> QED BY <1>1, <1>2, <1>3, <1>4, <1>5, <1>6 DEF AI!Next

-----------------------------------------------------------------------------
(* The conversations *)

\* A step that neither the page's conversations nor the server's notice.
LEMMA SessionsUnmoved ==
    ASSUME SessionsAgree, "sessions" \notin aiRaced, UNCHANGED <<sessions, shown>>,
           "sessions" \in aiLoaded' => "sessions" \in aiLoaded,
           \/ fetches'["sessions"] = fetches["sessions"]
           \/ fetches'["sessions"].stage # "served"
           \/ fetches'["sessions"].sessions = sessions,
           \A k \in Jobs : aiCalls'[k] = aiCalls[k]
             \/ (~About(k, "sessions") /\ ~About(k, "sessions")'),
           \A k \in Jobs, s \in Sessions : Chatting(k, s)' =>
             Chatting(k, s) /\ aiCalls'[k] = aiCalls[k]
    PROVE  SessionsAgree'
  <1>1. ASSUME NEW k \in Jobs
        PROVE  /\ About(k, "sessions")' <=> About(k, "sessions")
               /\ About(k, "sessions") => aiCalls'[k] = aiCalls[k]
    BY <1>1 DEF About, AI!Pending
  <1>2. ASSUME NEW k \in Jobs, About(k, "sessions")'
        PROVE  CallTold(k)'
    <2>1. aiCalls'[k] = aiCalls[k] /\ CallTold(k)
      BY <1>1, <1>2 DEF SessionsAgree
    <2> QED BY <2>1 DEF CallTold, Told
  <1>3. ASSUME NEW k \in Jobs, NEW s \in Sessions, Chatting(k, s)'
        PROVE  aiCalls'[k].stage = "working" /\ aiCalls'[k].op = "chat"
    BY <1>3 DEF SessionsAgree
  <1>4. fetches'["sessions"].stage = "served" => fetches'["sessions"].sessions = sessions'
    BY DEF SessionsAgree
  <1>5. ASSUME "sessions" \in aiLoaded', \A k \in Jobs : ~About(k, "sessions")', NEW s \in Sessions
        PROVE  Told(s, sessions[s].messages)'
    <2>1. Told(s, sessions[s].messages)
      BY <1>1, <1>5 DEF SessionsAgree
    <2> QED BY <2>1 DEF Told
  <1> QED BY <1>2, <1>3, <1>4, <1>5 DEF SessionsAgree

\* A call of the page about its conversations that nothing else touches.
LEMMA AloneWith ==
    ASSUME OneAsks, SessionsAgree, "sessions" \notin aiRaced, NEW j \in Jobs, About(j, "sessions")
    PROVE  /\ AI!Mine(j) /\ "sessions" \in aiLoaded /\ fetches["sessions"].stage = "none"
           /\ CallTold(j) /\ \A k \in Jobs : About(k, "sessions") => k = j
           /\ \A k \in Jobs, s \in Sessions : Chatting(k, s) =>
                k = j /\ aiCalls[j].stage = "working"
  <1>1. "sessions" \in AI!Copies
    BY DEF AI!Copies
  <1>2. /\ AI!Mine(j) /\ "sessions" \in aiLoaded /\ fetches["sessions"].stage = "none"
        /\ \A k \in Jobs : About(k, "sessions") => k = j
    BY <1>1 DEF OneAsks
  <1>3. ASSUME NEW k \in Jobs, NEW s \in Sessions, Chatting(k, s)
        PROVE  k = j /\ aiCalls[j].stage = "working"
    <2>1. aiCalls[k].stage = "working" /\ aiCalls[k].op = "chat"
      BY <1>3 DEF SessionsAgree
    <2>2. About(k, "sessions")
      BY <2>1, ConcernedCopies DEF About, AI!Pending
    <2> QED BY <1>2, <2>1, <2>2
  <1> QED BY <1>2, <1>3 DEF SessionsAgree

\* While the call of the page is the only one, what it says is all there is.
LEMMA OnlyCall ==
    ASSUME NEW j \in Jobs, fetches'["sessions"].stage # "served",
           \A k \in Jobs : About(k, "sessions")' => k = j, About(j, "sessions")', CallTold(j)',
           \A k \in Jobs, s \in Sessions : Chatting(k, s)'
             => aiCalls'[k].stage = "working" /\ aiCalls'[k].op = "chat"
    PROVE  SessionsAgree'
  BY DEF SessionsAgree

LEMMA FetchedSessions ==
    ASSUME AI!TypeOK, OneAsks, SessionsAgree,
           AI!Load \/ AI!UseConfig \/ AI!UseSessions \/ (\E s \in Sessions : AI!Select(s))
             \/ (\E copy \in AI!Copies : AI!ServeFetch(copy) \/ AI!LoseFetch(copy))
    PROVE  SessionsAgree'
  <1>0. "sessions" \in AI!Copies /\ "config" \in AI!Copies
    BY DEF AI!Copies
  <1>1. SUFFICES ASSUME "sessions" \notin aiRaced' PROVE SessionsAgree'
    BY DEF SessionsAgree
  <1>2. UNCHANGED <<sessions, jobs, aiCalls>> /\ "sessions" \notin aiRaced
    BY <1>1 DEF AI!Load, AI!UseConfig, AI!UseSessions, AI!Select, AI!ServeFetch, AI!LoseFetch,
       AI!engine, AI!history
  <1>3. \A k \in Jobs : About(k, "sessions")' <=> About(k, "sessions")
    BY <1>2 DEF About, AI!Pending
  <1>4. \A k \in Jobs, s \in Sessions : Chatting(k, s)' <=> Chatting(k, s)
    BY <1>2 DEF Chatting
  <1>5. CASE AI!UseSessions
    <2>1. /\ fetches["sessions"].stage = "served" /\ shown' = fetches["sessions"].sessions
          /\ fetches' = [fetches EXCEPT !["sessions"] = AI!NoFetch] /\ aiRaced' = aiRaced
      BY <1>5 DEF AI!UseSessions, AI!history
    <2>2. \A k \in Jobs : ~About(k, "sessions")'
      BY <1>0, <1>2, <1>3, <2>1 DEF OneAsks
    <2>3. fetches'["sessions"].stage = "none"
      BY <1>0, <2>1 DEF AI!TypeOK, AI!NoFetch
    <2>4. shown' = sessions'
      BY <1>2, <2>1 DEF SessionsAgree
    <2>5. \A s \in Sessions : Told(s, sessions[s].messages)'
      BY <2>4 DEF Told
    <2>6. \A k \in Jobs, s \in Sessions : Chatting(k, s)'
             => aiCalls'[k].stage = "working" /\ aiCalls'[k].op = "chat"
      BY <1>2, <1>4 DEF SessionsAgree
    <2> QED BY <2>2, <2>3, <2>5, <2>6 DEF SessionsAgree
  <1>6. CASE AI!Load \/ AI!UseConfig \/ (\E s \in Sessions : AI!Select(s))
             \/ (\E copy \in AI!Copies : AI!ServeFetch(copy) \/ AI!LoseFetch(copy))
    <2>1. shown' = shown /\ ("sessions" \in aiLoaded' => "sessions" \in aiLoaded)
      BY <1>6 DEF AI!Load, AI!UseConfig, AI!Select, AI!ServeFetch, AI!LoseFetch
    <2>2. \/ fetches'["sessions"] = fetches["sessions"]
          \/ fetches'["sessions"].stage # "served"
          \/ fetches'["sessions"].sessions = sessions
      <3>1. CASE AI!Load
        BY <1>0, <3>1 DEF AI!Load, AI!NoFetch
      <3>2. CASE AI!UseConfig \/ (\E s \in Sessions : AI!Select(s))
        BY <1>0, <3>2 DEF AI!UseConfig, AI!Select, AI!TypeOK
      <3>3. CASE \E copy \in AI!Copies : AI!ServeFetch(copy) \/ AI!LoseFetch(copy)
        BY <1>0, <3>3, FetchKinds
      <3> QED BY <1>6, <3>1, <3>2, <3>3
    <2> QED BY <1>2, <1>4, <2>1, <2>2, SessionsUnmoved
  <1> QED BY <1>5, <1>6

LEMMA ClickedSessions ==
    ASSUME AI!TypeOK, \A k \in Jobs : JobFits(k), OneAsks, SessionsAgree, NEW j \in Jobs,
           NEW mine, mine \in BOOLEAN, AI!Clicks(j, mine)
    PROVE  SessionsAgree'
  <1>0. "sessions" \in AI!Copies
    BY DEF AI!Copies
  <1>1. SUFFICES ASSUME "sessions" \notin aiRaced' PROVE SessionsAgree'
    BY DEF SessionsAgree
  <1>2. Clicked(j)
    BY ClickKind
  <1>3. /\ "sessions" \notin aiRaced /\ UNCHANGED <<sessions, jobs, fetches, aiLoaded>>
        /\ aiCalls[j].stage = "unused" /\ aiCalls'[j].stage = "sent"
        /\ \A k \in Jobs \ {j} : aiCalls'[k] = aiCalls[k]
    BY <1>1, <1>2 DEF Clicked, OtherCallsKeep, AI!engine
  <1>4. aiCalls'[j].op \in AI!Ops
    BY ClickTypes DEF AI!TypeOK, AI!CallType
  <1>5. ASSUME NEW k \in Jobs, NEW s \in Sessions, Chatting(k, s)'
        PROVE  Chatting(k, s) /\ k # j
    <2>1. Chatting(k, s)
      BY <1>3, <1>5 DEF Chatting
    <2>2. aiCalls[k].stage = "working"
      BY <1>3, <2>1 DEF SessionsAgree
    <2> QED BY <1>3, <2>1, <2>2
  <1>6. ~About(j, "sessions")
    BY <1>3 DEF About, AI!Pending
  <1>7. CASE aiCalls'[j].op \in {"chat", "session"}
    <2>1. "sessions" \in AI!Concerns(aiCalls'[j].op)
      BY <1>7, ConcernedCopies
    <2>2. ~AI!Busy("sessions") /\ "sessions" \in aiLoaded /\ aiCalls'[j].mine
      BY <1>1, <1>2, <2>1 DEF Clicked
    <2>3. (\A k \in Jobs : ~About(k, "sessions")) /\ fetches'["sessions"].stage = "none"
      BY <1>0, <1>3, <2>2 DEF AI!Busy, About
    <2>4. \A t \in Sessions : Told(t, sessions[t].messages)
      BY <1>3, <2>2, <2>3 DEF SessionsAgree
    <2>5. About(j, "sessions")'
      BY <1>3, <2>1 DEF About, AI!Pending
    <2>6. ASSUME NEW k \in Jobs, About(k, "sessions")'
          PROVE  k = j
      BY <1>3, <2>3, <2>6 DEF About, AI!Pending
    <2>7. CallTold(j)'
      <3>1. CASE aiCalls'[j].op = "session"
        <4>1. shown' = shown
          BY <1>2, <3>1 DEF Clicked
        <4> QED BY <1>3, <2>4, <3>1, <4>1 DEF CallTold, Told
      <3>2. CASE aiCalls'[j].op = "chat"
        <4>1. PICK s \in Sessions : s = aiCalls'[j].session
          BY <1>2, <3>2 DEF Clicked
        <4>2. sessions[s].exists /\ shown[s].exists
          BY <1>2, <2>4, <3>2, <4>1 DEF Clicked, Told
        <4>3. shown' = [shown EXCEPT ![s].messages = Append(shown[s].messages, AI!Says("user", j))]
          BY <1>2, <2>2, <3>2, <4>1, <4>2 DEF Clicked
        <4>4. PICK kept \in AI!ChatSession : kept = shown[s]
          BY DEF AI!TypeOK
        <4>5. shown' = [shown EXCEPT ![s] =
                [kept EXCEPT !.messages = Append(kept.messages, AI!Says("user", j))]]
          BY <4>3, <4>4
        <4>6. /\ shown'[s].exists = kept.exists
              /\ shown'[s].messages = Append(kept.messages, AI!Says("user", j))
              /\ \A t \in Sessions \ {s} : shown'[t] = shown[t]
          BY <4>4, <4>5 DEF AI!TypeOK, AI!ChatSession
        <4> QED BY <1>3, <2>4, <3>2, <4>1, <4>2, <4>4, <4>6 DEF CallTold, Told
      <3> QED BY <1>7, <3>1, <3>2
    <2>8. ASSUME NEW k \in Jobs, NEW s \in Sessions, Chatting(k, s)'
          PROVE  aiCalls'[k].stage = "working" /\ aiCalls'[k].op = "chat"
      BY <1>3, <1>5, <2>8 DEF SessionsAgree
    <2> QED BY <2>3, <2>5, <2>6, <2>7, <2>8, OnlyCall
  <1>8. CASE aiCalls'[j].op \notin {"chat", "session"}
    <2>1. "sessions" \notin AI!Concerns(aiCalls'[j].op)
      BY <1>4, <1>8 DEF AI!Concerns, AI!Ops
    <2>2. ~About(j, "sessions")' /\ shown' = shown
      BY <1>2, <1>8, <2>1 DEF About, Clicked
    <2> QED BY <1>3, <1>5, <1>6, <2>2, SessionsUnmoved
  <1> QED BY <1>7, <1>8

LEMMA ServedSessions ==
    ASSUME AI!TypeOK, \A k \in Jobs : JobFits(k), OneAsks, SessionsAgree,
           NEW j \in Jobs, AI!Serve(j)
    PROVE  SessionsAgree'
  <1>1. SUFFICES ASSUME "sessions" \notin aiRaced' PROVE SessionsAgree'
    BY DEF SessionsAgree
  <1>2. Serves(j) /\ aiCalls[j].stage = "sent" /\ aiCalls[j].session \in Sessions
    BY ServeKind DEF AI!Serve, AI!TypeOK, AI!CallType
  <1>3. UNCHANGED <<shown, fetches, aiLoaded, aiRaced>> /\ "sessions" \notin aiRaced
    BY <1>1 DEF AI!Serve, AI!console
  <1>4. ASSUME NEW k \in Jobs
        PROVE  About(k, "sessions")' <=> About(k, "sessions")
    BY ServedCalls DEF About, AI!Pending
  <1>5. \A k \in Jobs \ {j} : aiCalls'[k] = aiCalls[k]
    BY <1>2 DEF Serves, Advances
  <1>6. ASSUME NEW s \in Sessions
        PROVE  ~Chatting(j, s)
    <2>1. jobs[j].at = "free" /\ jobs[j].kind = "none"
      BY <1>2 DEF JobFits, Placed
    <2> QED BY <2>1 DEF Chatting
  <1>7. CASE aiCalls[j].op = "chat"
    <2>1. Asks(j, aiCalls[j].session) /\ Advances(j, "working", aiCalls[j].session)
      BY <1>2, <1>7 DEF Serves
    <2>2. About(j, "sessions")
      BY <1>2, <1>7, ConcernedCopies DEF About, AI!Pending
    <2>3. PICK s \in Sessions : s = aiCalls[j].session
      BY <1>2
    <2>4. /\ \A t \in Sessions \ {s} : Told(t, sessions[t].messages)
          /\ Told(s, Append(sessions[s].messages, AI!Says("user", j))) /\ sessions[s].exists
      BY <1>2, <1>3, <1>7, <2>2, <2>3, AloneWith DEF CallTold
    <2>5. /\ sessions'[s].exists /\ \A t \in Sessions \ {s} : sessions'[t] = sessions[t]
          /\ sessions'[s].messages = Append(sessions[s].messages, AI!Says("user", j))
      BY <2>1, <2>3 DEF Asks, Speaks, OtherSessionsKeep
    <2>6. /\ aiCalls'[j].session = s /\ aiCalls'[j].op = "chat" /\ aiCalls'[j].stage = "working"
      BY <1>7, <2>1, <2>3 DEF Advances
    <2>7. CallTold(j)'
      BY <1>3, <2>4, <2>5, <2>6 DEF CallTold, Told
    <2>8. ASSUME NEW k \in Jobs, NEW t \in Sessions, Chatting(k, t)'
          PROVE  k = j
      <3>1. k # j => Chatting(k, t)
        BY <2>1, <2>8 DEF Asks, Works, OthersKeep, Chatting
      <3> QED BY <1>3, <2>2, <3>1, AloneWith
    <2>9. fetches'["sessions"].stage = "none" /\ \A k \in Jobs : About(k, "sessions")' => k = j
      BY <1>3, <1>4, <2>2, AloneWith
    <2> QED BY <1>4, <2>2, <2>6, <2>7, <2>8, <2>9, OnlyCall
  <1>8. CASE aiCalls[j].op = "session"
    <2>1. PICK s \in Sessions : Opens(s) /\ Advances(j, "served", s)
      BY <1>2, <1>8 DEF Serves
    <2>2. About(j, "sessions")
      BY <1>2, <1>8, ConcernedCopies DEF About, AI!Pending
    <2>3. \A t \in Sessions : Told(t, sessions[t].messages)
      BY <1>2, <1>3, <1>8, <2>2, AloneWith DEF CallTold
    <2>4. /\ sessions'[s].exists /\ sessions'[s].messages = <<>>
          /\ \A t \in Sessions \ {s} : sessions'[t] = sessions[t]
      BY <2>1 DEF Opens, OtherSessionsKeep
    <2>5. aiCalls'[j].session = s /\ aiCalls'[j].op = "session" /\ aiCalls'[j].stage = "served"
      BY <1>8, <2>1 DEF Advances
    <2>6. CallTold(j)'
      BY <1>3, <2>3, <2>4, <2>5 DEF CallTold, Told
    <2>7. ASSUME NEW k \in Jobs, NEW t \in Sessions, Chatting(k, t)'
          PROVE  FALSE
      <3>1. Chatting(k, t)
        BY <2>1, <2>7 DEF Opens, SameJob, Chatting
      <3> QED BY <1>2, <1>3, <2>2, <3>1, AloneWith
    <2>8. fetches'["sessions"].stage = "none" /\ \A k \in Jobs : About(k, "sessions")' => k = j
      BY <1>3, <1>4, <2>2, AloneWith
    <2> QED BY <1>4, <2>2, <2>6, <2>7, <2>8, OnlyCall
  <1>9. CASE aiCalls[j].op \notin {"chat", "session"}
    <2>1. sessions' = sessions
      BY <1>2, <1>9 DEF Serves, Keeps, Starts
    <2>2. ASSUME NEW k \in Jobs, NEW t \in Sessions, Chatting(k, t)'
          PROVE  Chatting(k, t)
      <3>1. CASE Keeps
        BY <2>2, <3>1 DEF Keeps, SameJob, Chatting
      <3>2. CASE Starts(j, aiCalls[j].op)
        BY <2>2, <3>2 DEF Starts, Works, OthersKeep, Chatting
      <3> QED BY <1>2, <1>9, <3>1, <3>2 DEF Serves
    <2>3. "sessions" \notin AI!Concerns(aiCalls[j].op)
      BY <1>9 DEF AI!Concerns, AI!TypeOK, AI!CallType, AI!Ops
    <2>4. ~About(j, "sessions") /\ ~About(j, "sessions")'
      BY <1>4, <2>3 DEF About
    <2>5. \A k \in Jobs, t \in Sessions : Chatting(k, t)' =>
            Chatting(k, t) /\ aiCalls'[k] = aiCalls[k]
      BY <1>5, <1>6, <2>2
    <2> QED BY <1>3, <1>5, <2>1, <2>4, <2>5, SessionsUnmoved
  <1> QED BY <1>7, <1>8, <1>9

LEMMA WorkedSessions ==
    ASSUME AI!TypeOK, \A k \in Jobs : JobFits(k), OneAsks, SessionsAgree,
           NEW j \in Jobs, AI!WorkOn(j)
    PROVE  SessionsAgree'
  <1>1. SUFFICES ASSUME "sessions" \notin aiRaced' PROVE SessionsAgree'
    BY DEF SessionsAgree
  <1>2. Worked(j) /\ (Moves(j) \/ Replies(j) \/ EndsRag(j) \/ EndsIndex(j))
    BY WorkOnKind
  <1>3. /\ UNCHANGED <<shown, fetches, aiLoaded, aiRaced>> /\ "sessions" \notin aiRaced
        /\ \A k \in Jobs \ {j} : aiCalls'[k] = aiCalls[k]
    BY <1>1, <1>2 DEF Worked, OtherCallsKeep, AI!console, AI!history
  <1>4. ASSUME NEW k \in Jobs
        PROVE  About(k, "sessions")' <=> About(k, "sessions")
    BY ServedCalls DEF About, AI!Pending
  <1>5. Works(j) /\ jobs[j].at \notin {"free", "done"}
    BY <1>2 DEF Moves, Replies, EndsRag, EndsIndex, Ends
  <1>6. ASSUME NEW k \in Jobs, NEW s \in Sessions, Chatting(k, s)'
        PROVE  Chatting(k, s) /\ (k = j => jobs'[j].at # "done")
    BY <1>5, <1>6 DEF Works, OthersKeep, Chatting
  <1>7. CASE Moves(j)
    <2>1. sessions' = sessions /\ aiCalls'[j] = aiCalls[j]
      BY <1>2, <1>7 DEF Moves, Worked
    <2> QED BY <1>3, <1>6, <2>1, SessionsUnmoved
  <1>8. CASE EndsRag(j) \/ EndsIndex(j)
    <2>1. sessions' = sessions /\ jobs[j].kind # "chat" /\ jobs'[j].at = "done"
      BY <1>8 DEF EndsRag, EndsIndex, Ends
    <2>2. aiCalls'[j] = aiCalls[j] \/ (~About(j, "sessions") /\ ~About(j, "sessions")')
      <3>1. CASE aiCalls[j].stage = "working"
        <4>1. aiCalls[j].op = jobs[j].kind
          BY <3>1 DEF JobFits
        <4>2. aiCalls[j].op \in AI!Ops /\ jobs[j].kind \in {"none", "chat", "rag", "index"}
          BY DEF AI!TypeOK, AI!CallType, AI!EngineTypeOK, AI!Job
        <4>3. aiCalls[j].op \in {"rag", "index"}
          BY <2>1, <4>1, <4>2 DEF AI!Ops
        <4> QED BY <1>4, <4>2, <4>3, ConcernedCopies DEF About
      <3>2. CASE aiCalls[j].stage # "working"
        BY <1>2, <3>2 DEF Worked
      <3> QED BY <3>1, <3>2
    <2>3. \A k \in Jobs, s \in Sessions : Chatting(k, s)' =>
            Chatting(k, s) /\ aiCalls'[k] = aiCalls[k]
      BY <1>3, <1>6, <2>1
    <2> QED BY <1>3, <2>1, <2>2, <2>3, SessionsUnmoved
  <1>9. CASE Replies(j)
    <2>1. PICK s \in Sessions : s = jobs[j].session
      BY DEF AI!TypeOK, AI!EngineTypeOK, AI!Job
    <2>2. /\ Chatting(j, s) /\ jobs'[j].at = "done" /\ Speaks(j, s, "model")
      BY <1>5, <1>9, <2>1 DEF Replies, Ends, Chatting
    <2>3. aiCalls[j].stage = "working" /\ aiCalls[j].op = "chat"
      BY <1>3, <2>2 DEF SessionsAgree
    <2>4. aiCalls[j].session = s
      BY <2>1, <2>3 DEF JobFits
    <2>5. About(j, "sessions")
      BY <2>3, ConcernedCopies DEF About, AI!Pending
    <2>6. (\A t \in Sessions : Told(t, sessions[t].messages)) /\ sessions[s].exists
      BY <1>3, <2>3, <2>4, <2>5, AloneWith DEF CallTold
    <2>7. /\ sessions'[s].exists /\ \A t \in Sessions \ {s} : sessions'[t] = sessions[t]
          /\ sessions'[s].messages = Append(sessions[s].messages, AI!Says("model", j))
      BY <2>2, <2>6 DEF Speaks, OtherSessionsKeep
    <2>8. aiCalls'[j].stage = "served" /\ aiCalls'[j].op = "chat" /\ aiCalls'[j].session = s
      BY <1>2, <2>2, <2>3, <2>4 DEF Worked, Advances
    <2>9. CallTold(j)'
      BY <1>3, <2>6, <2>7, <2>8 DEF CallTold, Told
    <2>10. ASSUME NEW k \in Jobs, NEW t \in Sessions, Chatting(k, t)'
           PROVE  FALSE
      BY <1>3, <1>6, <2>2, <2>5, <2>10, AloneWith
    <2>11. fetches'["sessions"].stage = "none" /\ \A k \in Jobs : About(k, "sessions")' => k = j
      BY <1>3, <1>4, <2>5, AloneWith
    <2> QED BY <1>4, <2>5, <2>9, <2>10, <2>11, OnlyCall
  <1> QED BY <1>2, <1>7, <1>8, <1>9

LEMMA AnsweredSessions ==
    ASSUME AI!TypeOK, \A k \in Jobs : JobFits(k), OneAsks, SessionsAgree, NEW j \in Jobs,
           AI!UseAnswer(j) \/ AI!Fail(j)
    PROVE  SessionsAgree'
  <1>1. SUFFICES ASSUME "sessions" \notin aiRaced' PROVE SessionsAgree'
    BY DEF SessionsAgree
  <1>2. /\ AI!End(j) /\ UNCHANGED <<sessions, jobs, fetches, aiLoaded>> /\ "sessions" \notin aiRaced
        /\ AI!Pending(j)
    BY <1>1 DEF AI!UseAnswer, AI!Fail, AI!Pending, AI!engine, AI!history
  <1>3. aiCalls'[j].stage = "ended" /\ \A k \in Jobs \ {j} : aiCalls'[k] = aiCalls[k]
    BY <1>2, EndFacts DEF OtherCallsKeep
  <1>4. /\ ~About(j, "sessions")'
        /\ \A k \in Jobs \ {j} : About(k, "sessions")' <=> About(k, "sessions")
    BY <1>3 DEF About, AI!Pending
  <1>5. ASSUME NEW k \in Jobs, NEW s \in Sessions, Chatting(k, s)'
        PROVE  Chatting(k, s) /\ k # j
    <2>1. Chatting(k, s)
      BY <1>2, <1>5 DEF Chatting
    <2>2. aiCalls[k].stage = "working" /\ aiCalls[k].op = "chat"
      BY <1>2, <2>1 DEF SessionsAgree
    <2>3. CASE AI!UseAnswer(j)
      BY <2>1, <2>2, <2>3 DEF AI!UseAnswer
    <2>4. CASE AI!Fail(j)
      <3>1. "sessions" \in AI!Concerns(aiCalls[k].op)
        BY <2>2, ConcernedCopies
      <3> QED BY <1>1, <2>1, <2>4, <3>1 DEF AI!Fail
    <2> QED BY <2>1, <2>3, <2>4
  <1>6. CASE ~About(j, "sessions")
    <2>1. aiCalls[j].op \notin {"chat", "session"}
      BY <1>2, <1>6, ConcernedCopies DEF About
    <2>2. shown' = shown
      BY <2>1 DEF AI!UseAnswer, AI!Fail
    <2> QED BY <1>2, <1>3, <1>4, <1>5, <1>6, <2>2, SessionsUnmoved
  <1>7. CASE About(j, "sessions")
    <2>1. aiCalls[j].op \in {"chat", "session"}
      BY <1>7 DEF About, AI!Concerns, AI!TypeOK, AI!CallType, AI!Ops
    <2>2. AI!UseAnswer(j)
      BY <1>1, <1>7 DEF AI!Fail, About
    <2>3. AI!Mine(j) /\ CallTold(j) /\ fetches["sessions"].stage = "none"
      BY <1>2, <1>7, AloneWith
    <2>4. aiCalls[j].stage = "served" /\ aiCalls[j].session \in Sessions
      BY <2>2 DEF AI!UseAnswer, AI!TypeOK, AI!CallType
    <2>5. PICK s \in Sessions : s = aiCalls[j].session
      BY <2>4
    <2>6. \A t \in Sessions \ {s} : Told(t, sessions[t].messages)
      BY <2>3, <2>5 DEF CallTold
    <2>7. \A t \in Sessions : Told(t, sessions[t].messages)'
      <3>1. CASE aiCalls[j].op = "chat"
        <4>1. /\ sessions[s].exists /\ shown[s].exists
              /\ sessions[s].messages = Append(shown[s].messages, AI!Says("model", j))
          BY <2>3, <2>4, <2>5, <3>1 DEF CallTold
        <4>2. shown' = [shown EXCEPT ![s] = AI!Answered(shown[s], j)]
          BY <2>2, <2>3, <2>5, <3>1, <4>1 DEF AI!UseAnswer
        <4>3. PICK kept \in AI!ChatSession : kept = shown[s]
          BY DEF AI!TypeOK
        <4>4. shown' = [shown EXCEPT ![s] = AI!Answered(kept, j)]
          BY <4>2, <4>3
        <4>5. /\ shown'[s].exists = kept.exists
              /\ shown'[s].messages = Append(kept.messages, AI!Says("model", j))
              /\ \A t \in Sessions \ {s} : shown'[t] = shown[t]
          BY <4>3, <4>4 DEF AI!TypeOK, AI!ChatSession, AI!Answered
        <4> QED BY <1>2, <2>6, <4>1, <4>3, <4>5 DEF Told
      <3>2. CASE aiCalls[j].op = "session"
        <4>1. sessions[s].exists /\ sessions[s].messages = <<>>
          BY <2>3, <2>4, <2>5, <3>2 DEF CallTold
        <4>2. shown' = [shown EXCEPT ![s] =
                [AI!NoSession EXCEPT !.exists = TRUE, !.memory = aiCalls[j].memory]]
          BY <2>2, <2>3, <2>5, <3>2 DEF AI!UseAnswer
        <4>3. /\ shown'[s].exists /\ shown'[s].messages = <<>>
              /\ \A t \in Sessions \ {s} : shown'[t] = shown[t]
          BY <4>2 DEF AI!NoSession, AI!TypeOK
        <4>4. \A t \in Sessions \ {s} : Told(t, sessions[t].messages)'
          BY <1>2, <2>6, <4>3 DEF Told
        <4>5. Told(s, sessions[s].messages)'
          BY <1>2, <4>1, <4>3 DEF Told
        <4> QED BY <4>4, <4>5
      <3> QED BY <2>1, <3>1, <3>2
    <2>8. \A k \in Jobs : ~About(k, "sessions")'
      BY <1>2, <1>4, <1>7, AloneWith
    <2>9. \A k \in Jobs, t \in Sessions : ~Chatting(k, t)'
      BY <1>2, <1>5, <1>7, AloneWith
    <2>10. fetches'["sessions"].stage = "none"
      BY <1>2, <2>3
    <2> QED BY <2>7, <2>8, <2>9, <2>10 DEF SessionsAgree
  <1> QED BY <1>6, <1>7

LEMMA SessionsStep ==
    ASSUME AI!TypeOK, \A k \in Jobs : JobFits(k), OneAsks, SessionsAgree, AI!Next
    PROVE  SessionsAgree'
  BY FetchedSessions, ClickedSessions, ServedSessions, WorkedSessions, AnsweredSessions DEF AI!Next

-----------------------------------------------------------------------------
(* The turns of a conversation *)

\* Who is in a session when another chat comes into it.
Entered(s) ==
    IF \E k \in Jobs : jobs[k].kind = "chat" /\ jobs[k].at # "done" /\ jobs[k].session = s
    THEN crowded' = crowded \cup {s} ELSE crowded' = crowded

\* What a step means to the conversations and to the log.
Quiet == Keeps \/ \E s \in Sessions : Opens(s)
Goes(j) ==
    \/ Starts(j, "rag") \/ Starts(j, "index") \/ Moves(j)
    \/ Replies(j) \/ EndsRag(j) \/ EndsIndex(j)

LEMMA ServerStep ==
    ASSUME AI!TypeOK, \A k \in Jobs : JobFits(k), AI!Next
    PROVE  \/ Quiet /\ crowded' = crowded
           \/ \E j \in Jobs : Goes(j) /\ crowded' = crowded
           \/ \E j \in Jobs, s \in Sessions : Asks(j, s) /\ Entered(s)
  <1>1. CASE AI!Load \/ AI!UseConfig \/ AI!UseSessions
             \/ (\E copy \in AI!Copies : AI!ServeFetch(copy) \/ AI!LoseFetch(copy))
             \/ (\E s \in Sessions : AI!Select(s))
    BY <1>1 DEF AI!Load, AI!UseConfig, AI!UseSessions, AI!ServeFetch, AI!LoseFetch, AI!Select,
       AI!engine, AI!history,
       Quiet, Keeps, SameJob
  <1>2. ASSUME NEW j \in Jobs, NEW mine \in BOOLEAN, AI!Clicks(j, mine)
        PROVE  Quiet /\ crowded' = crowded
    BY <1>2, ClickKind DEF Clicked, AI!engine, Quiet, Keeps, SameJob
  <1>3. ASSUME NEW j \in Jobs, AI!Serve(j)
        PROVE  \/ (Quiet \/ Goes(j)) /\ crowded' = crowded
               \/ \E s \in Sessions : Asks(j, s) /\ Entered(s)
    <2>1. Serves(j) /\ aiCalls[j].session \in Sessions
      BY <1>3, ServeKind DEF AI!TypeOK, AI!CallType
    <2> QED BY <2>1 DEF Serves, Quiet, Goes, Entered
  <1>4. ASSUME NEW j \in Jobs, AI!WorkOn(j)
        PROVE  Goes(j) /\ crowded' = crowded
    BY <1>4, WorkOnKind DEF Worked, AI!history, Goes
  <1>5. ASSUME NEW j \in Jobs, AI!UseAnswer(j) \/ AI!Fail(j)
        PROVE  Quiet /\ crowded' = crowded
    BY <1>5 DEF AI!UseAnswer, AI!Fail, AI!engine, AI!history, Quiet, Keeps, SameJob
  <1> QED BY <1>1, <1>2, <1>3, <1>4, <1>5 DEF AI!Next

LEMMA MessagesType ==
    ASSUME AI!TypeOK, NEW s \in Sessions
    PROVE  /\ sessions[s].messages \in Seq(AI!ChatMessage)
           /\ DOMAIN sessions[s].messages = 1..Len(sessions[s].messages)
           /\ Len(sessions[s].messages) \in Nat
  BY DEF AI!TypeOK, AI!EngineTypeOK, AI!ChatSession

LEMMA QuietFacts ==
    ASSUME AI!TypeOK, \A s \in Sessions : Turns(s), Quiet
    PROVE  /\ gatewayLogs' = gatewayLogs /\ \A k \in Jobs : SameJob(k)
           /\ \A t \in Sessions : sessions'[t].messages = sessions[t].messages
           /\ \A t \in Sessions : sessions[t].exists => sessions'[t].exists
  BY DEF Quiet, Keeps, Opens, OtherSessionsKeep, Turns

\* One message more.
Grown(old, new, last) ==
    /\ Len(new) = Len(old) + 1 /\ Len(old) \in Nat
    /\ DOMAIN new = 1..Len(new) /\ DOMAIN old = 1..Len(old)
    /\ new[Len(new)] = last /\ \A i \in 1..Len(old) : new[i] = old[i]

LEMMA SpeaksFacts ==
    ASSUME AI!TypeOK, NEW j \in Jobs, NEW s \in Sessions, NEW role \in {"user", "model"},
           Speaks(j, s, role)
    PROVE  Grown(sessions[s].messages, sessions'[s].messages, AI!Says(role, j))
  <1>1. PICK old \in Seq(AI!ChatMessage) : old = sessions[s].messages
    BY MessagesType
  <1>2. AI!Says(role, j) \in AI!ChatMessage
    BY DEF AI!Says, AI!ChatMessage
  <1>3. PICK new \in Seq(AI!ChatMessage) : new = Append(old, AI!Says(role, j))
    BY <1>2, SequenceFacts
  <1>4. sessions'[s].messages = new
    BY <1>1, <1>3 DEF Speaks
  <1>5. Grown(old, new, AI!Says(role, j))
    BY <1>2, <1>3 DEF Grown
  <1> QED BY <1>1, <1>4, <1>5

\* What others say changes nothing of where a request appears.
LEMMA SpokenStays ==
    ASSUME AI!TypeOK, NEW j \in Jobs, Spoken(j), SameJob(j),
           \/ \A t \in Sessions : sessions'[t].messages = sessions[t].messages
           \/ \E k \in Jobs \ {j}, s \in Sessions, role \in {"user", "model"} : Speaks(k, s, role)
    PROVE  Spoken(j)'
  <1>1. CASE \A t \in Sessions : sessions'[t].messages = sessions[t].messages
    <2>1. jobs[j].session \in Sessions
      BY DEF AI!TypeOK, AI!EngineTypeOK, AI!Job
    <2> QED BY <1>1, <2>1 DEF Spoken, SameJob, AppearsAt
  <1>2. ASSUME NEW k \in Jobs \ {j}, NEW s \in Sessions, NEW role \in {"user", "model"},
               Speaks(k, s, role)
        PROVE  Spoken(j)'
    <2>1. jobs[j].session \in Sessions
      BY DEF AI!TypeOK, AI!EngineTypeOK, AI!Job
    <2>2. \A t \in Sessions \ {s} : sessions'[t] = sessions[t]
      BY <1>2 DEF Speaks, OtherSessionsKeep
    <2>3. ASSUME NEW t \in Sessions
          PROVE  /\ DOMAIN sessions[t].messages \subseteq DOMAIN sessions'[t].messages
                 /\ \A i \in DOMAIN sessions[t].messages :
                      sessions'[t].messages[i] = sessions[t].messages[i]
                 /\ \A i \in DOMAIN sessions'[t].messages \ DOMAIN sessions[t].messages :
                      sessions'[t].messages[i].of = k
      <3>1. CASE t # s
        BY <2>2, <3>1
      <3>2. CASE t = s
        <4>1. PICK old, new : old = sessions[s].messages /\ new = sessions'[s].messages
          OBVIOUS
        <4>2. Grown(old, new, AI!Says(role, k))
          BY <1>2, <4>1, SpeaksFacts
        <4> QED BY <3>2, <4>1, <4>2 DEF Grown, AI!Says
      <3> QED BY <3>1, <3>2
    <2>4. ASSUME NEW t \in Sessions, NEW i \in DOMAIN sessions'[t].messages,
                 NEW said \in {"user", "model"}
          PROVE  AppearsAt(j, said, t, i)' <=> AppearsAt(j, said, t, i)
      BY <2>3 DEF AppearsAt, AI!Says
    <2>5. CASE jobs[j].kind = "none"
      BY <2>3, <2>5 DEF Spoken, SameJob
    <2>6. CASE jobs[j].kind = "chat"
      <3>1. PICK s0 \in Sessions : s0 = jobs[j].session
        BY <2>1
      <3>2. PICK a \in DOMAIN sessions[s0].messages :
              /\ \A i \in DOMAIN sessions[s0].messages : AppearsAt(j, "user", s0, i) <=> i = a
              /\ jobs[j].at # "done" =>
                   \A i \in DOMAIN sessions[s0].messages : ~AppearsAt(j, "model", s0, i)
              /\ jobs[j].at = "done" => \E b \in DOMAIN sessions[s0].messages :
                   a < b /\ \A i \in DOMAIN sessions[s0].messages :
                     AppearsAt(j, "model", s0, i) <=> i = b
        BY <2>6, <3>1 DEF Spoken
      <3>3. ASSUME NEW i \in DOMAIN sessions'[s0].messages
            PROVE  /\ AppearsAt(j, "user", s0, i)' <=> i = a
                   /\ jobs[j].at # "done" => ~AppearsAt(j, "model", s0, i)'
        BY <2>3, <2>4, <3>2 DEF AppearsAt
      <3>4. a \in DOMAIN sessions'[s0].messages
        BY <2>3
      <3>5. ASSUME jobs[j].at = "done"
            PROVE  \E b \in DOMAIN sessions'[s0].messages :
                     a < b /\ \A i \in DOMAIN sessions'[s0].messages :
                       AppearsAt(j, "model", s0, i)' <=> i = b
        <4>1. PICK b \in DOMAIN sessions[s0].messages :
                a < b /\ \A i \in DOMAIN sessions[s0].messages :
                  AppearsAt(j, "model", s0, i) <=> i = b
          BY <3>2, <3>5
        <4>2. b \in DOMAIN sessions'[s0].messages
          BY <2>3
        <4>3. ASSUME NEW i \in DOMAIN sessions'[s0].messages
              PROVE  AppearsAt(j, "model", s0, i)' <=> i = b
          BY <2>3, <2>4, <4>1 DEF AppearsAt
        <4> QED BY <4>1, <4>2, <4>3
      <3> QED BY <2>6, <3>1, <3>3, <3>4, <3>5 DEF Spoken, SameJob
    <2> QED BY <2>5, <2>6 DEF Spoken, SameJob
  <1> QED BY <1>1, <1>2

LEMMA GoesFacts ==
    ASSUME NEW j \in Jobs, Goes(j)
    PROVE  /\ Works(j) /\ \A k \in Jobs \ {j} : SameJob(k)
           /\ Replies(j) \/ sessions' = sessions
  BY DEF Goes, Starts, Moves, Replies, EndsRag, EndsIndex, Ends, Works, OthersKeep, SameJob

LEMMA SpokenStep ==
    ASSUME AI!TypeOK, \A k \in Jobs : JobFits(k), \A k \in Jobs : Spoken(k),
           \A s \in Sessions : Turns(s), AI!Next, NEW j \in Jobs
    PROVE  Spoken(j)'
  <1>0. jobs[j].session \in Sessions
    BY DEF AI!TypeOK, AI!EngineTypeOK, AI!Job
  <1>1. CASE Quiet
    BY <1>1, QuietFacts, SpokenStays
  <1>2. ASSUME NEW k \in Jobs, Goes(k)
        PROVE  Spoken(j)'
    <2>1. CASE k # j
      <3>1. SameJob(j)
        BY <1>2, <2>1, GoesFacts
      <3>2. CASE Replies(k)
        <4>1. jobs[k].session \in Sessions
          BY DEF AI!TypeOK, AI!EngineTypeOK, AI!Job
        <4> QED BY <2>1, <3>1, <3>2, <4>1, SpokenStays DEF Replies
      <3> QED BY <1>2, <3>1, <3>2, GoesFacts, SpokenStays
    <2>2. CASE k = j /\ Replies(j)
      <3>1. PICK s \in Sessions : s = jobs[j].session
        BY <1>0
      <3>2. /\ jobs[j].kind = "chat" /\ jobs[j].at # "done" /\ jobs'[j].at = "done"
            /\ jobs'[j].kind = "chat" /\ jobs'[j].session = s /\ Speaks(j, s, "model")
        BY <2>2, <3>1 DEF Replies, Ends, Works
      <3>3. PICK a \in DOMAIN sessions[s].messages :
              /\ \A i \in DOMAIN sessions[s].messages : AppearsAt(j, "user", s, i) <=> i = a
              /\ \A i \in DOMAIN sessions[s].messages : ~AppearsAt(j, "model", s, i)
        <4>1. Spoken(j)
          OBVIOUS
        <4> QED BY <3>1, <3>2, <4>1 DEF Spoken
      <3>4. PICK old, new : old = sessions[s].messages /\ new = sessions'[s].messages
        OBVIOUS
      <3>5. /\ Len(new) = Len(old) + 1 /\ Len(old) \in Nat
            /\ DOMAIN new = 1..Len(new) /\ DOMAIN old = 1..Len(old)
            /\ new[Len(new)] = AI!Says("model", j) /\ \A i \in 1..Len(old) : new[i] = old[i]
        BY <3>2, <3>4, SpeaksFacts DEF Grown
      <3>6. ASSUME NEW i \in DOMAIN new
            PROVE  /\ AppearsAt(j, "user", s, i)' <=> i = a
                   /\ AppearsAt(j, "model", s, i)' <=> i = Len(new)
        <4>1. AppearsAt(j, "user", s, i)' <=> new[i] = AI!Says("user", j)
          BY <3>4 DEF AppearsAt
        <4>2. AppearsAt(j, "model", s, i)' <=> new[i] = AI!Says("model", j)
          BY <3>4 DEF AppearsAt
        <4>3. CASE i \in 1..Len(old)
          <5>1. AppearsAt(j, "user", s, i) <=> new[i] = AI!Says("user", j)
            BY <3>4, <3>5, <4>3 DEF AppearsAt
          <5>2. AppearsAt(j, "model", s, i) <=> new[i] = AI!Says("model", j)
            BY <3>4, <3>5, <4>3 DEF AppearsAt
          <5> QED BY <3>3, <3>4, <3>5, <4>1, <4>2, <4>3, <5>1, <5>2
        <4>4. CASE i = Len(new)
          <5>1. new[i] # AI!Says("user", j)
            BY <3>5, <4>4 DEF AI!Says
          <5> QED BY <3>3, <3>4, <3>5, <4>1, <4>2, <4>4, <5>1
        <4> QED BY <3>5, <4>3, <4>4
      <3>7. a \in DOMAIN new /\ Len(new) \in DOMAIN new /\ a < Len(new)
        BY <3>3, <3>4, <3>5
      <3> QED BY <3>2, <3>4, <3>6, <3>7 DEF Spoken
    <2>3. CASE k = j /\ ~Replies(j)
      <3>1. sessions' = sessions
        BY <1>2, <2>3, GoesFacts
      <3>2. CASE Moves(j)
        <4>1. /\ jobs'[j].kind = jobs[j].kind /\ jobs'[j].session = jobs[j].session
              /\ jobs'[j].at # "done" /\ jobs[j].at # "done"
          BY <3>2 DEF Moves, Works
        <4>2. Spoken(j)
          OBVIOUS
        <4> QED BY <3>1, <4>1, <4>2 DEF Spoken, AppearsAt
      <3>3. CASE ~Moves(j)
        <4>1. jobs'[j].kind \in {"rag", "index"}
          BY <1>2, <2>3, <3>3 DEF Goes, Starts, EndsRag, EndsIndex, Ends, Works
        <4> QED BY <4>1 DEF Spoken
      <3> QED BY <3>2, <3>3
    <2> QED BY <2>1, <2>2, <2>3
  <1>3. ASSUME NEW k \in Jobs, NEW s \in Sessions, Asks(k, s)
        PROVE  Spoken(j)'
    <2>1. CASE k # j
      <3>1. SameJob(j) /\ Speaks(k, s, "user")
        BY <1>3, <2>1 DEF Asks, Works, OthersKeep, SameJob
      <3> QED BY <2>1, <3>1, SpokenStays
    <2>2. CASE k = j
      <3>1. /\ jobs[j].at = "free" /\ jobs'[j].kind = "chat" /\ jobs'[j].at # "done"
            /\ jobs'[j].session = s /\ Speaks(j, s, "user")
        BY <1>3, <2>2 DEF Asks
      <3>2. jobs[j].kind = "none"
        BY <3>1 DEF JobFits, Placed
      <3>3. PICK old, new : old = sessions[s].messages /\ new = sessions'[s].messages
        OBVIOUS
      <3>4. \A i \in DOMAIN old : old[i].of # j
        BY <3>2, <3>3 DEF Spoken
      <3>5. /\ Len(new) = Len(old) + 1 /\ Len(old) \in Nat
            /\ DOMAIN new = 1..Len(new) /\ DOMAIN old = 1..Len(old)
            /\ new[Len(new)] = AI!Says("user", j) /\ \A i \in 1..Len(old) : new[i] = old[i]
        BY <3>1, <3>3, SpeaksFacts DEF Grown
      <3>6. ASSUME NEW i \in DOMAIN new
            PROVE  /\ AppearsAt(j, "user", s, i)' <=> i = Len(new)
                   /\ ~AppearsAt(j, "model", s, i)'
        <4>1. AppearsAt(j, "user", s, i)' <=> new[i] = AI!Says("user", j)
          BY <3>3 DEF AppearsAt
        <4>2. AppearsAt(j, "model", s, i)' <=> new[i] = AI!Says("model", j)
          BY <3>3 DEF AppearsAt
        <4>3. CASE i \in 1..Len(old)
          BY <3>4, <3>5, <4>1, <4>2, <4>3 DEF AI!Says
        <4>4. CASE i = Len(new)
          BY <3>5, <4>1, <4>2, <4>4 DEF AI!Says
        <4> QED BY <3>5, <4>3, <4>4
      <3>7. Len(new) \in DOMAIN new
        BY <3>5
      <3> QED BY <3>1, <3>3, <3>6, <3>7 DEF Spoken
    <2> QED BY <2>1, <2>2
  <1> QED BY <1>1, <1>2, <1>3, ServerStep

LEMMA TurnsStay ==
    ASSUME NEW s \in Sessions, Turns(s), sessions'[s].messages = sessions[s].messages,
           sessions[s].exists => sessions'[s].exists, s \in crowded => s \in crowded',
           \A k \in Jobs : Chatting(k, s)' <=> Chatting(k, s)
    PROVE  Turns(s)'
  BY DEF Turns

LEMMA Parity ==
    \A n \in Nat : /\ n % 2 \in {0, 1} /\ (n % 2 = 0 => (n + 1) % 2 = 1)
                   /\ n % 2 = 1 => (n + 1) % 2 = 0
  OBVIOUS

LEMMA TurnsStep ==
    ASSUME AI!TypeOK, \A k \in Jobs : JobFits(k), \A k \in Jobs : Spoken(k),
           \A s \in Sessions : Turns(s), AI!Next, NEW s \in Sessions
    PROVE  Turns(s)'
  <1>1. CASE Quiet /\ crowded' = crowded
    <2>1. \A k \in Jobs : Chatting(k, s)' <=> Chatting(k, s)
      BY <1>1, QuietFacts DEF SameJob, Chatting
    <2> QED BY <1>1, <2>1, QuietFacts, TurnsStay
  <1>2. ASSUME NEW j \in Jobs, Goes(j), crowded' = crowded
        PROVE  Turns(s)'
    <2>1. Works(j) /\ \A k \in Jobs \ {j} : Chatting(k, s)' <=> Chatting(k, s)
      BY <1>2, GoesFacts DEF SameJob, Chatting
    <2>2. CASE ~Replies(j)
      <3>1. sessions' = sessions
        BY <1>2, <2>2, GoesFacts
      <3>2. Chatting(j, s)' <=> Chatting(j, s)
        <4>1. CASE Moves(j)
          BY <4>1 DEF Moves, Works, Chatting
        <4>2. CASE Starts(j, "rag") \/ Starts(j, "index")
          <5>1. jobs[j].kind = "none" /\ jobs'[j].kind # "chat"
            BY <4>2 DEF Starts, JobFits, Placed
          <5> QED BY <5>1 DEF Chatting
        <4>3. CASE EndsRag(j) \/ EndsIndex(j)
          <5>1. jobs[j].kind # "chat" /\ jobs'[j].kind # "chat"
            BY <4>3 DEF EndsRag, EndsIndex, Ends, Works
          <5> QED BY <5>1 DEF Chatting
        <4> QED BY <1>2, <2>2, <4>1, <4>2, <4>3 DEF Goes
      <3> QED BY <1>2, <2>1, <3>1, <3>2, TurnsStay
    <2>3. CASE Replies(j) /\ jobs[j].session # s
      <3>1. sessions'[s] = sessions[s]
        BY <2>3 DEF Replies, Speaks, OtherSessionsKeep
      <3>2. Chatting(j, s)' <=> Chatting(j, s)
        BY <2>3 DEF Replies, Ends, Works, Chatting
      <3> QED BY <1>2, <2>1, <3>1, <3>2, TurnsStay
    <2>4. CASE Replies(j) /\ jobs[j].session = s
      <3>1. Speaks(j, s, "model") /\ Chatting(j, s) /\ ~Chatting(j, s)'
        BY <2>4 DEF Replies, Ends, Chatting
      <3>2. PICK old, new : old = sessions[s].messages /\ new = sessions'[s].messages
        OBVIOUS
      <3>3. Grown(old, new, AI!Says("model", j))
        BY <3>1, <3>2, SpeaksFacts
      <3>4. sessions'[s].exists
        <4>1. \E a \in DOMAIN old : TRUE
          BY <2>4, <3>2 DEF Replies, Spoken
        <4>2. old # <<>>
          BY <4>1
        <4> QED BY <3>1, <3>2, <4>2 DEF Turns, Speaks
      <3>5. SUFFICES ASSUME s \notin crowded
                     PROVE  /\ \A i \in DOMAIN new : IF i % 2 = 1 THEN new[i].role = "user"
                                                     ELSE new[i] = AI!Says("model", new[i - 1].of)
                            /\ \A k \in Jobs : ~Chatting(k, s)'
                            /\ Len(new) % 2 = 0
        BY <1>2, <3>2, <3>4 DEF Turns
      <3>6. /\ \A i \in DOMAIN old : IF i % 2 = 1 THEN old[i].role = "user"
                                     ELSE old[i] = AI!Says("model", old[i - 1].of)
            /\ \A k \in Jobs : Chatting(k, s) => k = j
            /\ Len(old) % 2 = 1 /\ old[Len(old)] = AI!Says("user", j)
        BY <3>1, <3>2, <3>5 DEF Turns
      <3>7. Len(new) % 2 = 0 /\ Len(new) % 2 # 1
        BY <3>3, <3>6, Parity DEF Grown
      <3>8. \A k \in Jobs : ~Chatting(k, s)'
        BY <2>1, <3>1, <3>6
      <3>9. ASSUME NEW i \in DOMAIN new
            PROVE  IF i % 2 = 1 THEN new[i].role = "user"
                   ELSE new[i] = AI!Says("model", new[i - 1].of)
        <4>1. CASE i = Len(new)
          <5>1. Len(new) - 1 = Len(old) /\ Len(old) \in 1..Len(old)
            BY <3>3, <3>6 DEF Grown
          <5>2. new[Len(new) - 1] = AI!Says("user", j)
            BY <3>3, <3>6, <5>1 DEF Grown
          <5> QED BY <3>3, <3>7, <4>1, <5>2 DEF Grown, AI!Says
        <4>2. CASE i # Len(new)
          <5>1. i \in DOMAIN old /\ i \in 1..Len(old) /\ i \in Nat
            BY <3>3, <4>2 DEF Grown
          <5>2. new[i] = old[i]
            BY <3>3, <5>1 DEF Grown
          <5>3. CASE i % 2 = 1
            BY <3>6, <5>1, <5>2, <5>3
          <5>4. CASE i % 2 # 1
            <6>1. i - 1 \in 1..Len(old)
              BY <3>3, <5>1, <5>4 DEF Grown
            <6>2. new[i - 1] = old[i - 1]
              BY <3>3, <6>1 DEF Grown
            <6> QED BY <3>6, <5>1, <5>2, <5>4, <6>2
          <5> QED BY <5>3, <5>4
        <4> QED BY <4>1, <4>2
      <3> QED BY <3>7, <3>8, <3>9
    <2> QED BY <2>2, <2>3, <2>4
  <1>3. ASSUME NEW j \in Jobs, NEW t \in Sessions, Asks(j, t), Entered(t)
        PROVE  Turns(s)'
    <2>1. /\ \A k \in Jobs \ {j} : Chatting(k, s)' <=> Chatting(k, s)
          /\ ~Chatting(j, s) /\ (Chatting(j, s)' <=> s = t)
      <3>1. jobs[j].kind = "none"
        BY <1>3 DEF Asks, JobFits, Placed
      <3> QED BY <1>3, <3>1 DEF Asks, Works, OthersKeep, Chatting
    <2>2. CASE s # t
      <3>1. sessions'[s] = sessions[s]
        BY <1>3, <2>2 DEF Asks, Speaks, OtherSessionsKeep
      <3>2. s \in crowded' <=> s \in crowded
        BY <1>3, <2>2 DEF Entered
      <3> QED BY <2>1, <2>2, <3>1, <3>2, TurnsStay
    <2>3. CASE s = t
      <3>1. Speaks(j, s, "user") /\ sessions'[s].exists
        BY <1>3, <2>3 DEF Asks
      <3>2. PICK old, new : old = sessions[s].messages /\ new = sessions'[s].messages
        OBVIOUS
      <3>3. Grown(old, new, AI!Says("user", j))
        BY <3>1, <3>2, SpeaksFacts
      <3>4. SUFFICES ASSUME s \notin crowded'
                     PROVE  /\ \A i \in DOMAIN new : IF i % 2 = 1 THEN new[i].role = "user"
                                                     ELSE new[i] = AI!Says("model", new[i - 1].of)
                            /\ \A k \in Jobs : Chatting(k, s)' => k = j
                            /\ Len(new) % 2 = 1 /\ new[Len(new)] = AI!Says("user", j)
        BY <2>1, <2>3, <3>1, <3>2 DEF Turns
      <3>5. s \notin crowded /\ \A k \in Jobs : ~Chatting(k, s)
        BY <1>3, <2>3, <3>4 DEF Entered, Chatting
      <3>6. /\ \A i \in DOMAIN old : IF i % 2 = 1 THEN old[i].role = "user"
                                     ELSE old[i] = AI!Says("model", old[i - 1].of)
            /\ Len(old) % 2 = 0
        BY <3>2, <3>5 DEF Turns
      <3>7. Len(new) % 2 = 1 /\ new[Len(new)] = AI!Says("user", j)
        BY <3>3, <3>6, Parity DEF Grown
      <3>8. ASSUME NEW i \in DOMAIN new
            PROVE  IF i % 2 = 1 THEN new[i].role = "user"
                   ELSE new[i] = AI!Says("model", new[i - 1].of)
        <4>1. CASE i = Len(new)
          BY <3>7, <4>1 DEF AI!Says
        <4>2. CASE i # Len(new)
          <5>1. i \in DOMAIN old /\ i \in 1..Len(old) /\ i \in Nat
            BY <3>3, <4>2 DEF Grown
          <5>2. new[i] = old[i]
            BY <3>3, <5>1 DEF Grown
          <5>3. CASE i % 2 = 1
            BY <3>6, <5>1, <5>2, <5>3
          <5>4. CASE i % 2 # 1
            <6>1. i - 1 \in 1..Len(old)
              BY <3>3, <5>1, <5>4 DEF Grown
            <6>2. new[i - 1] = old[i - 1]
              BY <3>3, <6>1 DEF Grown
            <6> QED BY <3>6, <5>1, <5>2, <5>4, <6>2
          <5> QED BY <5>3, <5>4
        <4> QED BY <4>1, <4>2
      <3> QED BY <2>1, <3>5, <3>7, <3>8
    <2> QED BY <2>2, <2>3
  <1> QED BY <1>1, <1>2, <1>3, ServerStep

-----------------------------------------------------------------------------
(* The log *)

LEMMA EntryStays ==
    ASSUME NEW j \in Jobs, Entry(j), gatewayLogs' = gatewayLogs, Logged(j)' <=> Logged(j),
           Logged(j) => jobs'[j].answeredBy = jobs[j].answeredBy
    PROVE  Entry(j)'
  BY DEF Entry

LEMMA EntryShifts ==
    ASSUME AI!TypeOK, AI!TypeOK', NEW j \in Jobs, NEW k \in Jobs \ {j}, Entry(j), IsLogged(k),
           SameJob(j)
    PROVE  Entry(j)'
  <1>1. PICK old, new : old = gatewayLogs /\ new = gatewayLogs'
    OBVIOUS
  <1>2. /\ old \in Seq(AI!GatewayLog) /\ new \in Seq(AI!GatewayLog) /\ LogCap \in Nat
        /\ Len(old) <= LogCap /\ Len(new) <= LogCap
    BY <1>1, PlatformAssumption DEF AI!TypeOK, AI!EngineTypeOK, AI!ConsoleAssumption,
       AI!EngineAssumption
  <1>3. /\ Len(new) >= 1 /\ Len(new) >= Len(old) /\ Len(new) <= Len(old) + 1
        /\ Len(new) < Len(old) + 1 => Len(new) = LogCap
        /\ new[1].of = k /\ \A i \in 2..Len(new) : new[i] = old[i - 1]
    BY <1>1 DEF IsLogged
  <1>4. /\ Logged(j)' <=> Logged(j)
        /\ jobs'[j].answeredBy = jobs[j].answeredBy
    BY DEF SameJob, Logged
  <1>5. DOMAIN old = 1..Len(old) /\ DOMAIN new = 1..Len(new) /\ Len(old) \in Nat /\ Len(new) \in Nat
    BY <1>2
  <1>9. /\ LogCap \in Nat /\ Len(old) \in Nat /\ Len(new) \in Nat
        /\ Len(old) <= Len(new) /\ Len(new) <= LogCap
        /\ Len(new) < Len(old) + 1 => Len(new) = LogCap
    BY <1>2, <1>3, <1>5
  <1>6. ASSUME NEW i \in DOMAIN new
        PROVE  new[i].of = j => i - 1 \in DOMAIN old /\ new[i] = old[i - 1]
    <2>1. CASE i = 1
      BY <1>3, <2>1
    <2>2. CASE i # 1
      BY <1>3, <1>5, <2>2
    <2> QED BY <2>1, <2>2
  <1>7. CASE \A i \in DOMAIN old : old[i].of # j
    <2>1. \A i \in DOMAIN new : new[i].of # j
      BY <1>6, <1>7
    <2>2. Logged(j) => Len(old) = LogCap
      BY <1>1, <1>7 DEF Entry
    <2>3. Logged(j) => Len(new) = LogCap
      BY <1>9, <2>2
    <2> QED BY <1>1, <1>4, <2>1, <2>3 DEF Entry
  <1>8. CASE ~(\A i \in DOMAIN old : old[i].of # j)
    <2>1. Logged(j)
      BY <1>1, <1>8 DEF Entry
    <2>2. PICK a \in DOMAIN old :
            /\ \A i \in DOMAIN old : old[i].of = j <=> i = a
            /\ old[a].status = "success" <=> jobs[j].answeredBy # AI!NoModel
      BY <1>1, <1>8, <2>1 DEF Entry
    <2>3. a \in Nat /\ a >= 1 /\ a <= Len(old)
      BY <1>5, <2>2
    <2>4. CASE a + 1 <= Len(new)
      <3>1. a + 1 \in 2..Len(new) /\ a + 1 \in DOMAIN new /\ (a + 1) - 1 = a
        BY <1>5, <2>3, <2>4
      <3>2. new[a + 1] = old[a]
        BY <1>3, <3>1
      <3>3. ASSUME NEW i \in DOMAIN new
            PROVE  new[i].of = j <=> i = a + 1
        <4>1. new[i].of = j => i = a + 1
          BY <1>5, <1>6, <2>2, <2>3
        <4> QED BY <2>2, <3>2, <4>1
      <3>4. new[a + 1].status = "success" <=> jobs'[j].answeredBy # AI!NoModel
        BY <1>4, <2>2, <3>2
      <3> QED BY <1>1, <1>4, <2>1, <3>1, <3>3, <3>4 DEF Entry
    <2>5. CASE ~(a + 1 <= Len(new))
      <3>1. Len(new) = LogCap
        BY <1>9, <2>3, <2>5
      <3>2. \A i \in DOMAIN new : new[i].of # j
        <4>1. ASSUME NEW i \in DOMAIN new, new[i].of = j
              PROVE  FALSE
          <5>1. i - 1 = a
            BY <1>6, <2>2, <4>1
          <5> QED BY <1>5, <2>3, <2>5, <5>1
        <4> QED BY <4>1
      <3> QED BY <1>1, <1>4, <2>1, <3>1, <3>2 DEF Entry
    <2> QED BY <2>4, <2>5
  <1> QED BY <1>7, <1>8

\* The entry of the request that ends.
LEMMA EntryBegins ==
    ASSUME AI!TypeOK, AI!TypeOK', NEW j \in Jobs, Entry(j), ~Logged(j), Logged(j)', IsLogged(j)
    PROVE  Entry(j)'
  <1>1. \A i \in DOMAIN gatewayLogs : gatewayLogs[i].of # j
    BY DEF Entry
  <1>2. /\ gatewayLogs \in Seq(AI!GatewayLog) /\ gatewayLogs' \in Seq(AI!GatewayLog)
        /\ Len(gatewayLogs) \in Nat /\ Len(gatewayLogs') \in Nat
        /\ DOMAIN gatewayLogs = 1..Len(gatewayLogs) /\ DOMAIN gatewayLogs' = 1..Len(gatewayLogs')
    BY DEF AI!TypeOK, AI!EngineTypeOK
  <1>3. 1 \in DOMAIN gatewayLogs'
    BY <1>2 DEF IsLogged
  <1>4. ASSUME NEW i \in DOMAIN gatewayLogs'
        PROVE  gatewayLogs'[i].of = j <=> i = 1
    <2>1. CASE i = 1
      BY <2>1 DEF IsLogged
    <2>2. CASE i # 1
      <3>1. i \in 2..Len(gatewayLogs') /\ i - 1 \in DOMAIN gatewayLogs
        BY <1>2, <2>2 DEF IsLogged
      <3> QED BY <1>1, <2>2, <3>1 DEF IsLogged
    <2> QED BY <2>1, <2>2
  <1>5. gatewayLogs'[1].status = "success" <=> jobs'[j].answeredBy # AI!NoModel
    BY DEF IsLogged
  <1> QED BY <1>3, <1>4, <1>5 DEF Entry

LEMMA EntryStep ==
    ASSUME AI!TypeOK, AI!TypeOK', \A k \in Jobs : JobFits(k), \A s \in Sessions : Turns(s),
           \A k \in Jobs : Entry(k), AI!Next, NEW j \in Jobs
    PROVE  Entry(j)'
  <1>1. CASE Quiet
    <2>1. gatewayLogs' = gatewayLogs /\ SameJob(j)
      BY <1>1, QuietFacts
    <2>2. Logged(j)' <=> Logged(j)
      BY <2>1 DEF SameJob, Logged
    <2> QED BY <2>1, <2>2, EntryStays DEF SameJob
  <1>2. ASSUME NEW k \in Jobs, Goes(k)
        PROVE  Entry(j)'
    <2>1. CASE k # j
      <3>1. SameJob(j)
        BY <1>2, <2>1, GoesFacts
      <3>2. CASE Replies(k) \/ EndsRag(k)
        BY <2>1, <3>1, <3>2, EntryShifts DEF Replies, EndsRag
      <3>3. CASE ~(Replies(k) \/ EndsRag(k))
        <4>1. gatewayLogs' = gatewayLogs
          BY <1>2, <3>3 DEF Goes, Starts, Moves, EndsIndex
        <4>2. Logged(j)' <=> Logged(j)
          BY <3>1 DEF SameJob, Logged
        <4> QED BY <3>1, <4>1, <4>2, EntryStays DEF SameJob
      <3> QED BY <3>2, <3>3
    <2>2. CASE k = j
      <3>1. CASE Replies(j) \/ EndsRag(j)
        <4>1. ~Logged(j) /\ Logged(j)' /\ IsLogged(j)
          BY <3>1 DEF Replies, EndsRag, Ends, Works, Logged
        <4> QED BY <4>1, EntryBegins
      <3>2. CASE ~(Replies(j) \/ EndsRag(j))
        <4>1. gatewayLogs' = gatewayLogs /\ ~Logged(j) /\ ~Logged(j)'
          BY <1>2, <2>2, <3>2 DEF Goes, Starts, Moves, EndsIndex, Ends, Works, Logged
        <4> QED BY <4>1, EntryStays
      <3> QED BY <3>1, <3>2
    <2> QED BY <2>1, <2>2
  <1>3. ASSUME NEW k \in Jobs, NEW s \in Sessions, Asks(k, s)
        PROVE  Entry(j)'
    <2>1. CASE k # j
      <3>1. SameJob(j) /\ gatewayLogs' = gatewayLogs
        BY <1>3, <2>1 DEF Asks, Works, OthersKeep, SameJob
      <3>2. Logged(j)' <=> Logged(j)
        BY <3>1 DEF SameJob, Logged
      <3> QED BY <3>1, <3>2, EntryStays DEF SameJob
    <2>2. CASE k = j
      <3>1. gatewayLogs' = gatewayLogs /\ ~Logged(j) /\ ~Logged(j)'
        BY <1>3, <2>2 DEF Asks, Logged
      <3> QED BY <3>1, EntryStays
    <2> QED BY <2>1, <2>2
  <1> QED BY <1>1, <1>2, <1>3, ServerStep

-----------------------------------------------------------------------------
(* The AI platform *)

LEMMA PlatformStarts == AI!Init => PlatformInv
  <1> SUFFICES ASSUME AI!Init PROVE PlatformInv
    OBVIOUS
  <1>1. AI!TypeOK
    BY InitTypes
  <1>2. /\ \A j \in Jobs : aiCalls[j] = AI!NoCall /\ jobs[j] = AI!FreeJob
        /\ \A copy \in AI!Copies : fetches[copy] = AI!NoFetch
        /\ aiLoaded = {} /\ gatewayConfig = AI!SeedConfig /\ wanted = AI!SeedConfig
    BY DEF AI!Init, AI!EngineInit
  <1>3. /\ \A j \in Jobs : aiCalls[j].stage = "unused" /\ aiCalls[j].op = "prompt"
        /\ \A j \in Jobs : jobs[j].at = "free" /\ jobs[j].kind = "none"
        /\ \A copy \in AI!Copies : fetches[copy].stage = "none"
    BY <1>2 DEF AI!NoCall, AI!FreeJob, AI!NoFetch
  <1>4. \A j \in Jobs : JobFits(j)
    BY <1>3 DEF JobFits, Placed
  <1>5. \A j \in Jobs, copy \in AI!Copies : ~About(j, copy)
    BY <1>3 DEF About, AI!Pending
  <1>6. "config" \in AI!Copies /\ "sessions" \in AI!Copies
    BY DEF AI!Copies
  <1>7. OneAsks
    BY <1>5 DEF OneAsks
  <1>8. PolicyAgrees
    BY <1>2, <1>3, <1>5, <1>6 DEF PolicyAgrees
  <1>9. \A j \in Jobs, s \in Sessions : ~Chatting(j, s)
    BY <1>3 DEF Chatting
  <1>10. SessionsAgree
    BY <1>2, <1>3, <1>5, <1>6, <1>9 DEF SessionsAgree
  <1>11. Jobs \subseteq Nat \ {0}
    BY PlatformAssumption DEF AI!ConsoleAssumption, AI!EngineAssumption
  <1>12. ASSUME NEW s \in Sessions
         PROVE  sessions[s].messages =
                  IF s = SeedSession THEN <<AI!Says("user", 0), AI!Says("model", 0)>> ELSE <<>>
    BY DEF AI!Init, AI!EngineInit, AI!NoSession
  <1>13. ASSUME NEW j \in Jobs
         PROVE  Spoken(j)
    <2>1. ASSUME NEW t \in Sessions, NEW i \in DOMAIN sessions[t].messages
          PROVE  sessions[t].messages[i].of # j
      <3>1. CASE t = SeedSession
        <4>1. i \in {1, 2} /\ sessions[t].messages = <<AI!Says("user", 0), AI!Says("model", 0)>>
          BY <1>12, <2>1, <3>1
        <4> QED BY <1>11, <4>1 DEF AI!Says
      <3>2. CASE t # SeedSession
        BY <1>12, <2>1, <3>2
      <3> QED BY <3>1, <3>2
    <2> QED BY <1>3, <2>1 DEF Spoken
  <1>14. ASSUME NEW s \in Sessions
         PROVE  Turns(s)
    <2>1. CASE s = SeedSession
      <3>1. sessions[s].exists /\ sessions[s].messages = <<AI!Says("user", 0), AI!Says("model", 0)>>
        BY <1>12, <2>1 DEF AI!Init, AI!EngineInit, AI!NoSession
      <3>2. Len(<<AI!Says("user", 0), AI!Says("model", 0)>>) % 2 = 0
        OBVIOUS
      <3>3. ASSUME NEW i \in DOMAIN sessions[s].messages
            PROVE  IF i % 2 = 1 THEN sessions[s].messages[i].role = "user"
                   ELSE sessions[s].messages[i] = AI!Says("model", sessions[s].messages[i - 1].of)
        <4>1. i = 1 \/ i = 2
          BY <3>1, <3>3
        <4> QED BY <3>1, <4>1 DEF AI!Says
      <3> QED BY <1>9, <3>1, <3>2, <3>3 DEF Turns
    <2>2. CASE s # SeedSession
      <3>1. sessions[s].messages = <<>> /\ Len(<<>>) % 2 = 0
        BY <1>12, <2>2
      <3> QED BY <1>9, <3>1 DEF Turns
    <2> QED BY <2>1, <2>2
  <1>15. ASSUME NEW j \in Jobs
         PROVE  Entry(j)
    <2>1. \A i \in DOMAIN gatewayLogs : gatewayLogs[i].of = 0
      BY DEF AI!Init, AI!EngineInit
    <2>2. ~Logged(j)
      BY <1>3 DEF Logged
    <2> QED BY <1>11, <2>1, <2>2 DEF Entry
  <1> QED BY <1>1, <1>4, <1>7, <1>8, <1>10, <1>13, <1>14, <1>15 DEF PlatformInv

LEMMA PlatformSteps == PlatformInv /\ [AI!Next]_(AI!vars) => PlatformInv'
  <1> SUFFICES ASSUME PlatformInv, [AI!Next]_(AI!vars) PROVE PlatformInv'
    OBVIOUS
  <1>1. /\ AI!TypeOK /\ \A j \in Jobs : JobFits(j)
        /\ OneAsks /\ PolicyAgrees /\ SessionsAgree
        /\ \A j \in Jobs : Spoken(j)
        /\ \A s \in Sessions : Turns(s)
        /\ \A j \in Jobs : Entry(j)
    BY DEF PlatformInv
  <1>2. AI!TypeOK'
    BY <1>1, TypeStep
  <1>3. CASE AI!Next
    <2>1. (\A j \in Jobs : JobFits(j))'
      BY <1>1, <1>3, FitsStep
    <2>2. OneAsks'
      BY <1>1, <1>3, OneAsksStep
    <2>3. PolicyAgrees'
      BY <1>1, <1>3, PolicyStep
    <2>4. SessionsAgree'
      BY <1>1, <1>3, SessionsStep
    <2>5. (\A j \in Jobs : Spoken(j))'
      BY <1>1, <1>3, SpokenStep
    <2>6. (\A s \in Sessions : Turns(s))'
      BY <1>1, <1>3, TurnsStep
    <2>7. (\A j \in Jobs : Entry(j))'
      BY <1>1, <1>2, <1>3, EntryStep
    <2> QED BY <1>2, <2>1, <2>2, <2>3, <2>4, <2>5, <2>6, <2>7 DEF PlatformInv
  <1>4. CASE UNCHANGED AI!vars
    <2>1. UNCHANGED <<gatewayConfig, gatewayLogs, sessions, jobs, config, shown, fetches,
                      aiLoaded, aiCalls, wanted, aiRaced, crowded>>
      BY <1>4 DEF AI!vars, AI!engine, AI!console, AI!history
    <2>2. (\A j \in Jobs : JobFits(j))'
      BY <1>1, <2>1 DEF JobFits, Placed
    <2>3. \A j \in Jobs, copy \in AI!Copies : About(j, copy)' <=> About(j, copy)
      BY <2>1 DEF About, AI!Pending
    <2>4. OneAsks'
      BY <1>1, <2>1, <2>3 DEF OneAsks, AI!Mine
    <2>5. "config" \in AI!Copies /\ "sessions" \in AI!Copies
      BY DEF AI!Copies
    <2>6. PolicyAgrees'
      BY <1>1, <2>1, <2>3, <2>5 DEF PolicyAgrees
    <2>7. \A j \in Jobs, s \in Sessions : Chatting(j, s)' <=> Chatting(j, s)
      BY <2>1 DEF Chatting
    <2>8. SessionsAgree'
      <3>1. CASE "sessions" \in aiRaced
        BY <2>1, <3>1 DEF SessionsAgree
      <3>2. CASE "sessions" \notin aiRaced
        BY <1>1, <2>1, <2>7, <3>2, SessionsUnmoved
      <3> QED BY <3>1, <3>2
    <2>9. (\A j \in Jobs : Spoken(j))'
      BY <1>1, <2>1 DEF Spoken, AppearsAt
    <2>10. (\A s \in Sessions : Turns(s))'
      BY <1>1, <2>1, <2>7, TurnsStay
    <2>11. (\A j \in Jobs : Entry(j))'
      BY <1>1, <2>1 DEF Entry, Logged
    <2> QED BY <1>2, <2>2, <2>4, <2>6, <2>8, <2>9, <2>10, <2>11 DEF PlatformInv
  <1> QED BY <1>3, <1>4

LEMMA PlatformInvariance == AI!Spec => []PlatformInv
  BY PlatformStarts, PlatformSteps, PTL DEF AI!Spec

LEMMA PolicyFollows == PlatformInv => AI!TypeOK /\ AI!SettingsStick
  <1> SUFFICES ASSUME PlatformInv PROVE AI!TypeOK /\ AI!SettingsStick
    OBVIOUS
  <1>1. AI!TypeOK /\ PolicyAgrees
    BY DEF PlatformInv
  <1>2. ASSUME "config" \notin aiRaced, ~AI!Busy("config")
        PROVE  gatewayConfig = wanted /\ ("config" \in aiLoaded => config = wanted)
    <2>1. \A j \in Jobs : ~About(j, "config")
      BY <1>2 DEF AI!Busy, About
    <2> QED BY <1>1, <1>2, <2>1 DEF PolicyAgrees
  <1> QED BY <1>1, <1>2 DEF AI!SettingsStick

LEMMA ChatsFollow == PlatformInv => AI!ConversationsAgree /\ AI!TurnsAlternate /\ AI!LogsTellTruth
  <1> SUFFICES ASSUME PlatformInv
               PROVE  AI!ConversationsAgree /\ AI!TurnsAlternate /\ AI!LogsTellTruth
    OBVIOUS
  <1>1. AI!ConversationsAgree
    <2>1. ASSUME "sessions" \in aiLoaded \ aiRaced, ~AI!Busy("sessions"), NEW s \in Sessions
          PROVE  Told(s, sessions[s].messages)
      <3>1. \A j \in Jobs : ~About(j, "sessions")
        BY <2>1 DEF AI!Busy, About
      <3> QED BY <2>1, <3>1 DEF PlatformInv, SessionsAgree
    <2> QED BY <2>1 DEF AI!ConversationsAgree, Told
  <1>2. AI!TurnsAlternate
    <2>1. ASSUME NEW s \in Sessions, s \notin crowded, NEW i \in DOMAIN sessions[s].messages
          PROVE  IF i % 2 = 1 THEN sessions[s].messages[i].role = "user"
                 ELSE sessions[s].messages[i] = AI!Says("model", sessions[s].messages[i - 1].of)
      BY <2>1 DEF PlatformInv, Turns
    <2>2. ASSUME NEW s \in Sessions, NEW j \in Jobs,
                 jobs[j].kind = "chat", jobs[j].session = s, jobs[j].at = "done"
          PROVE  \E a, b \in DOMAIN sessions[s].messages :
                   /\ a < b
                   /\ {i \in DOMAIN sessions[s].messages :
                         sessions[s].messages[i] = AI!Says("user", j)} = {a}
                   /\ {i \in DOMAIN sessions[s].messages :
                         sessions[s].messages[i] = AI!Says("model", j)} = {b}
      <3>1. PICK a \in DOMAIN sessions[s].messages, b \in DOMAIN sessions[s].messages :
              /\ \A i \in DOMAIN sessions[s].messages : AppearsAt(j, "user", s, i) <=> i = a
              /\ a < b /\ \A i \in DOMAIN sessions[s].messages :
                   AppearsAt(j, "model", s, i) <=> i = b
        BY <2>2 DEF PlatformInv, Spoken
      <3> QED BY <3>1 DEF AppearsAt
    <2> QED BY <2>1, <2>2 DEF AI!TurnsAlternate
  <1>3. AI!LogsTellTruth
    <2>1. ASSUME NEW j \in Jobs
          PROVE  LET mine == {i \in DOMAIN gatewayLogs : gatewayLogs[i].of = j} IN
                 IF jobs[j].at = "done" /\ jobs[j].kind \in {"chat", "rag"}
                 THEN /\ AI!Cardinality(mine) = 1 \/ (mine = {} /\ Len(gatewayLogs) = LogCap)
                      /\ \A i \in mine : (gatewayLogs[i].status = "success")
                                            <=> (jobs[j].answeredBy # AI!NoModel)
                 ELSE mine = {}
      <3> DEFINE mine == {i \in DOMAIN gatewayLogs : gatewayLogs[i].of = j}
      <3>1. Entry(j)
        BY DEF PlatformInv
      <3>2. CASE ~Logged(j)
        <4>1. mine = {}
          BY <3>1, <3>2 DEF Entry
        <4> QED BY <3>2, <4>1 DEF Logged
      <3>3. CASE Logged(j) /\ Len(gatewayLogs) = LogCap
                 /\ \A i \in DOMAIN gatewayLogs : gatewayLogs[i].of # j
        <4>1. mine = {}
          BY <3>3
        <4> QED BY <3>3, <4>1 DEF Logged
      <3>4. CASE Logged(j) /\ \E a \in DOMAIN gatewayLogs :
                   /\ \A i \in DOMAIN gatewayLogs : gatewayLogs[i].of = j <=> i = a
                   /\ gatewayLogs[a].status = "success" <=> jobs[j].answeredBy # AI!NoModel
        <4>1. PICK a \in DOMAIN gatewayLogs :
                /\ \A i \in DOMAIN gatewayLogs : gatewayLogs[i].of = j <=> i = a
                /\ gatewayLogs[a].status = "success" <=> jobs[j].answeredBy # AI!NoModel
          BY <3>4
        <4>2. mine = {a}
          BY <4>1
        <4>3. AI!Cardinality(mine) = 1
          BY <4>2, FS_Singleton, Counted
        <4>4. \A i \in mine : gatewayLogs[i].status = "success" <=> jobs[j].answeredBy # AI!NoModel
          BY <4>1, <4>2
        <4> HIDE DEF mine
        <4>5. jobs[j].at = "done" /\ jobs[j].kind \in {"chat", "rag"}
          BY <3>4 DEF Logged
        <4> QED BY <4>3, <4>4, <4>5 DEF mine
      <3> QED BY <3>1, <3>2, <3>3, <3>4 DEF Entry
    <2> QED BY <2>1 DEF AI!LogsTellTruth
  <1> QED BY <1>1, <1>2, <1>3

\* The gateway policy on the server and on the page is the one last chosen
\* (AIPlatformDashboard.tsx:237-254), with the types of the platform.
THEOREM SettingsStayChosen == AI!Spec => []SettingsStick
  BY PlatformInvariance, PolicyFollows, PTL DEF SettingsStick

\* The page shows the messages the server keeps of a conversation (not its
\* summary, which line 408 overwrites); questions and replies alternate; every finished request is logged once, by its outcome
\* (aiEngine.ts:396-517, AIPlatformDashboard.tsx:365-420).
THEOREM ChatsStayTold == AI!Spec => []ChatsAreTold
  BY PlatformInvariance, ChatsFollow, PTL DEF ChatsAreTold

-----------------------------------------------------------------------------
\* The composition runs each platform as it runs alone.
THEOREM PlatformsRunTheirParts == PlatformsSpec => Spec /\ AI!Spec
  <1>1. PlatformsInit => Init /\ AI!Init
    BY DEF PlatformsInit
  <1>2. [PlatformsNext]_<<part, vars, aiVars>> => [Next]_vars /\ [AI!Next]_(AI!vars)
    BY Zenon DEF PlatformsNext, OfZeroTrust, OfAI, aiVars, AI!vars, AI!engine, AI!console,
       AI!history
  <1> QED BY <1>1, <1>2, PTL DEF PlatformsSpec, Spec, AI!Spec
=============================================================================
