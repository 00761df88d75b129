----------------------------- MODULE ZeroTrust ------------------------------
(***************************************************************************)
(* The Zero Trust console (ZeroTrustDashboard.tsx) over SecurityEngine.    *)
(*                                                                         *)
(* Every handler of the console is one call: it sends a request, changes   *)
(* its copy of the lists when the answer is there, reads the logs again    *)
(* and ends.  Between these points anything may happen: other calls, the   *)
(* poll, requests of other clients, leaving the page and coming back.  A   *)
(* handler goes on with the lists it saw when it was clicked (the closure  *)
(* of its render) unless it updates by a function of the present ones.     *)
(*                                                                         *)
(* Detail panels, input fields, the copies of the logs and the poll that    *)
(* refreshes them, and the traces of a rotation are left out: an answer    *)
(* may be used any time after it came, as it may after the animation.      *)
(* Nothing on the page calls handleRotateTransitKey (lines 374-389), so    *)
(* only other clients rotate a transit key.                                *)
(***************************************************************************)
EXTENDS SecurityEngine, FiniteSets

CONSTANTS
    MaxCalls,           \* bound: calls of the console and of other clients
    Rotatable,          \* paths whose row has a rotation button
    Users, UserRoles,   \* the Keycloak users and their roles
    FirstUser,          \* the one a token is asked for at the start
    Nobody              \* the item of a call that names none

ASSUME ConsoleAssumption ==
    /\ MaxCalls \in Nat
    /\ Rotatable \subseteq Paths
    /\ UserRoles \in [Users -> SUBSET Roles] /\ FirstUser \in Users
    /\ Methods # {}

Calls == 1..MaxCalls
Items == Workloads \cup Paths \cup Policies \cup KeyIds
           \cup Users \cup {Nobody}

Ops == {"load", "rotateSvid", "rotateSecret", "addSecret", "issueJwt", "saveOpa",
        "evaluate", "createKey", "revokeKey", "simulate"}

\* Operations that show a spinner while they run.
Spinning == {"rotateSvid", "rotateSecret", "issueJwt", "evaluate", "simulate"}
\* Those whose button the spinner disables.
Guarded == {"rotateSvid", "rotateSecret", "simulate"}

Lists == {"svids", "secrets", "transitKeys", "opaPolicies", "apiKeys"}

\* The lists an operation reads or changes.
Concerns(op) ==
    CASE op = "load" -> Lists
      [] op = "rotateSvid" -> {"svids"}
      [] op \in {"rotateSecret", "addSecret"} -> {"secrets"}
      [] op = "saveOpa" -> {"opaPolicies"}
      [] op \in {"createKey", "revokeKey"} -> {"apiKeys"}
      [] OTHER -> {}

VARIABLES
    open,       \* the page is shown
    mounts,     \* how often it was opened: a call belongs to one of them
    view,       \* its copy of the tables
    loaded,     \* fetchInitialData has filled the copies
    busy,       \* the spinners that turn
    calls, started,
    outside,    \* requests of other clients so far
    raced       \* history: lists that a call concerned while another did, or
                \* that changed without the console

console == <<open, mounts, view, loaded, busy>>
vars == <<store, console, calls, started, outside, raced>>

EmptyTables ==
    [svids |-> [w \in Workloads |-> [issue |-> 0, status |-> "none"]],
     secrets |-> [p \in Paths |->
        [version |-> 0, data |-> SeedData, history |-> <<>>]],
     transitKeys |-> [k \in TransitKeys |-> 0],
     opaPolicies |-> [p \in Policies |-> SeedText],
     apiKeys |-> [k \in KeyIds |-> "none"]]

\* "sent" until the server has handled the request, "served" until the
\* answer is used, "reading" while the logs are fetched again.
Stages == {"unused", "sent", "served", "reading", "ended"}

NoRequest == [roles |-> {}, method |-> CHOOSE m \in Methods : TRUE,
              restricted |-> FALSE]
Unused == [op |-> "load", stage |-> "unused", mount |-> 0, item |-> Nobody,
           data |-> SeedData, text |-> SeedText, request |-> NoRequest,
           seen |-> EmptyTables, reply |-> EmptyTables]

Init ==
    /\ StoreInit
    /\ open = FALSE /\ mounts = 0 /\ loaded = FALSE
    /\ view = EmptyTables /\ busy = {}
    /\ calls = [c \in Calls |-> Unused] /\ started = 0
    /\ outside = 0 /\ raced = {}

-----------------------------------------------------------------------------
(* A call begins. *)

\* Calls whose request or answer is still on its way.
Pending(c) == calls[c].stage \in {"sent", "served"}
Running(c) == calls[c].stage \notin {"unused", "ended"}
Mine(c) == open /\ calls[c].mount = mounts

BeingTouched == UNION {Concerns(calls[c].op) : c \in {d \in Calls : Pending(d)}}

Call(op) == [Unused EXCEPT !.op = op, !.stage = "sent", !.seen = view,
                           !.mount = mounts]

Begin(call) ==
    /\ started + outside < MaxCalls
    /\ started' = started + 1
    /\ calls' = [calls EXCEPT ![started + 1] = call]
    /\ raced' = raced \cup (Concerns(call.op) \cap BeingTouched)
    /\ UNCHANGED <<store, outside>>

\* A click on the page that is shown.
Click(call) ==
    /\ open
    /\ Begin(call)
    /\ busy' = busy \cup ({call.op} \cap Spinning)
    /\ UNCHANGED <<open, mounts, view, loaded>>

\* Mounting asks for everything.
Open ==
    /\ ~open
    /\ open' = TRUE /\ mounts' = mounts + 1 /\ loaded' = FALSE
    /\ view' = EmptyTables /\ busy' = {}
    /\ Begin([Call("load") EXCEPT !.mount = mounts + 1])

\* The rows and buttons of the page.
CertOffered(w) == view.svids[w].issue > 0 /\ "rotateSvid" \notin busy
RotationOffered(p) ==
    /\ view.secrets[p].version > 0 /\ p \in Rotatable
    /\ "rotateSecret" \notin busy
UsersShown == loaded
KeyOffered(k) == view.apiKeys[k] = "active"
SpikeOffered == "simulate" \notin busy

\* What is asked of the policy: the roles are those of the user chosen.
RequestOf(u, method, restricted) ==
    [roles |-> UserRoles[u], method |-> method, restricted |-> restricted]

RotateSvid(w) ==
    CertOffered(w) /\ Click([Call("rotateSvid") EXCEPT !.item = w])

\* The button of a row writes the fields of that row again, with another
\* password.
RotateSecret(p) ==
    /\ RotationOffered(p)
    /\ Click([Call("rotateSecret") EXCEPT !.item = p,
                                          !.data = view.secrets[p].data])

\* Any well-formed path, also one that is in use.
AddSecret(p, data) ==
    Click([Call("addSecret") EXCEPT !.item = p, !.data = data])

\* A click on a user issues a token, whatever the spinner shows.
IssueJwt(u) ==
    UsersShown /\ Click([Call("issueJwt") EXCEPT !.item = u])

\* A policy is selected once they are loaded.
SavePolicy(p, text) ==
    loaded /\ Click([Call("saveOpa") EXCEPT !.item = p, !.text = text])

Evaluate(u, method, restricted) ==
    /\ loaded
    /\ Click([Call("evaluate") EXCEPT !.request = RequestOf(u, method, restricted)])

NewApiKey == Click(Call("createKey"))

RevokeKey(k) ==
    KeyOffered(k) /\ Click([Call("revokeKey") EXCEPT !.item = k])

SimulateRateLimit == SpikeOffered /\ Click(Call("simulate"))

-----------------------------------------------------------------------------
(* The server answers, the console goes on. *)

\* What the request of a call does, whose answer names item.
Handle(call, item) ==
    CASE call.op = "rotateSvid" -> RotateWorkloadSvid(item)
      [] call.op \in {"rotateSecret", "addSecret"} ->
           RotateVaultSecret(item, call.data)
      [] call.op = "issueJwt" -> GenerateKeycloakJwt
      [] call.op = "saveOpa" -> SaveOpaPolicy(item, call.text)
      [] call.op = "evaluate" -> EvaluateOpaPolicy(call.request)
      [] call.op = "createKey" -> CreateApiKey(item)
      [] call.op = "revokeKey" -> RevokeApiKey(item)
      [] call.op = "simulate" -> TriggerRateLimitHit(Gateway)
      [] OTHER -> Refuse

FreshKey == CHOOSE k \in KeyIds : tables.apiKeys[k] = "none"

Serve(c) ==
    /\ calls[c].stage = "sent"
    /\ \E item \in IF calls[c].op = "createKey" THEN KeyIds \cap {FreshKey}
                   ELSE {calls[c].item} :
         /\ Handle(calls[c], item)
         /\ calls' = [calls EXCEPT ![c] =
              [@ EXCEPT !.stage = "served", !.item = item, !.reply = tables']]
    /\ UNCHANGED <<console, started, outside, raced>>

\* Fault: a revoked key stays as it was on the page, and a secret added again
\* too.
MergedKeepingRows(call) ==
    CASE call.op = "load" -> call.reply
      [] call.op = "rotateSvid" -> [view EXCEPT !.svids = call.reply.svids]
      [] OTHER -> view

\* The copies after the answer: only adding a path and a key starts from the
\* present ones.
Merged(call) ==
    LET i == call.item
        seen == call.seen
        reply == call.reply
    IN  CASE call.op = "load" -> reply
          [] call.op = "rotateSvid" -> [view EXCEPT !.svids =
               [seen.svids EXCEPT ![i] = reply.svids[i]]]
          [] call.op = "rotateSecret" -> [view EXCEPT !.secrets =
               [seen.secrets EXCEPT ![i] = reply.secrets[i]]]
          [] call.op = "addSecret" -> [view EXCEPT !.secrets =
               [@ EXCEPT ![i] = reply.secrets[i]]]
          [] call.op = "saveOpa" -> [view EXCEPT !.opaPolicies =
               [seen.opaPolicies EXCEPT ![i] = reply.opaPolicies[i]]]
          [] call.op = "createKey" -> [view EXCEPT !.apiKeys =
               [@ EXCEPT ![i] = reply.apiKeys[i]]]
          [] call.op = "revokeKey" -> [view EXCEPT !.apiKeys =
               [seen.apiKeys EXCEPT ![i] = reply.apiKeys[i]]]
          [] OTHER -> view

Ended == [Unused EXCEPT !.stage = "ended"]

\* Fault: no finally block, so the spinner turns on.
EndSpinning(c) ==
    /\ calls' = [calls EXCEPT ![c] = Ended]
    /\ UNCHANGED busy

\* The finally block; the setters of a page that is gone do nothing.
End(c) ==
    /\ calls' = [calls EXCEPT ![c] = Ended]
    /\ busy' = IF Mine(c) THEN busy \ {calls[c].op} ELSE busy

\* The load ends by asking for a token of the second user.
Continue(c) ==
    IF calls[c].op = "load"
    THEN /\ calls' = [calls EXCEPT ![c] =
              [Call("issueJwt") EXCEPT !.item = FirstUser,
                                     !.mount = calls[c].mount]]
         /\ busy' = IF Mine(c) THEN busy \cup {"issueJwt"} ELSE busy
    ELSE /\ calls' = [calls EXCEPT ![c].stage = "reading"]
         /\ UNCHANGED busy

Use(c) ==
    /\ calls[c].stage = "served"
    /\ view' = IF Mine(c) THEN Merged(calls[c]) ELSE view
    /\ loaded' = (loaded \/ (Mine(c) /\ calls[c].op = "load"))
    /\ Continue(c)
    /\ UNCHANGED <<store, open, mounts, started, outside, raced>>

\* The logs have been fetched again.
Finish(c) ==
    /\ calls[c].stage = "reading"
    /\ End(c)
    /\ UNCHANGED <<store, open, mounts, view, loaded, started, outside, raced>>

\* The request or the answer is lost: the handler ends in its catch block.
Fail(c) ==
    /\ Running(c)
    /\ End(c)
    /\ raced' = IF calls[c].stage = "served"
                THEN raced \cup Concerns(calls[c].op) ELSE raced
    /\ UNCHANGED <<store, open, mounts, view, loaded, started, outside>>

\* The page is unmounted; its handlers run on.
Leave ==
    /\ open
    /\ open' = FALSE
    /\ UNCHANGED <<store, mounts, view, loaded, busy, calls, started,
                   outside, raced>>

\* Other clients of the server, with requests the console never makes too.
Outside ==
    /\ started + outside < MaxCalls
    /\ outside' = outside + 1
    /\ \/ \E w \in Workloads : RotateWorkloadSvid(w) /\ raced' = raced \cup {"svids"}
       \/ \E p \in Paths, d \in Payloads :
            RotateVaultSecret(p, d) /\ raced' = raced \cup {"secrets"}
       \/ \E k \in TransitKeys :
            RotateTransitKey(k) /\ raced' = raced \cup {"transitKeys"}
       \/ \E k \in KeyIds : tables.apiKeys[k] # "none" /\ RevokeApiKey(k)
                              /\ raced' = raced \cup {"apiKeys"}
       \/ \E client \in ClientIds : TriggerRateLimitHit(client) /\ UNCHANGED raced
       \/ Refuse /\ UNCHANGED raced
    /\ UNCHANGED <<console, calls, started>>

-----------------------------------------------------------------------------
Clicks ==
    \/ \E w \in Workloads : RotateSvid(w)
    \/ \E p \in Paths : RotateSecret(p)
    \/ \E p \in Paths, d \in Payloads : AddSecret(p, d)
    \/ \E u \in Users : IssueJwt(u)
    \/ \E p \in Policies, t \in RegoTexts : SavePolicy(p, t)
    \/ \E u \in Users, m \in Methods, r \in BOOLEAN : Evaluate(u, m, r)
    \/ NewApiKey
    \/ \E k \in KeyIds : RevokeKey(k)
    \/ SimulateRateLimit

Next ==
    \/ Open \/ Leave \/ Clicks \/ Outside
    \/ \E c \in Calls : Serve(c) \/ Use(c) \/ Finish(c) \/ Fail(c)

Spec == Init /\ [][Next]_vars

-----------------------------------------------------------------------------
(* Properties *)

CallType ==
    [op : Ops, stage : Stages, mount : 0..MaxCalls, item : Items,
     data : Payloads, text : RegoTexts, request : OpaEvaluationRequest,
     seen : Tables, reply : Tables]

\* The type of the store, the console and its calls.
TypeOK ==
    /\ StoreTypeOK
    /\ open \in BOOLEAN /\ loaded \in BOOLEAN /\ mounts \in 0..MaxCalls
    /\ view \in Tables
    /\ busy \subseteq Spinning
    /\ calls \in [Calls -> CallType]
    /\ started \in 0..MaxCalls /\ outside \in 0..MaxCalls
    /\ raced \subseteq Lists

\* A list on the page is the server's as soon as no call about it is pending,
\* unless two such calls overlapped, an answer was lost or another client
\* wrote: the closures, the optimistic merging and the missing reload of
\* ZeroTrustDashboard.tsx:271-537 lose nothing else.
ViewsAgree ==
    open /\ loaded =>
      \A l \in Lists \ raced :
        (\A c \in Calls : Pending(c) => l \notin Concerns(calls[c].op))
          => view[l] = tables[l]

\* Behind a disabled button runs exactly one call of this page, and a spinner
\* never turns for nothing: what the buttons at 698, 938 and 1527 rely on.
SpinnersMatchCalls ==
    open => \A op \in Guarded :
      LET running == {c \in Calls : Running(c) /\ Mine(c) /\ calls[c].op = op}
      IN  IF op \in busy THEN Cardinality(running) = 1 ELSE running = {}

\* A step that changes a table leaves one event about it at the head of the
\* trail, and only the oldest event ever leaves (securityEngine.ts:376-403 and
\* every handler that calls it).
ChangesAreAudited ==
    [][tables' # tables =>
         /\ audited' = audited + 1
         /\ Head(auditLogs').id = audited
         /\ Head(auditLogs').status = "success"
         /\ \A i \in 2..Len(auditLogs') : auditLogs'[i] = auditLogs[i - 1]
         /\ Len(auditLogs') < Len(auditLogs) + 1 => Len(auditLogs') = AuditCap]_vars

\* What the policy in force says (securityEngine.ts:279-298): an allowed
\* request is allowed by one of its rules.
AllowFollowsRego == \A r \in granted : RegoAllows(r)
=============================================================================
