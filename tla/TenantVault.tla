----------------------------- MODULE TenantVault -----------------------------
(***************************************************************************)
(* The tenant-service: tenants are provisioned, suspended, reactivated and *)
(* crypto-shredded (service/tenant_service.go over db/tenant_db.go).       *)
(*                                                                         *)
(* Each call of the store holds its mutex.  GetByID copies the record, but *)
(* not the slice with the key: shredding zeroes the key of the stored      *)
(* record without the mutex.  Update asks only whether the tenant is       *)
(* there.  Identifiers are random; names, schemas and times are left out.  *)
(***************************************************************************)
EXTENDS Integers

CONSTANTS
    Requests,
    Tenants, NoTenant,      \* identifiers
    Seeded,                 \* the tenant of seedDemoTenants
    Domains,
    SeedDomain,
    MaxBegun                \* bound: requests

VaultAssumption ==
    /\ NoTenant \notin Tenants /\ Seeded \in Tenants
    /\ SeedDomain \in Domains /\ MaxBegun \in Nat

VARIABLES
    present,        \* tenants in the store
    domain, status, \* the fields of their records
    zeroed,         \* tenants whose key is zeroes
    req,            \* what each request is doing
    begun,
    deleted,        \* history: tenants that were deleted
    overlapped      \* history: tenants two requests were busy with at once

vars == <<present, domain, status, zeroed, req, begun, deleted, overlapped>>

\* "update" before the Update that stores goal, "zero" before the key is
\* written over, "delete" before Delete.
Idle == [at |-> "idle", tenant |-> NoTenant, goal |-> "ACTIVE"]

Init ==
    /\ present = {Seeded}
    /\ domain = [t \in Tenants |-> SeedDomain]
    /\ status = [t \in Tenants |-> "ACTIVE"]
    /\ zeroed = {}
    /\ req = [r \in Requests |-> Idle]
    /\ begun = 0
    /\ deleted = {} /\ overlapped = {}

Busy(t) == \E r \in Requests : req[r].tenant = t
Goto(r, place) == req' = [req EXCEPT ![r].at = place]
End(r) == req' = [req EXCEPT ![r] = Idle]

\* Create compares the domain with every stored one.
ProvisionTenant(t, d) ==
    /\ t \notin present \cup deleted
    /\ begun < MaxBegun /\ begun' = begun + 1
    /\ \A other \in present : domain[other] # d
    /\ present' = present \cup {t}
    /\ domain' = [domain EXCEPT ![t] = d]
    /\ UNCHANGED <<status, zeroed, req, deleted, overlapped>>

\* GetByID, the first call of the other three; whatever the status was, the
\* copy is given the new one.
Begin(r, t, place, goal) ==
    /\ req[r].at = "idle" /\ begun < MaxBegun
    /\ t \in present
    /\ begun' = begun + 1
    /\ req' = [req EXCEPT ![r] = [at |-> place, tenant |-> t, goal |-> goal]]
    /\ overlapped' = IF Busy(t) THEN overlapped \cup {t} ELSE overlapped
    /\ UNCHANGED <<present, domain, status, zeroed, deleted>>

SuspendTenant(r, t) == Begin(r, t, "update", "SUSPENDED")
ReactivateTenant(r, t) == Begin(r, t, "update", "ACTIVE")
CryptoShredTenant(r, t) == Begin(r, t, "zero", "TERMINATED")

\* The bytes are those of the stored record; nothing reads them.
ZeroKey(r) ==
    /\ req[r].at = "zero"
    /\ zeroed' = zeroed \cup {req[r].tenant}
    /\ Goto(r, "update")
    /\ UNCHANGED <<present, domain, status, begun, deleted, overlapped>>

\* Fault: a tenant that is gone is stored again.
UpdateOrInsert(r) ==
    LET t == req[r].tenant IN
    /\ req[r].at = "update"
    /\ present' = present \cup {t}
    /\ status' = [status EXCEPT ![t] = req[r].goal]
    /\ IF req[r].goal = "TERMINATED" THEN Goto(r, "delete") ELSE End(r)
    /\ UNCHANGED <<domain, zeroed, begun, deleted, overlapped>>

Update(r) ==
    LET t == req[r].tenant IN
    /\ req[r].at = "update"
    /\ IF t \notin present
       THEN End(r) /\ UNCHANGED status
       ELSE /\ status' = [status EXCEPT ![t] = req[r].goal]
            /\ IF req[r].goal = "TERMINATED" THEN Goto(r, "delete") ELSE End(r)
    /\ UNCHANGED <<present, domain, zeroed, begun, deleted, overlapped>>

\* Delete fails if another shredding was faster.
Delete(r) ==
    /\ req[r].at = "delete"
    /\ present' = present \ {req[r].tenant}
    /\ deleted' = deleted \cup {req[r].tenant}
    /\ End(r)
    /\ UNCHANGED <<domain, status, zeroed, begun, overlapped>>

Next ==
    \/ \E t \in Tenants, d \in Domains : ProvisionTenant(t, d)
    \/ \E r \in Requests :
         \/ \E t \in Tenants : \/ SuspendTenant(r, t) \/ ReactivateTenant(r, t)
                               \/ CryptoShredTenant(r, t)
         \/ ZeroKey(r) \/ Update(r) \/ Delete(r)

Spec == Init /\ [][Next]_vars

-----------------------------------------------------------------------------
(* Properties *)

TypeOK ==
    /\ present \subseteq Tenants /\ zeroed \subseteq Tenants
    /\ domain \in [Tenants -> Domains]
    /\ status \in [Tenants -> {"ACTIVE", "SUSPENDED", "TERMINATED"}]
    /\ req \in [Requests -> [at : {"idle", "zero", "update", "delete"},
                             tenant : Tenants \cup {NoTenant},
                             goal : {"ACTIVE", "SUSPENDED", "TERMINATED"}]]
    /\ begun \in 0..MaxBegun
    /\ deleted \subseteq Tenants /\ overlapped \subseteq Tenants

Shredding(t) ==
    \E r \in Requests : req[r].tenant = t /\ req[r].goal = "TERMINATED"

\* A tenant does not outlive its key, though a suspension may give it another
\* status on the way: while its key is zeroes a shredding is under way that
\* will delete it, and nobody puts it back (tenant_service.go:129-140).
NoTenantWithoutKey ==
    /\ present \cap deleted = {} /\ deleted \subseteq zeroed
    /\ \A t \in present : t \in zeroed => Shredding(t)

\* TERMINATED is seen only between the two calls of a shredding, unless
\* requests overlapped; a domain belongs to one tenant at a time.
TerminatedIsPassing ==
    /\ \A t \in present : status[t] = "TERMINATED" => t \in zeroed
    /\ \A t \in present \ overlapped : t \in zeroed /\ status[t] # "TERMINATED" =>
         \E r \in Requests : req[r].tenant = t /\ req[r].at = "update"
    /\ \A t, u \in present : t # u => domain[t] # domain[u]
=============================================================================
