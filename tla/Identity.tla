------------------------------ MODULE Identity ------------------------------
(***************************************************************************)
(* Five services of the identity platform: the accounts of the             *)
(* auth-service, the user directory, the tenants, the members of the       *)
(* organization-service and the authorization-service.  Each has a store   *)
(* of its own: a behaviour is one of the part it names, and the others     *)
(* stay as they were initially.                                            *)
(***************************************************************************)
EXTENDS AuthAccounts

CONSTANTS Users, NoUser, Seeded, Confirmed, Attributes, Addresses, SeedAddress, MaxDirectory
VARIABLES people, value, verified, trail, dirReq, dirBegun, dirMeant, stale,
          archived, erased, moved, overlapped

Directory == INSTANCE UserDirectory WITH
    MaxBegun <- MaxDirectory, present <- people, req <- dirReq, begun <- dirBegun,
    meant <- dirMeant, clobbered <- stale

CONSTANTS Companies, NoTenant, FirstCompany, Domains, SeedDomain
VARIABLES present, domain, status, zeroed, tenReq, tenBegun, deleted, collided

Vault == INSTANCE TenantVault WITH
    Tenants <- Companies, Seeded <- FirstCompany, req <- tenReq, begun <- tenBegun,
    overlapped <- collided

CONSTANTS Leader, Teams, NoTeam, SeedTeam, Invitations, NoInvitation, Workspaces,
          NoWorkspace, SeedSpace, MaxChanges
VARIABLES teams, members, invitation, due, workspaces, orgReq, orgBegun, came, crossed,
          removed, wanted

Members == INSTANCE OrgMembership WITH
    MaxBegun <- MaxChanges, req <- orgReq, begun <- orgBegun

CONSTANTS Tenants, Names, NoRole, Permissions, Covers, SeedRoles, Keys, SeedKeys,
          KeyTenant, KeyScopes, NewRoles, Asked, MaxRoles, MaxEvaluations
VARIABLES roles, made, keys, lapsed, authReq, authBegun, answer

Authz == INSTANCE Authorization WITH
    MaxBegun <- MaxEvaluations, req <- authReq, begun <- authBegun

ASSUME IdentityAssumption ==
    /\ Directory!DirectoryAssumption /\ Vault!VaultAssumption
    /\ Members!MembershipAssumption /\ Authz!AuthorizationAssumption

-----------------------------------------------------------------------------
VARIABLE part

dirVars == <<people, value, verified, trail, dirReq, dirBegun, dirMeant, stale,
             archived, erased, moved, overlapped>>
tenVars == <<present, domain, status, zeroed, tenReq, tenBegun, deleted, collided>>
orgVars == <<teams, members, invitation, due, workspaces, orgReq, orgBegun, came,
             crossed, removed, wanted>>
authzVars == <<roles, made, keys, lapsed, authReq, authBegun, answer>>

IdentityInit ==
    /\ Init /\ Directory!Init /\ Vault!Init /\ Members!Init /\ Authz!Init
    /\ part \in {"accounts", "directory", "tenants", "members", "authorization"}
    /\ part # "accounts" => ~record.mfa

OfAccounts == part = "accounts" /\ UNCHANGED <<part, dirVars, tenVars, orgVars, authzVars>>
OfDirectory == part = "directory" /\ UNCHANGED <<part, vars, tenVars, orgVars, authzVars>>
OfTenants == part = "tenants" /\ UNCHANGED <<part, vars, dirVars, orgVars, authzVars>>
OfMembers == part = "members" /\ UNCHANGED <<part, vars, dirVars, tenVars, authzVars>>
OfAuthz == part = "authorization" /\ UNCHANGED <<part, vars, dirVars, tenVars, orgVars>>

IdentityNext ==
    \/ OfAccounts /\ Next
    \/ OfDirectory /\ Directory!Next
    \/ OfTenants /\ Vault!Next
    \/ OfMembers /\ Members!Next
    \/ OfAuthz /\ Authz!Next

IdentitySpec ==
    IdentityInit /\ [][IdentityNext]_<<part, vars, dirVars, tenVars, orgVars, authzVars>>

\* Users: types; archived is for good, addresses are shared only by moving,
\* confirmations, fields and the trail tell what they should.
UsersAreSound ==
    part = "directory" =>
      /\ Directory!TypeOK /\ Directory!ArchivedForGood /\ Directory!SharedOnlyByMoving
      /\ Directory!ConfirmedIsSeeded /\ Directory!ChangesHold
      /\ Directory!TrailTellsStatus

\* Tenants: types; none outlives its key, TERMINATED is passing.
TenantsAreSound ==
    part = "tenants" =>
      Vault!TypeOK /\ Vault!NoTenantWithoutKey /\ Vault!TerminatedIsPassing

\* What is archived, erased or shredded stays so in both directories.
DirectoriesAreSound == UsersAreSound /\ TenantsAreSound

\* Members: types; invitations are settled once, workspaces hold.
MembershipHolds ==
    part = "members" =>
      Members!TypeOK /\ Members!SettledOnce /\ Members!WorkspacesHold

\* Access: types; roles inherit, rules and grants are what they should.
AccessIsDecided ==
    part = "authorization" =>
      /\ Authz!TypeOK /\ Authz!WalkFindsAncestry /\ Authz!RulesAreThese
      /\ Authz!GrantsAreEarned
=============================================================================
