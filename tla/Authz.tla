------------------------------- MODULE Authz -------------------------------
(***************************************************************************)
(* packages/authz: the role matrix, the support grant a principal may      *)
(* carry, and authorize(), the check every control-plane handler runs.     *)
(*                                                                         *)
(* A principal is [actorId, role, organisationId, supportGrant].  null is  *)
(* None; a principal without a grant carries NoGrant, which has no scope   *)
(* and has expired at every instant, so it answers grantAllows as the      *)
(* code's null does.                                                       *)
(***************************************************************************)
EXTENDS Naturals

CONSTANT None       \* null: no organisation, no person, no request

Operator == "YUMA_PLATFORM_OPERATOR"

Roles == {Operator, "ORGANISATION_OWNER", "IDENTITY_ADMINISTRATOR",
          "APPLICATION_ADMINISTRATOR", "SECURITY_ADMINISTRATOR",
          "HELPDESK_ADMINISTRATOR", "AUDITOR", "USER"}

PLATFORM_ONLY == {"platform.organisations.provision", "platform.organisations.read",
                  "platform.deployments.manage", "platform.health.read",
                  "platform.backups.manage", "platform.incidents.respond",
                  "support.request"}

TenantPermissions ==
  {"identity.users.read", "identity.users.write", "identity.users.suspend",
   "identity.users.terminate", "identity.memberships.write",
   "identity.impersonate", "identity.credentials.read",
   "identity.sessions.revoke", "applications.read", "applications.write",
   "applications.access.grant", "audit.read", "audit.export",
   "support.approve", "support.use", "organisation.settings.write",
   "organisation.branding.write"}

Permissions == PLATFORM_ONLY \union TenantPermissions

OPERATOR_FORBIDDEN ==
  {"identity.users.write", "identity.users.suspend", "identity.users.terminate",
   "identity.memberships.write", "identity.impersonate",
   "identity.credentials.read", "applications.access.grant"}

\* The roles that hold a permission by themselves: one row of the matrix.
MATRIX(permission) ==
  LET owner    == "ORGANISATION_OWNER"
      identity == "IDENTITY_ADMINISTRATOR"
      apps     == "APPLICATION_ADMINISTRATOR"
      security == "SECURITY_ADMINISTRATOR"
      helpdesk == "HELPDESK_ADMINISTRATOR"
      auditor  == "AUDITOR"
  IN CASE permission \in PLATFORM_ONLY -> {Operator}
       [] permission = "identity.users.read" ->
            {owner, identity, helpdesk, auditor, security, apps}
       [] permission \in {"identity.users.write", "identity.users.terminate",
                          "identity.memberships.write"} -> {owner, identity}
       [] permission = "identity.users.suspend" -> {owner, identity, helpdesk}
       [] permission = "identity.sessions.revoke" ->
            {owner, identity, security, helpdesk}
       [] permission = "applications.read" ->
            {owner, apps, auditor, security, identity, "USER"}
       [] permission \in {"applications.write", "applications.access.grant"} ->
            {owner, apps}
       [] permission = "audit.read" -> {owner, security, auditor, identity}
       [] permission = "audit.export" -> {owner, security, auditor}
       [] permission = "support.approve" -> {owner, security}
       [] permission \in {"organisation.settings.write",
                          "organisation.branding.write"} -> {owner}
       [] OTHER -> {}

NoGrant == [requestId |-> None, organisationId |-> None,
            scopes |-> {}, expiresAt |-> 0]

\* grantAllows: the clock is read here, not where the grant was issued.
GrantAllows(principal, permission, org, now) ==
  LET grant == principal.supportGrant
  IN /\ now < grant.expiresAt
     /\ org # None => grant.organisationId = org
     /\ permission \in grant.scopes

HasPermission(principal, permission, now) ==
  \/ principal.role \in MATRIX(permission)
  \/ GrantAllows(principal, permission,
                 principal.supportGrant.organisationId, now)

\* The tenant-isolation half of authorize().
MayTouch(principal, org, now) ==
  \/ org = None
  \/ principal.organisationId = org
  \/ /\ principal.supportGrant.organisationId = org
     /\ now < principal.supportGrant.expiresAt

Authorized(principal, permission, org, now) ==
  IF permission \in PLATFORM_ONLY
    THEN HasPermission(principal, permission, now)
    ELSE /\ MayTouch(principal, org, now)
         /\ \/ HasPermission(principal, permission, now)
            \/ GrantAllows(principal, permission, org, now)

=============================================================================
