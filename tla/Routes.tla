------------------------------- MODULE Routes -------------------------------
(***************************************************************************)
(* The hand-written route table of the console API, handle() of            *)
(* apps/console/app/api/v1/[...path]/route.ts, and what each operation it  *)
(* reaches asks of authorize().                                            *)
(*                                                                         *)
(* A path is [method, resource, id, extra, extra2]: its segments, "-"      *)
(* where there is none.                                                    *)
(* handle() is a chain of ifs; a route is one of them, in its order, with  *)
(* "-" for a segment that must be absent, "*" for one that must be there   *)
(* and "?" for one that is not looked at.                                  *)
(***************************************************************************)
EXTENDS Authz, SequencesExt

OrganisationRoutes ==
  << <<"GET",  "organisations", "-", "?", "?", "listOrganisations">>,
     <<"POST", "organisations", "-", "?", "?", "provisionOrganisation">>,
     <<"GET",  "organisations", "*", "-", "?", "getOrganisation">>,
     <<"?",    "organisations", "*", "sovereignty", "?", "sovereignty">>,
     <<"POST", "organisations", "*", "backup", "?", "backup">>,
     <<"POST", "organisations", "*", "restore-test", "?", "restoreTest">>,
     <<"POST", "organisations", "*", "invite-admin", "?", "inviteOrganisationAdmin">>,
     <<"POST", "invitations", "accept", "?", "?", "acceptInvitation">> >>

IdentityRoutes ==
  << <<"GET",    "users", "-", "?", "?", "listUsers">>,
     <<"POST",   "users", "-", "?", "?", "inviteUser">>,
     <<"POST",   "users", "*", "suspend", "?", "suspendUser">>,
     <<"POST",   "users", "*", "restore", "?", "restoreUser">>,
     <<"POST",   "users", "*", "terminate", "?", "terminateUser">>,
     <<"POST",   "users", "*", "sessions", "revoke", "revokeSessions">>,
     <<"GET",    "users", "*", "?", "?", "getUser">>,
     <<"GET",    "groups", "?", "?", "?", "listGroups">>,
     <<"POST",   "groups", "-", "?", "?", "createGroup">>,
     <<"POST",   "groups", "*", "members", "?", "addGroupMember">>,
     <<"DELETE", "groups", "*", "members", "*", "removeGroupMember">> >>

ApplicationRoutes ==
  << <<"GET",  "applications", "-", "?", "?", "listApplications">>,
     <<"POST", "applications", "?", "?", "?", "createApplication">>,
     <<"GET",  "applications", "*", "discovery", "?", "getOidcDiscovery">>,
     <<"GET",  "applications", "*", "jwks", "?", "getJwks">>,
     <<"GET",  "applications", "*", "?", "?", "getApplication">>,
     <<"GET",  "roles", "?", "?", "?", "listRoles">>,
     <<"GET",  "access-requests", "?", "?", "?", "listAccessRequests">>,
     <<"POST", "access-requests", "-", "?", "?", "createAccessRequest">>,
     <<"POST", "access-requests", "*", "decide", "?", "decideAccessRequest">>,
     <<"GET",  "service-accounts", "?", "?", "?", "listServiceAccounts">>,
     <<"POST", "service-accounts", "?", "?", "?", "createServiceIdentity">> >>

FederationRoutes ==
  << <<"GET",  "federation", "-", "?", "?", "listFederationSources">>,
     <<"POST", "federation", "-", "?", "?", "createFederationSource">>,
     <<"GET",  "federation", "trusts", "?", "?", "listTrusts">>,
     <<"POST", "federation", "trusts", "?", "?", "createTrust">>,
     <<"GET",  "federation", "jwks", "?", "?", "federationJwks">>,
     <<"POST", "federation", "assertions", "verify", "?", "consumeFederationAssertion">>,
     <<"POST", "federation", "assertions", "?", "?", "issueFederationAssertion">>,
     <<"POST", "agents", "?", "?", "?", "createHermesAgent">>,
     <<"POST", "federation", "evaluate", "?", "?", "evaluateFederatedAssertions">> >>

AdministrationRoutes ==
  << <<"GET",  "security", "dashboard", "?", "?", "securityDashboard">>,
     <<"GET",  "security", "findings", "?", "?", "securityDashboard">>,
     <<"GET",  "webhooks", "?", "deliveries", "?", "listWebhookDeliveries">>,
     <<"GET",  "webhooks", "?", "?", "?", "listWebhooks">>,
     <<"POST", "webhooks", "?", "?", "?", "createWebhook">>,
     <<"GET",  "administrators", "?", "?", "?", "listAdministrators">>,
     <<"POST", "administrators", "*", "?", "?", "assignAdministrator">>,
     <<"POST", "scim", "?", "token", "?", "createInboundScimToken">>,
     <<"POST", "mcp", "?", "?", "?", "invokeMcp">>,
     <<"GET",  "agent-actions", "?", "?", "?", "listAgentActions">>,
     <<"POST", "agent-actions", "*", "decide", "?", "decideAgentAction">>,
     <<"POST", "agent-actions", "*", "execute", "?", "executeAgentAction">>,
     <<"GET",  "events", "?", "?", "?", "listEvents">>,
     <<"GET",  "integrations", "?", "?", "?", "catalogue">>,
     <<"GET",  "authentication", "passkeys", "-", "?", "passkeyEnrolment">> >>

SupportRoutes ==
  << <<"GET",  "support-access", "-", "?", "?", "listSupportAccess">>,
     <<"POST", "support-access", "-", "?", "?", "requestSupportAccess">>,
     <<"POST", "support-access", "*", "approve", "?", "approveSupportAccess">>,
     <<"POST", "support-access", "*", "deny", "?", "denySupportAccess">>,
     <<"POST", "support-access", "*", "start", "?", "startSupportAccess">>,
     <<"POST", "support-access", "*", "end", "?", "endSupportAccess">>,
     <<"GET",  "evidence", "?", "?", "?", "evidencePack">> >>

\* The chain asks for an organisation after the first of these.
Routes == OrganisationRoutes \o IdentityRoutes \o ApplicationRoutes \o FederationRoutes
            \o AdministrationRoutes \o SupportRoutes

Fits(pattern, segment) ==
  pattern = "?" \/ (pattern = "*" /\ segment # "-") \/ pattern = segment

Path(r) == <<r.method, r.resource, r.id, r.extra, r.extra2>>

Matches(route, r) == \A i \in 1 .. 5 : Fits(route[i], Path(r)[i])

\* The operation of the first route that matches.
Dispatch(r) ==
  LET fit == {i \in DOMAIN Routes : Matches(Routes[i], r)}
  IN IF fit = {} THEN "notFound" ELSE Routes[CHOOSE i \in fit : \A j \in fit : i <= j][6]

\* What the chain compares a segment with; "x" is any other word.
Words(i) == {route[i] : route \in ToSet(Routes)} \ {"?", "*"}
Others == {"-", "x"}

\* The paths a client may write, to the routes and past them.
Paths ==
  {p \in [method : Words(1), resource : Words(2), id : Words(3) \union Others,
         extra : Words(4) \union Others, extra2 : Words(5) \union Others] :
     /\ p.id = "-" => p.extra = "-"
     /\ p.extra = "-" => p.extra2 = "-"}

----------------------------------------------------------------------------
\* What an operation passes to authorize() first, by the role of its caller; the
\* organisation is null for a platform permission.  None: it asks for nothing.
Permission(op, role) ==
  CASE op = "listOrganisations" -> "platform.organisations.read"
    [] op = "provisionOrganisation" -> "platform.organisations.provision"
    [] op \in {"backup", "restoreTest"} -> "platform.backups.manage"
    [] op = "requestSupportAccess" -> "support.request"
    [] op = "getOrganisation" ->
         IF role = Operator THEN "platform.organisations.read" ELSE "organisation.settings.write"
    [] op = "sovereignty" ->
         IF role = Operator THEN "platform.organisations.read" ELSE "identity.users.read"
    [] op = "inviteOrganisationAdmin" ->
         IF role = Operator THEN "platform.organisations.provision" ELSE "identity.users.write"
    [] op = "listSupportAccess" ->
         IF role = Operator THEN "support.request" ELSE "support.approve"
    [] op \in {"createFederationSource", "createTrust", "createWebhook",
               "createInboundScimToken"} -> "organisation.settings.write"
    [] op \in {"listUsers", "getUser", "listGroups", "listRoles",
               "listServiceAccounts", "listAdministrators", "listTrusts",
               "evaluateFederatedAssertions", "issueFederationAssertion",
               "consumeFederationAssertion", "invokeMcp"} -> "identity.users.read"
    [] op \in {"inviteUser", "restoreUser",
               "createServiceIdentity", "createHermesAgent"} -> "identity.users.write"
    [] op \in {"suspendUser", "executeAgentAction"} -> "identity.users.suspend"
    [] op = "terminateUser" -> "identity.users.terminate"
    [] op = "revokeSessions" -> "identity.sessions.revoke"
    [] op \in {"createGroup", "addGroupMember", "removeGroupMember",
               "assignAdministrator"} -> "identity.memberships.write"
    [] op \in {"listApplications", "getApplication", "getOidcDiscovery", "getJwks",
               "listAccessRequests", "createAccessRequest", "listFederationSources",
               "federationJwks", "passkeyEnrolment"} -> "applications.read"
    [] op = "createApplication" -> "applications.write"
    [] op \in {"decideAccessRequest", "decideAgentAction"} -> "applications.access.grant"
    [] op \in {"securityDashboard", "listWebhooks", "listWebhookDeliveries",
               "evidencePack"} -> "audit.read"
    [] op = "listEvents" -> IF role = "USER" THEN "applications.read" ELSE "audit.read"
    [] op \in {"approveSupportAccess", "denySupportAccess"} -> "support.approve"
    [] OTHER -> None

\* Fault: the organisation of the caller is taken for that of the request.
Allowed_OwnOrganisation(principal, op, org, now) ==
  \/ op \in {"acceptInvitation", "catalogue", "listAgentActions", "endSupportAccess"}
  \/ /\ principal # None
     /\ IF op = "startSupportAccess" THEN principal.role = Operator
        ELSE Authorized(principal, Permission(op, principal.role), principal.organisationId, now)

\* Operations that ask authorize() for nothing: two are meant for anybody; a
\* support session is started by its requester, an operator, and ended by anyone;
\* the list of agent actions is read from the store.
Allowed(principal, op, org, now) ==
  \/ op \in {"acceptInvitation", "catalogue", "listAgentActions", "endSupportAccess"}
  \/ /\ principal # None
     /\ IF op = "startSupportAccess" THEN principal.role = Operator
        ELSE Authorized(principal, Permission(op, principal.role), org, now)

=============================================================================
