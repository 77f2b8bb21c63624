---------------------------- MODULE Authz_proofs ----------------------------
(***************************************************************************)
(* What authorize() decides, for every principal, organisation and clock.  *)
(***************************************************************************)
EXTENDS Authz, TLAPS

\* assertIndependenceGuard (matrix.ts:70): the operator role holds none of the
\* permissions OPERATOR_FORBIDDEN lists.
THEOREM IndependenceGuard ==
  \A permission \in OPERATOR_FORBIDDEN : Operator \notin MATRIX(permission)
BY DEF OPERATOR_FORBIDDEN, MATRIX, Operator, PLATFORM_ONLY

\* The matrix gives the operator role no tenant permission at all.
LEMMA OperatorHoldsNone ==
  \A permission \in TenantPermissions : Operator \notin MATRIX(permission)
BY DEF TenantPermissions, MATRIX, Operator, PLATFORM_ONLY

LEMMA Disjoint == \A permission \in TenantPermissions : permission \notin PLATFORM_ONLY
BY DEF TenantPermissions, PLATFORM_ONLY

\* An operator reaches a tenant only through a grant for that organisation
\* whose scopes name the permission and which has not expired.
THEOREM OperatorReach ==
  ASSUME NEW pr, pr.role = Operator,
         NEW permission \in TenantPermissions,
         NEW org, org # None, pr.organisationId # org,
         NEW now, Authorized(pr, permission, org, now)
  PROVE  /\ now < pr.supportGrant.expiresAt
         /\ pr.supportGrant.organisationId = org
         /\ permission \in pr.supportGrant.scopes
BY OperatorHoldsNone, Disjoint
   DEF Authorized, HasPermission, GrantAllows, MayTouch

\* A permission that no grant scope names is decided by role alone.
LEMMA ByRole ==
  ASSUME NEW pr, NEW permission, NEW org, NEW now,
         permission \notin pr.supportGrant.scopes,
         Authorized(pr, permission, org, now)
  PROVE  /\ pr.role \in MATRIX(permission)
         /\ permission \notin PLATFORM_ONLY => MayTouch(pr, org, now)
BY DEF Authorized, HasPermission, GrantAllows
=============================================================================
