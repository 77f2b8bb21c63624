SPECIFICATION Spec
CONSTANTS
  None = None
  boss = boss
  applications = applications
  People = {boss, applications}
  RoleOf <- MCRoleOf
  Actions = {a1}
  Calls = {c1, c2}
  Subscriptions <- MCSubscriptions
  MaxEvents = 2
  MaxHooks = 2
INVARIANTS
  TypeOK
  NoRunWithoutApproval
  ExecutedIsTrue
  AnnouncedWasAudited
  UntriedIsUnopened
PROPERTIES EveryEndpointIsTried
