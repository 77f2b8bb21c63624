\* Two organisations, two handlers, the store the console ships: handlers overlap
\* only while webhooks are out.  The sink may fail.
SPECIFICATION Spec
CONSTANTS
  None = None
  op = op  op2 = op2  owner1 = owner1  co = co  help = help  sec2 = sec2
  o1 = o1  o2 = o2
  People <- WideTeam
  RoleOf <- WideRole
  OrgOf <- WideOrg
  Orgs = {o1, o2}
  Requests = {r1}
  ScopeChoices <- MixedScopes
  TTL = 1
  MaxTime = 3
  Procs = {p1, p2}
  StoreYields = FALSE
  SinkMayFail = TRUE
INVARIANTS DeniedStaysShut DecisionsAudited
PROPERTY PolicySpec
