\* Two handlers of one request, a store that yields between their halves.
SPECIFICATION Spec
CONSTANTS
  None = None
  op = op  op2 = op2  owner1 = owner1  co = co  help = help  sec2 = sec2
  o1 = o1  o2 = o2
  People <- SmallTeam
  RoleOf <- SmallRole
  OrgOf <- SmallOrg
  Orgs = {o1}
  Requests = {r1}
  ScopeChoices <- OneScope
  TTL = 1
  MaxTime = 2
  Procs = {p1, p2}
  StoreYields = TRUE
  SinkMayFail = FALSE
INVARIANTS TypeOK AccessIsBacked BreakGlassTwoPeople
SYMMETRY SmallSymmetry
