SPECIFICATION Spec
CONSTANTS
  None = None
  boss = boss
  operator = operator
  orgA = orgA
  orgB = orgB
  Browsers = {b1, b2}
  Actors = {boss, operator}
  Directory <- MCDirectory
  Organisations = {orgA, orgB}
  Keys = {"login"}
  Limit = 2
  Window = 2
  SessionLife = 2
  StepUpLife = 1
  MaxTime = 2
INVARIANTS
  TypeOK
  LimiterHonest
  NoOperationWithoutSession
  TenantBoundary
  StepUpWasEarned
SYMMETRY BrowserSymmetry
