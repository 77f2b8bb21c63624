SPECIFICATION Spec
CONSTANTS
  None = None
  Nobody = Nobody
  Calls = {c1, c2}
  Names = {crm}
  Agents = {hermes}
  MaxProviders = 3
  MaxCalls = 3
  Orgs = {orgA, orgB}
  Attributes = {"email", "role"}
  Policies <- MCPolicies
  Issuers = {i1, i2}
  Lifetime = 1
  MaxTime = 1
  MaxKeys = 3
  MaxTokens = 2
  MaxTrusts = 2
INVARIANTS
  TypeOK
  ApplicationsBacked
  AnsweredIsWhole
  TrailIsTrue
  ClientAfterLimits
  BarredStaysBarred
  AssertionsVerify
SYMMETRY Symmetric
\* Once the bounded calls are over, nothing is left to do.
CHECK_DEADLOCK FALSE
