SPECIFICATION Spec
CONSTANTS
  a = a
  b = b
  None = None
  Orgs = {o1, o2}
  Names <- MCNames
  Slugs = {a, b}
  Normal <- MCNormal
  StartPort = 19100
  Octets = 200
  Jobs = {j1, j2}
  Dumped = {a}
INVARIANTS
  TypeOK
  PortsDisjoint
  OwnStack
  ReadyIsServed
PROPERTIES
  ProvisioningSettles
