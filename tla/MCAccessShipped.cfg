\* The memory engine as the console runs it, with a sink that may throw.
SPECIFICATION Spec
CONSTANTS
  Users = {u1, u2}
  Roles = {finance}
  Requests = {r1, r2}
  Procs = {p1, p2}
  Engine = "memory"
  MayFail = TRUE
  MaxTime = 1
  MaxGroups = 2
SYMMETRY AccessSymmetry
INVARIANTS TypeOK MembershipBacked GrantDelivered
