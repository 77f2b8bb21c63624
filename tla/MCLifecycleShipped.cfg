\* The memory engine as the console runs it: calls overlap while webhooks are out.
SPECIFICATION Spec
CONSTANTS
  Users = {u1}
  Sessions = {s1, s2}
  Procs = {p1, p2}
  Engine = "memory"
  PageSize = 2
  Yields = FALSE
  MayFail = FALSE
INVARIANTS TypeOK InactiveHasNoSession
PROPERTY InactiveSettles
