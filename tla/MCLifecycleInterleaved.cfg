\* The memory engine, calls interleaved at every await, any of which may fail.
SPECIFICATION Spec
CONSTANTS
  Users = {u1}
  Sessions = {s1, s2}
  Procs = {p1, p2}
  Engine = "memory"
  PageSize = 2
  Yields = TRUE
  MayFail = TRUE
PROPERTY PolicySpec
