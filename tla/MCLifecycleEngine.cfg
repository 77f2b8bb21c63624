\* authentik over HTTP, no request lost.
SPECIFICATION Spec
CONSTANTS
  Users = {u1}
  Sessions = {s1, s2, s3}
  Procs = {p1, p2}
  Engine = "http"
  PageSize = 2
  Yields = TRUE
  MayFail = FALSE
PROPERTY SweepComplete
SYMMETRY CallSymmetry
