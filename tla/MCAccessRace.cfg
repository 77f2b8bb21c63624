\* No request is lost, yet an approval or a stale list undoes an expiry.
SPECIFICATION Spec
CONSTANTS
  Users = {u1, u2}
  Roles = {finance}
  Requests = {r1}
  Procs = {p1, p2}
  Engine = "http"
  MayFail = FALSE
  MaxTime = 1
  MaxGroups = 1
SYMMETRY AccessSymmetry
INVARIANT RevokedIsOut
