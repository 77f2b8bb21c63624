\* authentik over HTTP: everything interleaves and any request may be lost.
SPECIFICATION Spec
CONSTANTS
  Users = {u1, u2}
  Roles = {finance}
  Requests = {r1}
  Procs = {p1, p2}
  Engine = "http"
  MayFail = TRUE
  MaxTime = 1
  MaxGroups = 1
SYMMETRY AccessSymmetry
INVARIANTS MembersWereGranted
