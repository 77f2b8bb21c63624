-------------------------- MODULE MCAccessRequests --------------------------
(***************************************************************************)
(* Small instances of AccessRequests: two requests for one role show what  *)
(* sharing a group does, two handlers what an overlap does.                *)
(***************************************************************************)
EXTENDS AccessRequests, TLC

\* No definition tells one person, request or handler from another.
AccessSymmetry == Permutations(Users) \union Permutations(Requests) \union Permutations(Procs)
=============================================================================
