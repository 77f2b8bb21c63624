--------------------------- MODULE IdentityPolicy ---------------------------
(***************************************************************************)
(* What the identity lifecycle promises an organisation, without engines,  *)
(* calls or flags: an identity is invited, works, is stopped and is        *)
(* archived before it is deleted; a session begins only while its identity *)
(* is active, ends once, and never comes back.                             *)
(***************************************************************************)
CONSTANTS Users, Sessions

VARIABLES
  state,    \* the state of each identity
  owner     \* whose a session is; "unused" before it, "gone" after it

vars == <<state, owner>>

Init ==
  /\ state = [u \in Users |-> "NONE"]
  /\ owner = [s \in Sessions |-> "unused"]

Move(u, from, to) ==
  /\ state[u] \in from
  /\ state' = [state EXCEPT ![u] = to]
  /\ UNCHANGED owner

Invite(u) == Move(u, {"NONE"}, "INVITED")

\* First sign-in, acceptance, restoration; a service identity starts here.
Activate(u) == Move(u, {"NONE", "INVITED", "SUSPENDED", "LOCKED", "ARCHIVED"}, "ACTIVE")

Suspend(u) == Move(u, {"ACTIVE", "LOCKED"}, "SUSPENDED")
Lock(u)    == Move(u, {"ACTIVE", "SUSPENDED"}, "LOCKED")
Archive(u) == Move(u, {"INVITED", "ACTIVE", "SUSPENDED", "LOCKED"}, "ARCHIVED")

\* Only an archived identity is deleted, and that is the end of it.
Delete(u)  == Move(u, {"ARCHIVED"}, "DELETED")

SignIn(u, s) ==
  /\ state[u] = "ACTIVE" /\ owner[s] = "unused"
  /\ owner' = [owner EXCEPT ![s] = u]
  /\ UNCHANGED state

\* Any number of sessions of one identity end together.
Revoke(u) ==
  /\ \E S \in SUBSET {s \in Sessions : owner[s] = u} :
       owner' = [s \in Sessions |-> IF s \in S THEN "gone" ELSE owner[s]]
  /\ UNCHANGED state

Next == \E u \in Users :
  \/ Invite(u) \/ Activate(u) \/ Suspend(u) \/ Lock(u) \/ Archive(u) \/ Delete(u)
  \/ Revoke(u) \/ \E s \in Sessions : SignIn(u, s)

Spec == Init /\ [][Next]_vars
=============================================================================
