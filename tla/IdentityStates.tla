--------------------------- MODULE IdentityStates ---------------------------
(***************************************************************************)
(* packages/identity: the states of an identity and the transitions        *)
(* transition() lets through; packages/scim: the state an upstream         *)
(* directory's mutation asks for.  "NONE" is an identity the engine does   *)
(* not hold yet.                                                           *)
(***************************************************************************)

UserStates == {"INVITED", "ACTIVE", "SUSPENDED", "LOCKED", "ARCHIVED", "DELETED"}

\* States with isActive: what every caller of updateUser computes.
Live == {"INVITED", "ACTIVE"}

\* States in which nobody may sign in.
Barred == UserStates \ Live

ALLOWED(from) ==
  CASE from = "INVITED"   -> {"ACTIVE", "ARCHIVED", "DELETED"}
    [] from = "ACTIVE"    -> {"SUSPENDED", "LOCKED", "ARCHIVED"}
    [] from = "SUSPENDED" -> {"ACTIVE", "ARCHIVED", "LOCKED"}
    [] from = "LOCKED"    -> {"ACTIVE", "SUSPENDED", "ARCHIVED"}
    [] from = "ARCHIVED"  -> {"ACTIVE", "DELETED"}
    [] OTHER              -> {}

CanTransition(from, to) == to \in ALLOWED(from)

ScimOps == {"scim_delete", "scim_inactive", "scim_active"}

\* DELETE, and PUT/PATCH/POST with active: false or true.
NextStateFromScim(current, op) ==
  CASE op = "scim_delete" ->
         CASE current \in {"SUSPENDED", "INVITED"}  -> "ARCHIVED"
           [] current \in {"ARCHIVED", "DELETED"}   -> current
           [] OTHER                                 -> "SUSPENDED"
    [] op = "scim_inactive" ->
         CASE current = "INVITED"                   -> "ARCHIVED"
           [] current \in {"ACTIVE", "LOCKED"}      -> "SUSPENDED"
           [] OTHER                                 -> current
    [] OTHER -> IF current = "DELETED" THEN current ELSE "ACTIVE"

\* Does applyScimUser go on to setState?  An invited identity is left alone by
\* active: true, and a DELETE always tries, even to the state it is in.
ScimWrites(current, op) ==
  \/ op = "scim_delete"
  \/ op = "scim_inactive" /\ NextStateFromScim(current, op) # current
  \/ op = "scim_active" /\ current \in {"SUSPENDED", "LOCKED", "ARCHIVED"}
=============================================================================
