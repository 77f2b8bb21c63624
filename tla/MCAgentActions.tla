--------------------------- MODULE MCAgentActions ---------------------------
(* The owner, and an application administrator, who may approve what only the *)
(* owner can run.                                                            *)
EXTENDS AgentActions

CONSTANTS boss, applications

MCRoleOf ==
  [p \in People |-> IF p = boss THEN "ORGANISATION_OWNER" ELSE "APPLICATION_ADMINISTRATOR"]

MCSubscriptions == {{"user.suspended", "group.updated"}}

=============================================================================
