----------------------------- MODULE MCConsole -----------------------------
(* The console with the owner of one of two organisations and an operator. *)
EXTENDS Console

CONSTANTS boss, operator, orgA, orgB

MCDirectory ==
  [a \in Actors |-> IF a = boss THEN [role |-> "ORGANISATION_OWNER", organisationId |-> orgA]
                    ELSE [role |-> Operator, organisationId |-> None]]

BrowserSymmetry == Permutations(Browsers)

=============================================================================
