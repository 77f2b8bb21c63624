--------------------------- MODULE MCProvisioning ---------------------------
(* Provisioning with three names, two of which are the same slug.          *)
EXTENDS Provisioning

CONSTANTS a, b

MCNames == {"A", "a", "b"}
MCNormal == [n \in MCNames |-> IF n = "b" THEN b ELSE a]

=============================================================================
