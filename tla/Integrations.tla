---------------------------- MODULE Integrations ----------------------------
(***************************************************************************)
(* What connects an organisation to others: applications and agents in its *)
(* authentik (Applications), and federation with its peers (Federation).   *)
(* They share no state, so interleaving their steps adds nothing to        *)
(* either: a behaviour follows the one that its first state picks.         *)
(***************************************************************************)
EXTENDS Applications, Federation

VARIABLE follows

vars == <<appVars, fedVars, follows>>

TypeOK == AppTypeOK /\ FedTypeOK

Init == AppInit /\ FedInit /\ follows \in {"applications", "federation"}

Next ==
  \/ follows = "applications" /\ AppNext /\ UNCHANGED <<fedVars, follows>>
  \/ follows = "federation" /\ FedNext /\ UNCHANGED <<appVars, follows>>

Spec == Init /\ [][Next]_vars

=============================================================================
