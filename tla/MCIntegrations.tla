--------------------------- MODULE MCIntegrations ---------------------------
(* One application name and one agent; two organisations and what they     *)
(* decide about each other.                                                *)
EXTENDS Integrations

MCPolicies == {[accept |-> {"email", "role"}, reject |-> {"role"}]}

Symmetric == Permutations(Calls) \union Permutations(Issuers) \union Permutations(Orgs)

=============================================================================
