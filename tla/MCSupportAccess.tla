-------------------------- MODULE MCSupportAccess --------------------------
(***************************************************************************)
(* Small instances of SupportAccess.                                       *)
(***************************************************************************)
EXTENDS SupportAccess, TLC

CONSTANTS op, op2, owner1, co, help, sec2, o1, o2

\* Who the people are in every instance; a .cfg picks some of them.
MCRole(p) == CASE p \in {op, op2}     -> Operator
               [] p \in {owner1, co} -> "ORGANISATION_OWNER"
               [] p = sec2            -> "SECURITY_ADMINISTRATOR"
               [] OTHER               -> "HELPDESK_ADMINISTRATOR"

MCOrg(p) == CASE p \in {op, op2} -> None
              [] p = sec2      -> o2
              [] OTHER           -> o1

\* One organisation, two owners, one operator.
SmallTeam == {op, owner1, co}
SmallRole == [p \in SmallTeam |-> MCRole(p)]
SmallOrg  == [p \in SmallTeam |-> MCOrg(p)]

\* Two organisations, two operators, an administrator who may not decide.
WideTeam == {op, op2, owner1, help, sec2}
WideRole == [p \in WideTeam |-> MCRole(p)]
WideOrg  == [p \in WideTeam |-> MCOrg(p)]

\* Handler slots and the two owners are interchangeable in the invariants.
SmallSymmetry == Permutations(Procs) \union Permutations({owner1, co})

OneScope == {{"audit.read"}}
\* A permitted scope set and one assertSupportScopes must refuse.
MixedScopes == {{"audit.read"}, {"identity.users.write", "support.approve"}}
=============================================================================
