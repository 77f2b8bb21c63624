---------------------------- MODULE Console_proofs ----------------------------
(***************************************************************************)
(* For any number of browsers, people and organisations, over the whole    *)
(* route table: nothing is performed without a session but what is meant   *)
(* for anybody, nobody crosses the boundary of their organisation, and a   *)
(* privileged operation has a step-up behind it, but for the paths that    *)
(* privilegedAction overlooks.                                             *)
(***************************************************************************)
EXTENDS Console, SequenceTheorems, FiniteSetTheorems, FunctionTheorems,
        WellFoundedInduction, TLAPS

(* The route table.                                                        *)

Rows ==
  {OrganisationRoutes[i] : i \in 1..8} \union {IdentityRoutes[i] : i \in 1..11}
  \union {ApplicationRoutes[i] : i \in 1..11} \union {FederationRoutes[i] : i \in 1..9}
  \union {AdministrationRoutes[i] : i \in 1..15} \union {SupportRoutes[i] : i \in 1..7}

\* A row names its resource, and an operation that needs a session or a step-up is
\* reached by nothing but the path typed here.
RowOK(row) ==
  /\ row[2] \notin {"?", "*", "-"}
  /\ row[6] # "notFound"
  /\ row[6] = "listAgentActions" => row[2] = "agent-actions"
  /\ row[6] = "endSupportAccess" => row[2] = "support-access"
  /\ row[6] \in Privileged => row[1] = "POST"
  /\ row[6] = "suspendUser" => row[2] = "users" /\ row[4] = "suspend"
  /\ row[6] = "createApplication" => row[2] = "applications"
  /\ row[6] = "approveSupportAccess" => row[2] = "support-access" /\ row[4] = "approve"
  /\ row[6] = "issueFederationAssertion" => row[2] = "federation" /\ row[3] = "assertions"
  /\ row[6] = "createHermesAgent" => row[2] = "agents"
  /\ row[6] = "executeAgentAction" => row[2] = "agent-actions"

LEMMA RowsOK == \A row \in Rows : RowOK(row)
<1>1. \A i \in 1..8 : RowOK(OrganisationRoutes[i])
  BY DEF OrganisationRoutes, RowOK, Privileged
<1>2. \A i \in 1..11 : RowOK(IdentityRoutes[i])
  BY DEF IdentityRoutes, RowOK, Privileged
<1>3. \A i \in 1..11 : RowOK(ApplicationRoutes[i])
  BY DEF ApplicationRoutes, RowOK, Privileged
<1>4. \A i \in 1..9 : RowOK(FederationRoutes[i])
  BY DEF FederationRoutes, RowOK, Privileged
<1>5. \A i \in 1..15 : RowOK(AdministrationRoutes[i])
  BY DEF AdministrationRoutes, RowOK, Privileged
<1>6. \A i \in 1..7 : RowOK(SupportRoutes[i])
  BY DEF SupportRoutes, RowOK, Privileged
<1> QED
  BY <1>1, <1>2, <1>3, <1>4, <1>5, <1>6 DEF Rows

LEMMA RoutesTyped ==
  /\ OrganisationRoutes \in Seq(Rows) /\ IdentityRoutes \in Seq(Rows)
  /\ ApplicationRoutes \in Seq(Rows) /\ FederationRoutes \in Seq(Rows)
  /\ AdministrationRoutes \in Seq(Rows) /\ SupportRoutes \in Seq(Rows)
<1>1. OrganisationRoutes \in Seq({OrganisationRoutes[i] : i \in 1..8})
  BY DEF OrganisationRoutes
<1>2. IdentityRoutes \in Seq({IdentityRoutes[i] : i \in 1..11})
  BY DEF IdentityRoutes
<1>3. ApplicationRoutes \in Seq({ApplicationRoutes[i] : i \in 1..11})
  BY DEF ApplicationRoutes
<1>4. FederationRoutes \in Seq({FederationRoutes[i] : i \in 1..9})
  BY DEF FederationRoutes
<1>5. AdministrationRoutes \in Seq({AdministrationRoutes[i] : i \in 1..15})
  BY DEF AdministrationRoutes
<1>6. SupportRoutes \in Seq({SupportRoutes[i] : i \in 1..7})
  BY DEF SupportRoutes
<1>7. /\ {OrganisationRoutes[i] : i \in 1..8} \subseteq Rows
      /\ {IdentityRoutes[i] : i \in 1..11} \subseteq Rows
      /\ {ApplicationRoutes[i] : i \in 1..11} \subseteq Rows
      /\ {FederationRoutes[i] : i \in 1..9} \subseteq Rows
      /\ {AdministrationRoutes[i] : i \in 1..15} \subseteq Rows
      /\ {SupportRoutes[i] : i \in 1..7} \subseteq Rows
  BY DEF Rows
<1> QED
  BY <1>1, <1>2, <1>3, <1>4, <1>5, <1>6, <1>7, SeqMonotonic

LEMMA RoutesAreRows == Routes \in Seq(Rows)
<1>1. \A s, t \in Seq(Rows) : s \o t \in Seq(Rows)
  BY ConcatProperties
<1> QED
  BY <1>1, RoutesTyped DEF Routes

\* A path goes to the first row it matches.
LEMMA Dispatched ==
  ASSUME NEW p, Dispatch(p) # "notFound"
  PROVE  \E i \in DOMAIN Routes :
           /\ Matches(Routes[i], p) /\ Routes[i][6] = Dispatch(p)
           /\ \A j \in DOMAIN Routes : Matches(Routes[j], p) => i <= j
<1> DEFINE fit == {i \in DOMAIN Routes : Matches(Routes[i], p)}
<1>1. DOMAIN Routes = 1..Len(Routes) /\ Len(Routes) \in Nat
  BY RoutesAreRows, LenProperties
<1>2. fit # {}
  BY DEF Dispatch
<1>3. PICK i \in fit : \A j \in fit : <<j, i>> \notin OpToRel(<, Nat)
  <2>1. fit \in SUBSET Nat
    BY <1>1
  <2> HIDE DEF fit
  <2> QED
    BY <1>2, <2>1, NatLessThanWellFounded, WFMin
<1>4. \A j \in fit : i <= j
  <2> SUFFICES ASSUME NEW j \in fit PROVE ~(j < i)
    BY <1>1
  <2>1. <<j, i>> \in Nat \X Nat
    BY <1>1
  <2> QED
    BY <1>3, <2>1, Zenon DEF OpToRel
<1>5. ASSUME NEW k \in fit, \A j \in fit : k <= j PROVE k = i
  <2>1. k <= i /\ i <= k
    BY <1>3, <1>4, <1>5
  <2> QED
    BY <1>1, <2>1
<1>6. (CHOOSE k \in fit : \A j \in fit : k <= j) = i
  <2> HIDE DEF fit
  <2> QED
    BY <1>3, <1>4, <1>5
<1>7. Dispatch(p) = Routes[i][6]
  BY <1>2, <1>6 DEF Dispatch
<1> QED
  BY <1>3, <1>4, <1>7

\* What a path that matches a row looks like.
LEMMA MatchedPath ==
  ASSUME NEW row \in Rows, NEW p, Matches(row, p)
  PROVE  /\ p.resource = row[2]
         /\ row[1] = "POST" => p.method = "POST"
         /\ row[3] = "assertions" => p.id = "assertions"
         /\ row[4] = "suspend" => p.extra = "suspend"
         /\ row[4] = "approve" => p.extra = "approve"
<1>1. RowOK(row)
  BY RowsOK
<1>2. /\ Fits(row[1], p.method) /\ Fits(row[2], p.resource) /\ Fits(row[3], p.id)
      /\ Fits(row[4], p.extra)
  BY DEF Matches, Path
<1> QED
  BY <1>1, <1>2 DEF RowOK, Fits

\* A path that reaches a privileged operation asks for a step-up, or is one of those
\* overlooked; it is not one that is open to everybody.
LEMMA PrivilegedPath ==
  ASSUME NEW p, Dispatch(p) \in Privileged
  PROVE  /\ privilegedAction(p) \/ Overlooked(p)
         /\ p.resource \notin {"integrations", "invitations"}
<1>1. PICK op : op = Dispatch(p)
  OBVIOUS
<1>2. op \in Privileged /\ op # "notFound"
  BY <1>1 DEF Privileged
<1>3. PICK i \in DOMAIN Routes : Matches(Routes[i], p) /\ Routes[i][6] = op
  BY <1>1, <1>2, Dispatched
<1>4. PICK row : row = Routes[i]
  OBVIOUS
<1>5. row \in Rows
  BY <1>4, RoutesAreRows
<1>6. RowOK(row)
  BY <1>5, RowsOK
<1>7. /\ p.resource = row[2] /\ row[6] = op
      /\ row[1] = "POST" => p.method = "POST"
      /\ row[3] = "assertions" => p.id = "assertions"
      /\ row[4] = "suspend" => p.extra = "suspend"
      /\ row[4] = "approve" => p.extra = "approve"
  BY <1>3, <1>4, <1>5, MatchedPath
<1>8. p.method = "POST"
  BY <1>2, <1>6, <1>7 DEF RowOK
<1>9. /\ privilegedAction(p) \/ Overlooked(p)
      /\ p.resource \in {"users", "applications", "support-access", "federation", "agents",
                         "agent-actions"}
  <2>1. CASE op = "suspendUser"
    BY <1>6, <1>7, <1>8, <2>1 DEF RowOK, privilegedAction
  <2>2. CASE op = "approveSupportAccess"
    BY <1>6, <1>7, <1>8, <2>2 DEF RowOK, privilegedAction
  <2>3. CASE op = "createApplication"
    BY <1>6, <1>7, <1>8, <2>3 DEF RowOK, privilegedAction, Overlooked
  <2>4. CASE op = "createHermesAgent"
    BY <1>6, <1>7, <1>8, <2>4 DEF RowOK, privilegedAction, Overlooked
  <2>5. CASE op = "issueFederationAssertion"
    BY <1>6, <1>7, <1>8, <2>5 DEF RowOK, privilegedAction, Overlooked
  <2>6. CASE op = "executeAgentAction"
    BY <1>6, <1>7, <2>6 DEF RowOK, Overlooked
  <2> QED
    BY <1>2, <2>1, <2>2, <2>3, <2>4, <2>5, <2>6 DEF Privileged
<1> QED
  BY <1>9

\* What asks authorize() for nothing still asks for a session.
LEMMA UnaskedPath ==
  ASSUME NEW p, Dispatch(p) \in Unasked
  PROVE  p.resource \notin {"integrations", "invitations"}
<1>1. Dispatch(p) # "notFound"
  BY DEF Unasked
<1>2. PICK i \in DOMAIN Routes : Matches(Routes[i], p) /\ Routes[i][6] = Dispatch(p)
  BY <1>1, Dispatched
<1>3. Routes[i] \in Rows
  BY RoutesAreRows
<1>4. RowOK(Routes[i]) /\ p.resource = Routes[i][2]
  BY <1>2, <1>3, RowsOK, MatchedPath
<1> QED
  BY <1>2, <1>4 DEF RowOK, Unasked

-----------------------------------------------------------------------------
(* Whom authorize() lets in.                                               *)

LEMMA Kinds ==
  \A op : /\ op \in ForAnybody => KindOf(op) = "for anybody"
          /\ op \in Unasked => KindOf(op) = "unasked"
          /\ KindOf(op) = "privileged" => op \in Privileged
BY DEF KindOf, ForAnybody, Unasked, Privileged

\* A request, with its path and the operation it reaches.
LEMMA RequestFacts ==
  ASSUME NEW r \in Requests
  PROVE  \E p : \E op :
           /\ op = Dispatch(p)
           /\ r.privileged = privilegedAction(p)
           /\ r.overlooked = Overlooked(p)
           /\ r.public => p.resource \in {"integrations", "invitations"}
           /\ r.kind = KindOf(op)
           /\ r.admits = {a \in Actors \union {None} :
                            Allowed(Principal(a), op, OrganisationOf(a, r.org), 0)}
<1>1. PICK p \in Paths, org \in Organisations \union {None} : r = Request(p, org)
  BY DEF Requests
<1>2. PICK op : op = Dispatch(p)
  OBVIOUS
<1>3. r.org = org
  BY <1>1 DEF Request
<1>4. r.privileged = privilegedAction(p) /\ r.overlooked = Overlooked(p)
  BY <1>1, Zenon DEF Request
<1>5. r.public => p.resource \in {"integrations", "invitations"}
  BY <1>1 DEF Request
<1>6. r.kind = KindOf(op)
  BY <1>1, <1>2 DEF Request
<1>7. r.admits = {a \in Actors \union {None} :
                    Allowed(Principal(a), op, OrganisationOf(a, r.org), 0)}
  BY <1>1, <1>2, <1>3 DEF Request
<1> QED
  BY <1>2, <1>4, <1>5, <1>6, <1>7

\* Without a principal only four operations go through.
LEMMA NobodyAllowed ==
  ASSUME NEW op, NEW org, Allowed(Principal(None), op, org, 0)
  PROVE  op \in ForAnybody \/ op \in Unasked
BY DEF Allowed, Principal, ForAnybody, Unasked

\* A person of one organisation is let in to no other: the session carries no grant,
\* and no operator belongs to an organisation.
LEMMA StrangerAllowed ==
  ASSUME ConsoleAssumption, NEW a \in Actors, NEW op, NEW org,
         Directory[a].organisationId # None, org # None,
         org # Directory[a].organisationId, Allowed(Principal(a), op, org, 0)
  PROVE  op \in ForAnybody \/ op \in Unasked
<1> DEFINE principal == Principal(a)
<1>1. a # None
  BY DEF ConsoleAssumption
<1>2. /\ principal.role = Directory[a].role
      /\ principal.organisationId = Directory[a].organisationId
      /\ principal.supportGrant = NoGrant
  BY <1>1 DEF Principal
<1>3. principal.role # Operator
  BY <1>2 DEF ConsoleAssumption
<1>4. NoGrant.expiresAt = 0 /\ NoGrant.organisationId = None
  BY DEF NoGrant
<1> HIDE DEF principal
<1>5. ASSUME NEW permission PROVE ~Authorized(principal, permission, org, 0)
  <2>1. ~GrantAllows(principal, permission, principal.supportGrant.organisationId, 0)
    BY <1>2, <1>4 DEF GrantAllows
  <2>2. ~MayTouch(principal, org, 0)
    BY <1>2, <1>4 DEF MayTouch
  <2>3. permission \in PLATFORM_ONLY => principal.role \notin MATRIX(permission)
    BY <1>3 DEF MATRIX, PLATFORM_ONLY
  <2> QED
    BY <2>1, <2>2, <2>3 DEF Authorized, HasPermission
<1>6. Allowed(principal, op, org, 0)
  BY DEF principal
<1> QED
  BY <1>3, <1>5, <1>6 DEF Allowed, ForAnybody, Unasked

-----------------------------------------------------------------------------
(* Sessions.  Whose cookie carries a step-up proved possession, in         *)
(* whichever browser, and recently enough for it unless an answer can have *)
(* been sent again.  An answer that can is in a challenge of the actor,    *)
(* which was proved by it.                                                 *)

Earned(b) ==
  cookie[b] # None /\ cookie[b].stepUp # 0 =>
    LET a == cookie[b].actor
    IN /\ verified[a] # None
       /\ FALSE \notin passkeys[a] => cookie[b].stepUp <= verified[a] + StepUpLife

Answered(a) ==
  challenge[a] # None /\ challenge[a].spare => verified[a] # None /\ FALSE \in passkeys[a]

SessionInv ==
  /\ clock \in Times
  /\ cookie \in [Browsers -> Sealed \union {None}]
  /\ passkeys \in [Actors -> SUBSET BOOLEAN]
  /\ challenge \in [Actors -> Ceremony \union {None}]
  /\ verified \in [Actors -> Times \union {None}]
  /\ \A a \in Actors : Answered(a) /\ (verified[a] # None => verified[a] <= clock)
  /\ \A b \in Browsers : Earned(b)

LEMMA SessionNumbers ==
  /\ MaxTime \in Nat /\ StepUpLife \in Nat /\ SessionLife \in Nat /\ Times = 0..MaxTime
  /\ None \notin Nat
BY ConsoleAssumption DEF ConsoleAssumption, Times

\* A cookie sealed again with its step-up.
LEMMA RenewedFacts ==
  ASSUME SessionInv, NEW b \in Browsers, Unseal(b), Renewed(b)
  PROVE  /\ cookie' \in [Browsers -> Sealed \union {None}]
         /\ cookie'[b].actor = cookie[b].actor
         /\ cookie'[b].stepUp = clock + StepUpLife
         /\ \A c \in Browsers : c # b => cookie'[c] = cookie[c]
         /\ cookie[b] \in Sealed /\ cookie[b].actor \in Actors
<1>1. cookie[b] \in Sealed /\ cookie[b].actor \in Actors
  BY DEF Unseal, SessionInv, Sealed
<1> DEFINE new == [cookie[b] EXCEPT !.exp = clock + SessionLife, !.stepUp = clock + StepUpLife]
<1>2. /\ clock + SessionLife \in 0 .. MaxTime + SessionLife
      /\ clock + StepUpLife \in 0 .. MaxTime + StepUpLife
  BY SessionNumbers DEF SessionInv
<1>3. new \in Sealed /\ new.actor = cookie[b].actor /\ new.stepUp = clock + StepUpLife
  BY <1>1, <1>2 DEF Sealed
<1>4. cookie' = [cookie EXCEPT ![b] = new]
  BY DEF Renewed
<1> HIDE DEF new
<1> QED
  BY <1>1, <1>3, <1>4 DEF SessionInv

LEMMA SessionStep == SessionInv /\ [Next]_vars => SessionInv'
<1> SUFFICES ASSUME SessionInv, [Next]_vars PROVE SessionInv'
  OBVIOUS
<1>1. CASE UNCHANGED <<clock, cookie, passkeys, challenge, verified>>
  BY <1>1 DEF SessionInv, Earned, Answered
<1>2. ASSUME NEW b \in Browsers, NEW a \in Actors, SignIn(b, a) PROVE SessionInv'
  <2> DEFINE new == [actor |-> a, exp |-> clock + SessionLife, stepUp |-> 0]
  <2>1. new \in Sealed
    BY SessionNumbers DEF SessionInv, Sealed
  <2>2. cookie' = [cookie EXCEPT ![b] = new] /\ UNCHANGED <<clock, passkeys, challenge, verified>>
    BY <1>2 DEF SignIn, StepUpAtSignIn
  <2>3. new.stepUp = 0
    OBVIOUS
  <2> HIDE DEF new
  <2> QED
    BY <2>1, <2>2, <2>3 DEF SessionInv, Earned, Answered
<1>3. ASSUME NEW b \in Browsers, SignOut(b) PROVE SessionInv'
  BY <1>3 DEF SignOut, SessionInv, Earned, Answered
<1>4. ASSUME NEW b \in Browsers, Unseal(b) PROVE cookie[b].actor \in Actors
  BY <1>4 DEF Unseal, SessionInv, Sealed
<1>5. ASSUME NEW b \in Browsers, NEW kind \in {"register", "step-up"}, Challenge(b, kind)
      PROVE  SessionInv'
  <2> DEFINE new == [browser |-> b, kind |-> kind, spare |-> FALSE]
  <2>1. new \in Ceremony /\ new.spare = FALSE
    BY DEF Ceremony
  <2>2. PICK a \in Actors : challenge' = [challenge EXCEPT ![a] = new]
    BY <1>4, <1>5 DEF Challenge
  <2>3. UNCHANGED <<clock, cookie, passkeys, verified>>
    BY <1>5 DEF Challenge
  <2> HIDE DEF new
  <2> QED
    BY <2>1, <2>2, <2>3 DEF SessionInv, Earned, Answered
<1>6. ASSUME NEW b \in Browsers, RegisterVerify(b) PROVE SessionInv'
  <2>1. PICK a \in Actors, counts \in BOOLEAN :
          /\ passkeys' = [passkeys EXCEPT ![a] = @ \union {counts}]
          /\ challenge' = [challenge EXCEPT ![a] = None]
    BY <1>4, <1>6 DEF RegisterVerify, Asked
  <2>2. UNCHANGED <<clock, cookie, verified>>
    BY <1>6 DEF RegisterVerify
  <2>3. /\ passkeys' \in [Actors -> SUBSET BOOLEAN]
        /\ \A x \in Actors : passkeys[x] \subseteq passkeys'[x]
    BY <2>1 DEF SessionInv
  <2>4. ASSUME NEW x \in Actors PROVE Answered(x)'
    BY <2>1, <2>2, <2>3 DEF SessionInv, Answered
  <2>5. ASSUME NEW c \in Browsers PROVE Earned(c)'
    <3>1. cookie[c] # None => cookie[c].actor \in Actors
      BY DEF SessionInv, Sealed
    <3> QED
      BY <2>2, <2>3, <3>1 DEF SessionInv, Earned
  <2> QED
    BY <2>1, <2>2, <2>3, <2>4, <2>5 DEF SessionInv
<1>7. ASSUME NEW b \in Browsers, StepUpVerify(b) PROVE SessionInv'
  <2>1. PICK a : a = cookie[b].actor
    OBVIOUS
  <2>2. Unseal(b) /\ Renewed(b)
    BY <1>7 DEF StepUpVerify, Asked
  <2>3. PICK counts \in passkeys[a] :
          challenge' = [challenge EXCEPT ![a].spare = @ \/ ~counts]
    BY <1>7, <2>1 DEF StepUpVerify
  <2>4. UNCHANGED <<clock, passkeys>> /\ verified' = [verified EXCEPT ![a] = clock]
    BY <1>7, <2>1 DEF StepUpVerify
  <2>5. a \in Actors /\ challenge[a] # None /\ challenge[a] \in Ceremony /\ counts \in BOOLEAN
    BY <1>4, <1>7, <2>1, <2>2 DEF StepUpVerify, Asked, SessionInv
  <2>6. /\ challenge' \in [Actors -> Ceremony \union {None}]
        /\ challenge'[a].spare = (challenge[a].spare \/ ~counts)
        /\ \A x \in Actors : x # a => challenge'[x] = challenge[x]
    BY <2>3, <2>5 DEF SessionInv, Ceremony
  <2>7. clock \in Nat /\ clock # None
    BY SessionNumbers DEF SessionInv
  <2>8. /\ verified' \in [Actors -> Times \union {None}]
        /\ verified'[a] = clock
        /\ \A x \in Actors : x # a => verified'[x] = verified[x]
    BY <2>4, <2>5 DEF SessionInv
  <2>9. ASSUME NEW x \in Actors PROVE Answered(x)' /\ (verified'[x] # None => verified'[x] <= clock')
    <3>1. CASE x = a
      <4>1. challenge'[a].spare => FALSE \in passkeys[a]
        <5>1. CASE challenge[a].spare
          BY <2>5, <5>1 DEF SessionInv, Answered
        <5>2. CASE ~challenge[a].spare
          BY <2>3, <2>5, <2>6, <5>2
        <5> QED
          BY <5>1, <5>2
      <4>2. verified'[a] = clock /\ clock # None /\ clock \in Nat /\ clock' = clock
        BY <2>4, <2>7, <2>8
      <4>3. verified'[x] # None /\ (challenge'[x].spare => FALSE \in passkeys'[x])
        BY <2>4, <3>1, <4>1, <4>2
      <4>4. Answered(x)'
        BY <4>3, Zenon DEF Answered
      <4>5. verified'[x] <= clock'
        BY <3>1, <4>2
      <4> QED
        BY <4>4, <4>5
    <3>2. CASE x # a
      BY <2>4, <2>6, <2>8, <3>2 DEF SessionInv, Answered
    <3> QED
      BY <3>1, <3>2
  <2>10. ASSUME NEW c \in Browsers PROVE Earned(c)'
    <3>1. CASE c = b
      <4>1. cookie'[c].actor = a /\ cookie'[c].stepUp = clock + StepUpLife
        BY <2>1, <2>2, <3>1, RenewedFacts
      <4>2. verified'[a] # None /\ verified'[a] = clock
        BY <2>7, <2>8
      <4>3. clock + StepUpLife <= clock + StepUpLife
        BY <2>7, SessionNumbers
      <4> QED
        BY <4>1, <4>2, <4>3 DEF Earned
    <3>2. CASE c # b
      <4>1. cookie'[c] = cookie[c]
        BY <2>2, <3>2, RenewedFacts
      <4>2. SUFFICES ASSUME cookie[c] # None, cookie[c].stepUp # 0, NEW x, x = cookie[c].actor
                     PROVE  /\ verified'[x] # None
                            /\ FALSE \notin passkeys[x] => cookie[c].stepUp <= verified'[x] + StepUpLife
        BY <2>4, <4>1 DEF Earned
      <4>3. x \in Actors /\ cookie[c].stepUp \in Nat
        BY <4>2, SessionNumbers DEF SessionInv, Sealed
      <4>4. verified[x] # None
        BY <4>2 DEF SessionInv, Earned
      <4>5. verified[x] \in Nat /\ verified[x] <= clock
        BY <4>3, <4>4, SessionNumbers DEF SessionInv
      <4>6. FALSE \notin passkeys[x] => cookie[c].stepUp <= verified[x] + StepUpLife
        BY <4>2 DEF SessionInv, Earned
      <4>7. CASE x = a
        <5>1. verified'[x] = clock /\ clock # None
          BY <2>7, <2>8, <4>7
        <5>2. ASSUME FALSE \notin passkeys[x] PROVE cookie[c].stepUp <= clock + StepUpLife
          BY <2>7, <4>3, <4>5, <4>6, <5>2, SessionNumbers
        <5> QED
          BY <5>1, <5>2
      <4>8. CASE x # a
        BY <2>8, <4>3, <4>6, <4>4, <4>8
      <4> QED
        BY <4>7, <4>8
    <3> QED
      BY <3>1, <3>2
  <2> QED
    BY <2>2, <2>4, <2>6, <2>9, <2>10, <2>8, RenewedFacts DEF SessionInv
<1>8. ASSUME NEW b \in Browsers, StepUpAgain(b) PROVE SessionInv'
  <2>1. Unseal(b) /\ Renewed(b) /\ UNCHANGED <<clock, passkeys, challenge, verified>>
    BY <1>8 DEF StepUpAgain, Asked
  <2>2. verified[cookie[b].actor] # None /\ FALSE \in passkeys[cookie[b].actor]
    BY <1>4, <1>8, <2>1 DEF StepUpAgain, Asked, SessionInv, Answered
  <2>3. \A c \in Browsers : Earned(c)'
    BY <2>1, <2>2, RenewedFacts DEF SessionInv, Earned
  <2> QED
    BY <2>1, <2>3, RenewedFacts DEF SessionInv, Answered
<1>9. CASE Tick
  <2>1. /\ clock \in Nat /\ clock' = clock + 1 /\ clock' \in Times
        /\ UNCHANGED <<cookie, passkeys, challenge, verified>>
    BY <1>9, SessionNumbers DEF Tick, SessionInv
  <2>2. ASSUME NEW a \in Actors, verified[a] # None PROVE verified[a] <= clock'
    <3>1. verified[a] \in Nat /\ verified[a] <= clock
      BY <2>2, SessionNumbers DEF SessionInv
    <3> QED
      BY <2>1, <3>1
  <2> QED
    BY <2>1, <2>2 DEF SessionInv, Earned, Answered
<1> QED
  BY <1>1, <1>2, <1>3, <1>5, <1>6, <1>7, <1>8, <1>9 DEF Next, vars, LimitedCall

LEMMA SessionInvariant == Spec => []SessionInv
<1>1. Init => SessionInv
  BY SessionNumbers DEF Init, SessionInv, Earned, Answered
<1> QED
  BY <1>1, SessionStep, PTL DEF Spec

-----------------------------------------------------------------------------
(* The rate limiter.  What a key holds never exceeds the limit, and a       *)
(* refusal that stands names the end of a call it still holds.             *)

KeyOK(k) ==
  /\ IsFiniteSet(hits[k]) /\ Cardinality(hits[k]) <= Limit
  /\ promise[k] # 0 => \E h \in hits[k] : h[1] + Window <= promise[k]

LimiterInv ==
  /\ clock \in Times
  /\ hits \in [Keys -> SUBSET Call]
  /\ promise \in [Keys -> 0 .. MaxTime + Window]
  /\ \A k \in Keys : KeyOK(k)

LEMMA LimiterNumbers == Limit \in Nat /\ Limit > 0 /\ Window \in Nat /\ Window > 0
BY ConsoleAssumption DEF ConsoleAssumption

LEMMA LeastIsIn ==
  ASSUME NEW S, S \subseteq Nat, S # {}
  PROVE  Min(S) \in S
<1>1. PICK n \in S : \A m \in S : <<m, n>> \notin OpToRel(<, Nat)
  BY NatLessThanWellFounded, WFMin
<1>2. \A m \in S : m \in Nat /\ n \in Nat /\ ~(m < n)
  BY <1>1 DEF OpToRel
<1>3. \A m \in S : n <= m
  BY <1>2
<1> QED
  BY <1>3 DEF Min

\* What counts of a key now is part of what it holds.
LEMMA RecentFacts ==
  ASSUME LimiterInv, NEW k \in Keys
  PROVE  /\ Recent(k) \subseteq hits[k] /\ Recent(k) \subseteq Call
         /\ IsFiniteSet(Recent(k)) /\ Cardinality(Recent(k)) \in Nat
         /\ Cardinality(Recent(k)) <= Cardinality(hits[k])
         /\ Cardinality(Recent(k)) <= Limit
         /\ Cardinality(Recent(k)) = Cardinality(hits[k]) => Recent(k) = hits[k]
<1>1. Recent(k) \subseteq hits[k] /\ hits[k] \subseteq Call
  BY DEF Recent, LimiterInv
<1>2. IsFiniteSet(hits[k]) /\ Cardinality(hits[k]) <= Limit
  BY DEF LimiterInv, KeyOK
<1>3. /\ IsFiniteSet(Recent(k)) /\ Cardinality(Recent(k)) <= Cardinality(hits[k])
      /\ Cardinality(hits[k]) = Cardinality(Recent(k)) => hits[k] = Recent(k)
  BY <1>1, <1>2, FS_Subset
<1>4. Cardinality(Recent(k)) \in Nat /\ Cardinality(hits[k]) \in Nat
  BY <1>2, <1>3, FS_CardinalityType
<1>5. Cardinality(Recent(k)) <= Limit
  BY <1>2, <1>3, <1>4, LimiterNumbers
<1> QED
  BY <1>1, <1>3, <1>4, <1>5

\* While a key has room, the call that comes now is a new one.
LEMMA RoomForOne ==
  ASSUME LimiterInv, NEW k \in Keys, ~Full(k)
  PROVE  ThisCall(k) \in Call /\ ThisCall(k) \notin Recent(k)
<1> DEFINE now == {<<clock, n>> : n \in 0 .. Limit}
<1>1. IsFiniteSet(0 .. Limit) /\ Cardinality(0 .. Limit) = Limit + 1
  BY LimiterNumbers, FS_Interval
<1>2. \E n \in 0 .. Limit : <<clock, n>> \notin Recent(k)
  <2> SUFFICES ASSUME \A n \in 0 .. Limit : <<clock, n>> \in Recent(k)
      PROVE  FALSE
    OBVIOUS
  <2> DEFINE f == [n \in 0 .. Limit |-> <<clock, n>>]
  <2>1. f \in Bijection(0 .. Limit, now)
    <3>1. f \in [0 .. Limit -> now]
      OBVIOUS
    <3>2. \A m, n \in 0 .. Limit : f[m] = f[n] => m = n
      OBVIOUS
    <3>3. \A t \in now : \E n \in 0 .. Limit : f[n] = t
      OBVIOUS
    <3> HIDE DEF f, now
    <3> QED
      BY <3>1, <3>2, <3>3, Fun_IsBij
  <2>2. ExistsBijection(0 .. Limit, now)
    BY <2>1 DEF ExistsBijection
  <2>3. Cardinality(now) = Limit + 1
    BY <1>1, <2>2, FS_Bijection
  <2>4. now \subseteq Recent(k)
    OBVIOUS
  <2> HIDE DEF now
  <2>5. Cardinality(now) <= Cardinality(Recent(k))
    BY <2>4, RecentFacts, FS_Subset
  <2>6. Cardinality(Recent(k)) < Limit
    BY RecentFacts, LimiterNumbers DEF Full
  <2>7. Cardinality(Recent(k)) \in Nat
    BY RecentFacts
  <2> QED
    BY <2>3, <2>5, <2>6, <2>7, LimiterNumbers
<1>3. PICK n \in 0 .. Limit : ThisCall(k) = <<clock, n>> /\ <<clock, n>> \notin Recent(k)
  BY <1>2 DEF ThisCall
<1> QED
  BY <1>3 DEF LimiterInv, Call

LEMMA HitStep ==
  ASSUME LimiterInv, NEW k \in Keys, Hit(k), clock' = clock
  PROVE  LimiterInv'
<1>1. CASE Full(k)
  <2>1. /\ hits' = [hits EXCEPT ![k] = Recent(k)]
        /\ promise' = [promise EXCEPT ![k] = Oldest(k) + Window]
    BY <1>1 DEF Hit
  <2> DEFINE times == {h[1] : h \in Recent(k)}
  <2>2. Recent(k) # {}
    <3>1. Cardinality({}) = 0
      BY FS_EmptySet
    <3>2. Cardinality(Recent(k)) >= Limit
      BY <1>1 DEF Full
    <3> QED
      BY <3>1, <3>2, LimiterNumbers
  <2>3. times \subseteq Times /\ times # {}
    BY <2>2, RecentFacts DEF Call
  <2>4. Oldest(k) \in times
    <3>1. times \subseteq Nat
      BY <2>3, SessionNumbers
    <3> HIDE DEF times
    <3>2. Min(times) \in times
      BY <2>3, <3>1, LeastIsIn
    <3> QED
      BY <3>2 DEF Oldest, times
  <2>5. PICK h \in Recent(k) : h[1] = Oldest(k)
    BY <2>4
  <2>6. Oldest(k) \in Times
    BY <2>3, <2>4
  <2> HIDE DEF times
  <2>7. Oldest(k) + Window \in 0 .. MaxTime + Window
    BY <2>6, SessionNumbers, LimiterNumbers
  <2>8. /\ hits' \in [Keys -> SUBSET Call]
        /\ \A x \in Keys : hits'[x] = IF x = k THEN Recent(k) ELSE hits[x]
    BY <2>1, RecentFacts DEF LimiterInv
  <2>9. /\ promise' \in [Keys -> 0 .. MaxTime + Window]
        /\ \A x \in Keys : promise'[x] = IF x = k THEN Oldest(k) + Window ELSE promise[x]
    BY <2>1, <2>7 DEF LimiterInv
  <2>10. ASSUME NEW x \in Keys PROVE KeyOK(x)'
    <3>1. CASE x = k
      <4>1. hits'[x] = Recent(k) /\ promise'[x] = Oldest(k) + Window
        BY <2>8, <2>9, <3>1
      <4>2. h[1] + Window <= promise'[x]
        BY <2>5, <2>7, <4>1, SessionNumbers, LimiterNumbers
      <4> QED
        BY <4>1, <4>2, RecentFacts DEF KeyOK
    <3>2. CASE x # k
      <4>1. hits'[x] = hits[x] /\ promise'[x] = promise[x]
        BY <2>8, <2>9, <3>2
      <4> QED
        BY <4>1 DEF LimiterInv, KeyOK
    <3> QED
      BY <3>1, <3>2
  <2> QED
    BY <2>8, <2>9, <2>10 DEF LimiterInv
<1>2. CASE ~Full(k)
  <2> DEFINE new == Recent(k) \union {ThisCall(k)}
  <2>1. hits' = [hits EXCEPT ![k] = new] /\ promise' = [promise EXCEPT ![k] = 0]
    BY <1>2 DEF Hit
  <2>2. new \subseteq Call
    BY <1>2, RoomForOne, RecentFacts
  <2>3. IsFiniteSet(new) /\ Cardinality(new) = Cardinality(Recent(k)) + 1
    BY <1>2, RoomForOne, RecentFacts, FS_AddElement
  <2>4. Cardinality(Recent(k)) < Limit /\ Cardinality(Recent(k)) \in Nat
    BY <1>2, RecentFacts, LimiterNumbers DEF Full
  <2>5. Cardinality(new) <= Limit
    BY <2>3, <2>4, LimiterNumbers
  <2> HIDE DEF new
  <2>6. 0 \in 0 .. MaxTime + Window
    BY SessionNumbers, LimiterNumbers
  <2>7. /\ hits' \in [Keys -> SUBSET Call]
        /\ \A x \in Keys : hits'[x] = IF x = k THEN new ELSE hits[x]
    BY <2>1, <2>2 DEF LimiterInv
  <2>8. /\ promise' \in [Keys -> 0 .. MaxTime + Window]
        /\ \A x \in Keys : promise'[x] = IF x = k THEN 0 ELSE promise[x]
    BY <2>1, <2>6 DEF LimiterInv
  <2>9. ASSUME NEW x \in Keys PROVE KeyOK(x)'
    BY <2>3, <2>5, <2>7, <2>8 DEF LimiterInv, KeyOK
  <2> QED
    BY <2>7, <2>8, <2>9 DEF LimiterInv
<1> QED
  BY <1>1, <1>2

LEMMA LimiterStep == LimiterInv /\ [Next]_vars => LimiterInv'
<1> SUFFICES ASSUME LimiterInv, [Next]_vars PROVE LimiterInv'
  OBVIOUS
<1>1. CASE UNCHANGED <<clock, hits, promise>>
  BY <1>1 DEF LimiterInv, KeyOK
<1>2. ASSUME NEW k \in Keys, LimitedCall(k) PROVE LimiterInv'
  BY <1>2, HitStep DEF LimitedCall
<1>3. ASSUME NEW b \in Browsers, NEW a \in Actors, SignIn(b, a) PROVE LimiterInv'
  <2>1. CASE "login" \in Keys
    BY <1>3, <2>1, HitStep DEF SignIn
  <2>2. CASE "login" \notin Keys
    BY <1>1, <1>3, <2>2 DEF SignIn
  <2> QED
    BY <2>1, <2>2
<1>4. CASE Tick
  <2>1. clock' \in Times /\ UNCHANGED <<hits, promise>>
    BY <1>4, SessionNumbers DEF Tick, LimiterInv
  <2> QED
    BY <2>1 DEF LimiterInv, KeyOK
<1> QED
  BY <1>1, <1>2, <1>3, <1>4
     DEF Next, vars, SignOut, StepUpVerify, StepUpAgain, RegisterVerify, Challenge

LEMMA LimiterInvariant == Spec => []LimiterInv
<1>1. Init => LimiterInv
  <2> SUFFICES ASSUME Init PROVE LimiterInv
    OBVIOUS
  <2>1. clock = 0 /\ 0 \in Times /\ 0 \in 0 .. MaxTime + Window
    BY SessionNumbers, LimiterNumbers DEF Init
  <2>2. \A k \in Keys : hits[k] = {} /\ promise[k] = 0
    BY DEF Init
  <2>3. hits \in [Keys -> SUBSET Call] /\ promise \in [Keys -> 0 .. MaxTime + Window]
    BY <2>1 DEF Init
  <2>4. IsFiniteSet({}) /\ Cardinality({}) = 0
    BY FS_EmptySet
  <2>5. \A k \in Keys : KeyOK(k)
    BY <2>2, <2>4, LimiterNumbers DEF KeyOK
  <2> QED
    BY <2>1, <2>3, <2>5 DEF LimiterInv
<1> QED
  BY <1>1, LimiterStep, PTL DEF Spec

-----------------------------------------------------------------------------
(* The theorems.                                                           *)

\* Whatever path a request has, a browser whose cookie is absent or
\* over performs nothing but what is meant for anybody (handle(), proxy.ts).
THEOREM SessionRequired == Spec => []NoOperationWithoutSession
<1>1. ASSUME SessionInv, NEW b \in Browsers, cookie[b] = None \/ clock >= cookie[b].exp,
             NEW r \in Requests, Performs(b, r)
      PROVE  r.kind = "for anybody"
  <2>1. ~Unseal(b)
    <3>1. CASE cookie[b] = None
      BY <3>1 DEF Unseal
    <3>2. CASE cookie[b] # None /\ clock >= cookie[b].exp
      <4>1. clock \in Nat /\ cookie[b].exp \in Nat
        BY <1>1, <3>2, SessionNumbers DEF SessionInv, Sealed
      <4> QED
        BY <3>2, <4>1 DEF Unseal
    <3> QED
      BY <1>1, <3>1, <3>2
  <2>2. None \in r.admits /\ r.public
    BY <1>1, <2>1 DEF Performs, Caller
  <2> PICK p :
         \E op :
           /\ op = Dispatch(p)
           /\ r.public => p.resource \in {"integrations", "invitations"}
           /\ r.kind = KindOf(op)
           /\ r.admits = {a \in Actors \union {None} :
                            Allowed(Principal(a), op, OrganisationOf(a, r.org), 0)}
    BY RequestFacts, Zenon
  <2>3. PICK op :
           /\ op = Dispatch(p)
           /\ r.public => p.resource \in {"integrations", "invitations"}
           /\ r.kind = KindOf(op)
           /\ r.admits = {a \in Actors \union {None} :
                            Allowed(Principal(a), op, OrganisationOf(a, r.org), 0)}
    OBVIOUS
  <2>4. op \in ForAnybody \/ op \in Unasked
    BY <2>2, <2>3, NobodyAllowed
  <2>5. op \notin Unasked
    BY <2>2, <2>3, UnaskedPath
  <2> QED
    BY <2>3, <2>4, <2>5, Kinds
<1>2. SessionInv => NoOperationWithoutSession
  BY <1>1 DEF NoOperationWithoutSession
<1> QED
  BY <1>2, SessionInvariant, PTL

\* Nobody performs what asks for a permission on an organisation other than their
\* own, whichever organisation the request names (handle(), authorize()).
THEOREM TenantsAreSeparate == Spec => []TenantBoundary
<1>1. ASSUME SessionInv, NEW b \in Browsers, Unseal(b), NEW r \in Requests,
             Directory[cookie[b].actor].organisationId # None, r.org # None,
             r.org # Directory[cookie[b].actor].organisationId, Performs(b, r)
      PROVE  r.kind \in {"for anybody", "unasked"}
  <2>1. PICK a : a = cookie[b].actor
    OBVIOUS
  <2>2. a \in Actors
    BY <1>1, <2>1 DEF Unseal, SessionInv, Sealed
  <2>3. a \in r.admits
    BY <1>1, <2>1 DEF Performs, Caller
  <2>4. PICK op :
           /\ r.kind = KindOf(op)
           /\ r.admits = {x \in Actors \union {None} :
                            Allowed(Principal(x), op, OrganisationOf(x, r.org), 0)}
    BY RequestFacts, Zenon
  <2>5. OrganisationOf(a, r.org) = r.org
    BY <1>1 DEF OrganisationOf
  <2>6. Allowed(Principal(a), op, r.org, 0)
    BY <2>3, <2>4, <2>5
  <2>7. op \in ForAnybody \/ op \in Unasked
    BY <1>1, <2>1, <2>2, <2>6, StrangerAllowed, ConsoleAssumption
  <2> QED
    BY <2>4, <2>7, Kinds
<1>2. SessionInv => TenantBoundary
  BY <1>1 DEF TenantBoundary
<1> QED
  BY <1>2, SessionInvariant, PTL

\* By a path that is not overlooked nobody performs a privileged operation but after a
\* proof of possession, one within the last ten minutes if the actor's authenticators
\* count (privilegedAction, stepUpFresh, the step-up and login routes).
THEOREM StepUpIsEarned == Spec => []StepUpWasEarned
<1>1. ASSUME SessionInv, NEW b \in Browsers, NEW r \in Requests,
             r.kind = "privileged", Performs(b, r), ~r.overlooked,
             NEW a, a = cookie[b].actor, NEW v, v = verified[a]
      PROVE  v # None /\ (FALSE \notin passkeys[a] => clock < v + StepUpLife)
  <2> PICK p :
         \E op :
           /\ op = Dispatch(p)
           /\ r.privileged = privilegedAction(p)
           /\ r.overlooked = Overlooked(p)
           /\ r.public => p.resource \in {"integrations", "invitations"}
           /\ r.kind = KindOf(op)
    BY RequestFacts, Zenon
  <2>1. PICK op :
           /\ op = Dispatch(p)
           /\ r.privileged = privilegedAction(p)
           /\ r.overlooked = Overlooked(p)
           /\ r.public => p.resource \in {"integrations", "invitations"}
           /\ r.kind = KindOf(op)
    OBVIOUS
  <2>2. op \in Privileged
    BY <1>1, <2>1, Kinds
  <2>3. r.privileged /\ ~r.public
    <3>1. privilegedAction(p) \/ Overlooked(p)
      BY <2>1, <2>2, PrivilegedPath
    <3>2. p.resource \notin {"integrations", "invitations"}
      BY <2>1, <2>2, PrivilegedPath
    <3> QED
      BY <1>1, <2>1, <3>1, <3>2, Zenon
  <2>4. cookie[b] # None /\ clock < cookie[b].stepUp
    BY <1>1, <2>3 DEF Performs, Unseal, stepUpFresh
  <2>5. cookie[b].stepUp \in Nat /\ clock \in Nat /\ a \in Actors
    BY <1>1, <2>4, SessionNumbers DEF SessionInv, Sealed
  <2>6. cookie[b].stepUp # 0
    BY <2>4, <2>5
  <2>7. v # None /\ (FALSE \notin passkeys[a] => cookie[b].stepUp <= v + StepUpLife)
    BY <1>1, <2>4, <2>6 DEF SessionInv, Earned
  <2>8. v \in Nat /\ StepUpLife \in Nat
    BY <1>1, <2>5, <2>7, SessionNumbers DEF SessionInv
  <2>9. ASSUME FALSE \notin passkeys[a] PROVE clock < v + StepUpLife
    BY <2>4, <2>5, <2>7, <2>8, <2>9
  <2> QED
    BY <2>7, <2>9
<1>2. SessionInv => StepUpWasEarned
  BY <1>1 DEF StepUpWasEarned
<1> QED
  BY <1>2, SessionInvariant, PTL

\* Every variable keeps its type: a key of the limiter never holds more than the limit,
\* and there is always a number for the next call.
THEOREM ConsoleTypes == Spec => []TypeOK
<1>1. SessionInv /\ LimiterInv => TypeOK
  BY DEF SessionInv, LimiterInv, KeyOK, TypeOK
<1> QED
  BY <1>1, SessionInvariant, LimiterInvariant, PTL

\* The limiter admits no more than its limit in a window, and whoever comes back when a
\* refusal said finds room, unless another call took it (RateLimiter.hit).
THEOREM LimiterKeepsItsWord == Spec => []LimiterHonest
<1>1. ASSUME LimiterInv, NEW k \in Keys PROVE Cardinality(Recent(k)) <= Limit
  BY <1>1, RecentFacts
<1>2. ASSUME LimiterInv, NEW k \in Keys, promise[k] # 0, clock >= promise[k]
      PROVE  ~Full(k)
  <2>1. PICK h \in hits[k] : h[1] + Window <= promise[k]
    BY <1>2 DEF LimiterInv, KeyOK
  <2>2. h \in Call /\ promise[k] \in 0 .. MaxTime + Window /\ clock \in Times
    BY <1>2 DEF LimiterInv
  <2>3. h[1] \in Times
    BY <2>2 DEF Call
  <2>4. ~(h[1] > clock - Window)
    <3>1. h[1] \in Nat /\ promise[k] \in Nat /\ clock \in Nat /\ Window \in Nat
      BY <2>2, <2>3, SessionNumbers, LimiterNumbers
    <3> QED
      BY <1>2, <2>1, <3>1
  <2>5. Recent(k) # hits[k]
    BY <2>1, <2>4 DEF Recent
  <2>6. /\ Cardinality(Recent(k)) \in Nat /\ Cardinality(hits[k]) \in Nat
        /\ Cardinality(Recent(k)) <= Cardinality(hits[k])
        /\ Cardinality(Recent(k)) # Cardinality(hits[k])
        /\ Cardinality(hits[k]) <= Limit
    <3>1. IsFiniteSet(hits[k]) /\ Cardinality(hits[k]) <= Limit
      BY <1>2 DEF LimiterInv, KeyOK
    <3> QED
      BY <1>2, <2>5, <3>1, RecentFacts, FS_CardinalityType
  <2>7. Cardinality(Recent(k)) < Limit
    BY <2>6, LimiterNumbers
  <2> QED
    BY <2>6, <2>7, LimiterNumbers DEF Full
<1>3. LimiterInv => LimiterHonest
  BY <1>1, <1>2 DEF LimiterHonest
<1> QED
  BY <1>3, LimiterInvariant, PTL

=============================================================================
