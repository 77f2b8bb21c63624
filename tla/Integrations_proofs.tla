------------------------ MODULE Integrations_proofs ------------------------
(***************************************************************************)
(* Theorems about Integrations.  The two halves share no variable, so each *)
(* has an inductive invariant of its own.                                  *)
(***************************************************************************)
EXTENDS Integrations, TLAPS

(* Federation.                                                             *)

Policy == [accept : SUBSET Attributes, reject : SUBSET Attributes]

FedTypes ==
  /\ clock \in 0 .. MaxTime
  /\ made \in 0 .. MaxKeys
  /\ keys \in [Orgs -> KeyIds \union {Nobody}]
  /\ issuer \in [Issuers -> Issuing \union {Nobody}]
  /\ tokens \subseteq Token
  /\ trusts \in [Orgs \X Orgs -> Seq(Policy)]
  /\ consumed \in Decision \union {Nobody}

TrustsBounded ==
  \A q \in Orgs \X Orgs : trusts[q] \in Seq(Policies) /\ Len(trusts[q]) <= MaxTrusts

\* Who issues alone with the key that is there; who generates alone finds none.
IssuersAlone ==
  \A i \in Issuers : issuer[i] # Nobody /\ issuer[i].alone =>
    /\ keys[issuer[i].org] = issuer[i].key
    /\ \A j \in Issuers \ {i} : ~Generates(j, issuer[i].org)

\* While an assertion made alone is out, nobody generates a key for its issuer.
TokensAlone ==
  \A t \in tokens : t.alone =>
    keys[t.iss] = t.key /\ \A j \in Issuers : ~Generates(j, t.iss)

FedInv == FedTypes /\ TrustsBounded /\ IssuersAlone /\ TokensAlone

LEMMA FederationInit == Init => FedInv
<1> USE FederationAssumption, NobodyAssumption DEF Init, FedInit
<1>1. Init => TrustsBounded
  <2>1. << >> \in Seq(Policies) /\ Len(<< >>) = 0
    OBVIOUS
  <2> QED
    BY <2>1 DEF TrustsBounded
<1> QED
  BY <1>1 DEF FedInv, FedTypes, IssuersAlone, TokensAlone

\* Nobody issues, and no key or assertion changes.
LEMMA NotIssuing ==
  ASSUME FedInv, UNCHANGED <<keys, issuer, tokens>>
  PROVE  IssuersAlone' /\ TokensAlone'
BY DEF FedInv, IssuersAlone, TokensAlone, Generates

LEMMA CreateTrustKeeps ==
  ASSUME FedInv, NEW o \in Orgs, NEW peer \in Orgs, NEW policy \in Policies,
         CreateTrust(o, peer, policy)
  PROVE  FedInv'
<1> USE FederationAssumption, NobodyAssumption
<1>1. FedTypes'
  <2>1. policy \in Policy /\ trusts[<<o, peer>>] \in Seq(Policy)
    BY DEF FedInv, FedTypes, Policy
  <2>2. Append(trusts[<<o, peer>>], policy) \in Seq(Policy)
    BY <2>1
  <2>3. trusts' \in [Orgs \X Orgs -> Seq(Policy)]
    BY <2>2 DEF CreateTrust, FedInv, FedTypes
  <2> QED
    BY <2>3 DEF CreateTrust, FedInv, FedTypes
<1>2. TrustsBounded'
  <2>1. ASSUME NEW p \in Seq(Policies), Len(p) < MaxTrusts
        PROVE  Append(p, policy) \in Seq(Policies) /\ Len(Append(p, policy)) <= MaxTrusts
    BY <2>1
  <2>2. /\ trusts[<<o, peer>>] \in Seq(Policies) /\ Len(trusts[<<o, peer>>]) < MaxTrusts
        /\ trusts' = [trusts EXCEPT ![<<o, peer>>] = Append(trusts[<<o, peer>>], policy)]
    BY DEF CreateTrust, FedInv, TrustsBounded
  <2> QED
    BY <2>1, <2>2 DEF FedInv, FedTypes, TrustsBounded
<1> QED
  BY <1>1, <1>2, NotIssuing DEF CreateTrust, FedInv

LEMMA IssueKeeps ==
  ASSUME FedInv, NEW i \in Issuers, NEW o \in Orgs, NEW aud \in Orgs \union {Nobody},
         Issue(i, o, aud)
  PROVE  FedInv'
<1> USE FederationAssumption, NobodyAssumption
<1> DEFINE rivals == {j \in Issuers \ {i} : Generates(j, o)}
           key    == IF KeyFound(o) THEN keys[o] ELSE Nobody
           new    == [org |-> o, aud |-> aud, key |-> key, alone |-> rivals = {}]
<1>1. /\ issuer[i] = Nobody /\ issuer'[i] = new
      /\ \A j \in Issuers \ {i} :
           issuer'[j] = IF j \in rivals /\ key = Nobody THEN [issuer[j] EXCEPT !.alone = FALSE]
                        ELSE issuer[j]
      /\ issuer' = [j \in Issuers |-> issuer'[j]]
      /\ UNCHANGED <<clock, keys, made, tokens, trusts, consumed>>
  BY DEF Issue
<1>2. key = keys[o] /\ key \in KeyIds \union {Nobody}
  BY DEF KeyFound, FedInv, FedTypes
<1>3. new \in Issuing /\ new # Nobody
  <2>1. new \in Issuing
    BY <1>2 DEF Issuing
  <2> QED
    BY <2>1
<1>4. ASSUME NEW j \in Issuers \ {i}
      PROVE  /\ issuer'[j] = Nobody <=> issuer[j] = Nobody
             /\ issuer[j] # Nobody =>
                  /\ issuer[j] \in Issuing /\ issuer'[j] \in Issuing
                  /\ issuer'[j].org = issuer[j].org /\ issuer'[j].key = issuer[j].key
                  /\ issuer'[j].alone =>
                       issuer[j].alone /\ ~(j \in rivals /\ key = Nobody)
  <2>1. issuer[j] \in Issuing \union {Nobody}
    BY DEF FedInv, FedTypes
  <2>2. ASSUME issuer[j] \in Issuing
        PROVE  /\ [issuer[j] EXCEPT !.alone = FALSE] \in Issuing
               /\ [issuer[j] EXCEPT !.alone = FALSE].org = issuer[j].org
               /\ [issuer[j] EXCEPT !.alone = FALSE].key = issuer[j].key
               /\ [issuer[j] EXCEPT !.alone = FALSE].alone = FALSE
    BY <2>2 DEF Issuing
  <2>3. CASE issuer[j] = Nobody
    <3>1. j \notin rivals
      BY <2>3 DEF Generates
    <3> HIDE DEF rivals, key
    <3> QED
      BY <1>1, <2>3, <3>1
  <2>4. CASE issuer[j] \in Issuing
    <3>1. issuer[j] # Nobody
      BY <2>4
    <3> HIDE DEF rivals, key
    <3>2. CASE j \in rivals /\ key = Nobody
      <4>1. issuer'[j] = [issuer[j] EXCEPT !.alone = FALSE]
        BY <1>1, <3>2
      <4>2. issuer'[j] \in Issuing /\ issuer'[j].alone = FALSE
        BY <2>2, <2>4, <4>1
      <4>3. issuer'[j] # Nobody
        BY <4>2
      <4> QED
        BY <2>2, <2>4, <3>1, <4>1, <4>2, <4>3
    <3>3. CASE ~(j \in rivals /\ key = Nobody)
      <4>1. issuer'[j] = issuer[j]
        BY <1>1, <3>3
      <4> QED
        BY <2>4, <3>1, <3>3, <4>1
    <3> QED
      BY <3>2, <3>3
  <2> QED
    BY <2>1, <2>3, <2>4
<1> HIDE DEF rivals, key, new
<1>5. /\ new.org = o /\ new.key = key /\ (new.alone <=> rivals = {})
  BY DEF new
<1>6. FedTypes'
  <2>1. \A j \in Issuers : issuer'[j] \in Issuing \union {Nobody}
    BY <1>1, <1>3, <1>4
  <2> QED
    BY <1>1, <2>1 DEF FedInv, FedTypes
<1>7. \A j \in Issuers \ {i}, q \in Orgs : Generates(j, q)' <=> Generates(j, q)
  BY <1>4 DEF Generates
<1>8. \A q \in Orgs : Generates(i, q)' <=> q = o /\ key = Nobody
  BY <1>1, <1>3, <1>5 DEF Generates
<1>9. TokensAlone'
  <2> SUFFICES ASSUME NEW t \in tokens, t.alone
               PROVE  keys[t.iss] = t.key /\ \A j \in Issuers : ~Generates(j, t.iss)'
    BY <1>1 DEF TokensAlone
  <2>1. /\ t \in Token /\ keys[t.iss] = t.key
        /\ \A j \in Issuers : ~Generates(j, t.iss)
    BY DEF FedInv, FedTypes, TokensAlone
  <2>2. t.iss \in Orgs /\ t.key # Nobody
    BY <2>1 DEF Token, KeyIds
  <2>3. ~Generates(i, t.iss)'
    BY <1>2, <1>8, <2>1, <2>2
  <2> QED
    BY <1>7, <2>1, <2>2, <2>3
<1>10. IssuersAlone'
  <2> SUFFICES ASSUME NEW k \in Issuers, issuer'[k] # Nobody, issuer'[k].alone,
                      NEW q, q = issuer'[k].org
               PROVE  keys[q] = issuer'[k].key /\ \A j \in Issuers \ {k} : ~Generates(j, q)'
    BY <1>1 DEF IssuersAlone, Generates
  <2>1. CASE k = i
    <3>1. rivals = {} /\ issuer'[k].org = o /\ issuer'[k].key = key
      BY <1>1, <1>5, <2>1
    <3>2. \A j \in Issuers \ {k} : ~Generates(j, o)
      BY <2>1, <3>1 DEF rivals
    <3> QED
      BY <1>2, <1>7, <2>1, <3>1, <3>2
  <2>2. CASE k # i
    <3>1. /\ issuer[k] # Nobody /\ issuer[k].alone /\ issuer[k] \in Issuing
          /\ issuer'[k].org = issuer[k].org /\ issuer'[k].key = issuer[k].key
          /\ ~(k \in rivals /\ key = Nobody)
      BY <1>4, <2>2
    <3>2. /\ keys[issuer[k].org] = issuer[k].key /\ issuer[k].org \in Orgs
          /\ \A j \in Issuers \ {k} : ~Generates(j, issuer[k].org)
      BY <3>1 DEF FedInv, IssuersAlone, Issuing
    <3>3. ~Generates(i, q)'
      <4> SUFFICES ASSUME issuer[k].org = o, key = Nobody PROVE FALSE
        BY <1>8, <3>1, <3>2
      <4>1. issuer[k].key = Nobody
        BY <1>2, <3>2
      <4>2. k \in rivals
        BY <2>2, <3>1, <4>1 DEF rivals, Generates
      <4> QED
        BY <3>1, <4>2
    <3> QED
      BY <1>7, <3>1, <3>2, <3>3
  <2> QED
    BY <2>1, <2>2
<1>11. TrustsBounded'
  BY <1>1 DEF FedInv, TrustsBounded
<1> QED
  BY <1>6, <1>9, <1>10, <1>11 DEF FedInv

LEMMA GeneratedKeeps ==
  ASSUME FedInv, NEW i \in Issuers, Generated(i)
  PROVE  FedInv'
<1> USE FederationAssumption, NobodyAssumption
<1> DEFINE o == issuer[i].org
           n == made + 1
<1>1. /\ issuer[i] \in Issuing /\ issuer[i] # Nobody /\ issuer[i].key = Nobody
      /\ n \in KeyIds /\ n # Nobody /\ o \in Orgs
      /\ \A q \in Orgs : keys'[q] = IF q = o THEN n ELSE keys[q]
      /\ \A j \in Issuers \ {i} : issuer'[j] = issuer[j]
      /\ issuer'[i] = [issuer[i] EXCEPT !.key = n]
      /\ UNCHANGED <<clock, tokens, trusts, consumed>>
  BY DEF Generated, FedInv, FedTypes, Issuing, KeyIds
<1>2. /\ issuer'[i] \in Issuing /\ issuer'[i].org = o /\ issuer'[i].key = n
      /\ issuer'[i].alone = issuer[i].alone
  BY <1>1 DEF Issuing
<1>3. FedTypes'
  <2>1. issuer' \in [Issuers -> Issuing \union {Nobody}]
    BY <1>1, <1>2 DEF Generated, FedInv, FedTypes
  <2>2. keys' \in [Orgs -> KeyIds \union {Nobody}]
    BY <1>1 DEF Generated, FedInv, FedTypes
  <2>3. made' \in 0 .. MaxKeys
    BY <1>1 DEF Generated, KeyIds
  <2> QED
    BY <1>1, <2>1, <2>2, <2>3 DEF FedInv, FedTypes
<1>4. Generates(i, o)
  BY <1>1 DEF Generates
<1> HIDE DEF o, n
<1>5. \A j \in Issuers, q \in Orgs : Generates(j, q)' => Generates(j, q) /\ j # i
  BY <1>1, <1>2 DEF Generates
<1>6. TokensAlone'
  <2> SUFFICES ASSUME NEW t \in tokens, t.alone
               PROVE  keys'[t.iss] = t.key /\ \A j \in Issuers : ~Generates(j, t.iss)'
    BY <1>1 DEF TokensAlone
  <2>1. /\ t.iss \in Orgs /\ keys[t.iss] = t.key
        /\ \A j \in Issuers : ~Generates(j, t.iss)
    BY DEF FedInv, FedTypes, TokensAlone, Token
  <2>2. t.iss # o
    BY <1>4, <2>1
  <2> QED
    BY <1>1, <1>5, <2>1, <2>2
<1>7. IssuersAlone'
  <2> SUFFICES ASSUME NEW k \in Issuers, issuer'[k] # Nobody, issuer'[k].alone,
                      NEW q, q = issuer'[k].org
               PROVE  keys'[q] = issuer'[k].key /\ \A j \in Issuers \ {k} : ~Generates(j, q)'
    BY DEF IssuersAlone, Generates
  <2>1. CASE k = i
    <3>1. issuer[i].alone
      BY <1>2, <2>1
    <3>2. \A j \in Issuers \ {i} : ~Generates(j, o)
      BY <1>1, <3>1 DEF FedInv, IssuersAlone, o
    <3> QED
      BY <1>1, <1>2, <1>5, <2>1, <3>2
  <2>2. CASE k # i
    <3>1. /\ issuer'[k] = issuer[k] /\ issuer[k].org \in Orgs
          /\ keys[issuer[k].org] = issuer[k].key
          /\ \A j \in Issuers \ {k} : ~Generates(j, issuer[k].org)
      BY <1>1, <2>2 DEF FedInv, FedTypes, IssuersAlone, Issuing
    <3>2. issuer[k].org # o
      BY <1>4, <2>2, <3>1
    <3> QED
      BY <1>1, <1>5, <3>1, <3>2
  <2> QED
    BY <2>1, <2>2
<1>8. TrustsBounded'
  BY <1>1 DEF FedInv, TrustsBounded
<1> QED
  BY <1>3, <1>6, <1>7, <1>8 DEF FedInv

\* A handler that ends leaves the keys, and the others, as they are.
LEMMA EndKeeps ==
  ASSUME FedInv, NEW i \in Issuers, HandOut(i) \/ IssueFails(i)
  PROVE  FedInv'
<1> USE FederationAssumption, NobodyAssumption
<1>1. /\ issuer[i] \in Issuing /\ issuer' = [issuer EXCEPT ![i] = Nobody]
      /\ UNCHANGED <<clock, keys, made, trusts, consumed>>
  BY DEF HandOut, IssueFails, FedInv, FedTypes
<1>2. issuer'[i] = Nobody /\ \A j \in Issuers \ {i} : issuer'[j] = issuer[j]
  BY <1>1 DEF FedInv, FedTypes
<1>3. \A j \in Issuers, q \in Orgs : Generates(j, q)' => Generates(j, q)
  BY <1>2 DEF Generates
<1> DEFINE new == [iss |-> issuer[i].org, aud |-> issuer[i].aud, key |-> issuer[i].key,
                   exp |-> clock + Lifetime, alone |-> issuer[i].alone]
<1>4. \/ tokens' = tokens
      \/ /\ tokens' = tokens \union {new}
         /\ issuer[i] # Nobody /\ issuer[i].key # Nobody /\ issuer[i].aud # Nobody
  BY DEF HandOut, IssueFails
<1>5. ASSUME issuer[i].key # Nobody, issuer[i].aud # Nobody
      PROVE  /\ new \in Token
             /\ new.alone = issuer[i].alone /\ new.iss = issuer[i].org /\ new.key = issuer[i].key
  <2>1. clock + Lifetime \in 0 .. MaxTime + Lifetime
    BY DEF FedInv, FedTypes
  <2> QED
    BY <1>1, <1>5, <2>1 DEF Issuing, Token
<1> HIDE DEF new
<1>6. FedTypes'
  BY <1>1, <1>4, <1>5 DEF FedInv, FedTypes
<1>7. TokensAlone'
  <2> SUFFICES ASSUME NEW t \in tokens', t.alone
               PROVE  keys[t.iss] = t.key /\ \A j \in Issuers : ~Generates(j, t.iss)
    <3>1. \A t \in tokens' : t.iss \in Orgs
      BY <1>6 DEF FedTypes, Token
    <3> QED
      BY <1>1, <1>3, <3>1 DEF TokensAlone
  <2>1. CASE t \in tokens
    BY <2>1 DEF FedInv, TokensAlone
  <2>2. CASE t \notin tokens
    <3>1. t = new /\ issuer[i] # Nobody /\ issuer[i].key # Nobody /\ issuer[i].aud # Nobody
      BY <1>4, <2>2
    <3>2. issuer[i].alone /\ t.iss = issuer[i].org /\ t.key = issuer[i].key
      BY <1>5, <3>1
    <3>3. /\ keys[issuer[i].org] = issuer[i].key
          /\ \A j \in Issuers \ {i} : ~Generates(j, issuer[i].org)
      BY <3>1, <3>2 DEF FedInv, IssuersAlone
    <3> QED
      BY <3>1, <3>2, <3>3 DEF Generates
  <2> QED
    BY <2>1, <2>2
<1>8. IssuersAlone'
  <2> SUFFICES ASSUME NEW k \in Issuers, issuer'[k] # Nobody, issuer'[k].alone,
                      NEW q, q = issuer'[k].org
               PROVE  keys[q] = issuer'[k].key /\ \A j \in Issuers \ {k} : ~Generates(j, q)'
    BY <1>1 DEF IssuersAlone, Generates
  <2>1. k # i /\ issuer'[k] = issuer[k] /\ issuer[k].org \in Orgs
    BY <1>2 DEF FedInv, FedTypes, Issuing
  <2> QED
    BY <1>3, <2>1 DEF FedInv, IssuersAlone
<1>9. TrustsBounded'
  BY <1>1 DEF FedInv, TrustsBounded
<1> QED
  BY <1>6, <1>7, <1>8, <1>9 DEF FedInv

LEMMA RestartKeeps == ASSUME FedInv, Restart PROVE FedInv'
<1> USE FederationAssumption, NobodyAssumption
<1>1. TrustsBounded'
  <2>1. << >> \in Seq(Policies) /\ Len(<< >>) = 0
    OBVIOUS
  <2> QED
    BY <2>1 DEF Restart, TrustsBounded
<1>2. ASSUME NEW t \in Token
      PROVE  [t EXCEPT !.alone = FALSE] \in Token /\ [t EXCEPT !.alone = FALSE].alone = FALSE
  BY DEF Token
<1>3. \A t \in tokens' : t \in Token /\ t.alone = FALSE
  <2> SUFFICES ASSUME NEW t \in tokens' PROVE t \in Token /\ t.alone = FALSE
    OBVIOUS
  <2>1. PICK u \in tokens : t = [u EXCEPT !.alone = FALSE]
    BY DEF Restart
  <2>2. u \in Token
    BY DEF FedInv, FedTypes
  <2> QED
    BY <1>2, <2>1, <2>2
<1>4. TokensAlone' /\ IssuersAlone'
  BY <1>3 DEF Restart, TokensAlone, IssuersAlone
<1> QED
  BY <1>1, <1>3, <1>4 DEF Restart, FedInv, FedTypes

LEMMA FederationStep == FedInv /\ [Next]_vars => FedInv'
<1> SUFFICES ASSUME FedInv, [Next]_vars PROVE FedInv'
  OBVIOUS
<1> USE FederationAssumption, NobodyAssumption
<1>t. UNCHANGED trusts => TrustsBounded'
  BY DEF FedInv, TrustsBounded
<1>0. CASE UNCHANGED fedVars
  BY <1>t, <1>0, NotIssuing DEF FedInv, FedTypes, fedVars
<1>4. CASE \E o \in Orgs, t \in tokens : Consume(o, t)
  <2>1. PICK o \in Orgs, t \in tokens : Consume(o, t)
    BY <1>4
  <2>2. t \in Token
    BY DEF FedInv, FedTypes
  <2>3. consumed' \in Decision
    BY <2>1, <2>2 DEF Consume, Decision
  <2> QED
    BY <1>t, <2>1, <2>3, NotIssuing DEF Consume, FedInv, FedTypes
<1>5. CASE Tick
  BY <1>t, <1>5, NotIssuing DEF Tick, FedInv, FedTypes
<1> QED
  BY <1>0, <1>4, <1>5, CreateTrustKeeps, IssueKeeps, GeneratedKeeps, EndKeeps, RestartKeeps
     DEF Next, FedNext, vars

LEMMA FederationInvariant == Spec => []FedInv
BY FederationInit, FederationStep, PTL DEF Spec

----------------------------------------------------------------------------
(* Agents.                                                                 *)

\* Writing the limits of an identity that is not there changes nothing else.
BarredInv ==
  /\ agents = [a \in Agents |-> agents[a]]
  /\ barred \subseteq Agents
  /\ \A a \in barred : agents[a] # None /\ agents[a].active = FALSE

LEMMA BarredInit == Init => BarredInv
BY DEF Init, AppInit, BarredInv

LEMMA BarredStep == BarredInv /\ [Next]_vars => BarredInv'
<1> SUFFICES ASSUME BarredInv, [Next]_vars PROVE BarredInv'
  OBVIOUS
<1> USE NoAgentAssumption
<1>0. CASE UNCHANGED <<agents, barred>>
  BY <1>0 DEF BarredInv
<1>1. CASE \E c \in Calls : MakeUser(c)
  <2>1. PICK c \in Calls : MakeUser(c)
    BY <1>1
  <2> DEFINE new == [kind |-> "agent", state |-> "ACTIVE", active |-> TRUE, limited |-> FALSE]
  <2>2. /\ agents[call[c].of] = None /\ barred' = barred
        /\ agents' = [agents EXCEPT ![call[c].of] = new]
    BY <2>1 DEF MakeUser
  <2> HIDE DEF new
  <2> QED
    BY <2>2 DEF BarredInv
<1>2. CASE \E c \in Calls : WriteLimits(c)
  <2>1. PICK c \in Calls : WriteLimits(c)
    BY <1>2
  <2> DEFINE a == call[c].of
  <2>2. barred' = barred /\ agents' = [agents EXCEPT ![a] = Limited(agents[a])]
    BY <2>1 DEF WriteLimits
  <2>3. ASSUME NEW b \in barred, b = a
        PROVE  Limited(agents[a]) # None /\ Limited(agents[a]).active = FALSE
    <3>1. agents[a].active = FALSE
      BY <2>3 DEF BarredInv
    <3>2. Limited(agents[a]) \in Agent
      BY <3>1 DEF Limited, Agent
    <3>3. Limited(agents[a]).active = FALSE
      BY <3>1, Zenon DEF Limited
    <3> QED
      BY <3>2, <3>3, Zenon
  <2> HIDE DEF a
  <2> QED
    BY <2>2, <2>3 DEF BarredInv
<1>3. CASE \E a \in Agents : SuspendAgent(a)
  <2>1. PICK a \in Agents : SuspendAgent(a)
    BY <1>3
  <2> DEFINE new == [kind |-> KindOfNone, state |-> "SUSPENDED", active |-> FALSE, limited |-> FALSE]
  <2>2. /\ agents' = [agents EXCEPT ![a] = new]
        /\ barred' = barred \union {a}
    BY <2>1 DEF SuspendAgent
  <2>3. new # None /\ new.active = FALSE
    <3>1. new \in Agent
      BY DEF Agent, KindOfNone
    <3> QED
      BY <3>1, Zenon
  <2> HIDE DEF new
  <2> QED
    BY <2>2, <2>3 DEF BarredInv
<1>4. ASSUME NEW c \in Calls, Continue(c), ~MakeUser(c), ~WriteLimits(c)
      PROVE  UNCHANGED <<agents, barred>>
  BY <1>4 DEF Continue, Read, MakeProvider, MakeApplication, MakeScimApplication,
              MakeSource, Record, Fail, Engine
<1>5. CASE AppNext
  BY <1>0, <1>1, <1>2, <1>3, <1>4, <1>5
     DEF AppNext, CreateApplication, ApplyCatalogue, CreateFederationSource,
         CreateServiceIdentity, CreateHermesAgent, Starts, KeyExpires, Engine
<1> QED
  BY <1>0, <1>5 DEF Next, vars, appVars

LEMMA BarredInvariant == Spec => []BarredInv
BY BarredInit, BarredStep, PTL DEF Spec

----------------------------------------------------------------------------
(* Applications: what the handlers do, in order.                           *)

Ops == {"application", "catalogue", "source", "service", "hermes"}
Req == {"fresh", "find", "provider", "application", "metadata", "record", "scimProvider",
        "scimApplication", "source", "user", "recordUser", "limits", "refresh"}

OidcScim == <<"fresh", "find", "provider", "application", "record",
              "scimProvider", "scimApplication">>
SamlScim == <<"fresh", "find", "provider", "application", "metadata", "record",
              "scimProvider", "scimApplication">>
Agentic  == <<"user", "recordUser", "limits", "fresh", "find", "provider", "application",
              "record", "refresh">>

LEMMA SameSeq ==
  ASSUME NEW s \in Seq(Req), NEW t \in Seq(Req), Len(s) = Len(t),
         \A i \in 1 .. Len(s) : s[i] = t[i]
  PROVE  s = t
OBVIOUS

LEMMA Joined ==
  ASSUME NEW s \in Seq(Req), NEW t \in Seq(Req)
  PROVE  /\ s \o t \in Seq(Req) /\ Len(s \o t) = Len(s) + Len(t)
         /\ \A i \in 1 .. Len(s) : (s \o t)[i] = s[i]
         /\ \A i \in 1 .. Len(t) : (s \o t)[Len(s) + i] = t[i]
<1>1. /\ s \o t \in Seq(Req) /\ Len(s \o t) = Len(s) + Len(t)
      /\ \A i \in 1 .. (Len(s) + Len(t)) :
           (s \o t)[i] = IF i <= Len(s) THEN s[i] ELSE t[i - Len(s)]
  OBVIOUS
<1>2. ASSUME NEW i \in 1 .. Len(s) PROVE (s \o t)[i] = s[i]
  BY <1>1
<1>3. ASSUME NEW i \in 1 .. Len(t) PROVE (s \o t)[Len(s) + i] = t[i]
  <2>1. /\ Len(s) + i \in 1 .. (Len(s) + Len(t)) /\ ~(Len(s) + i <= Len(s))
        /\ (Len(s) + i) - Len(s) = i
    OBVIOUS
  <2> QED
    BY <1>1, <2>1
<1> QED
  BY <1>1, <1>2, <1>3

LEMMA Glued ==
  ASSUME NEW s \in Seq(Req), NEW t \in Seq(Req), NEW u \in Seq(Req),
         Len(u) = Len(s) + Len(t),
         \A i \in 1 .. Len(s) : u[i] = s[i],
         \A i \in 1 .. Len(t) : u[Len(s) + i] = t[i]
  PROVE  s \o t = u
<1>1. /\ s \o t \in Seq(Req) /\ Len(s \o t) = Len(u)
      /\ \A i \in 1 .. Len(s) : (s \o t)[i] = u[i]
      /\ \A i \in 1 .. Len(t) : (s \o t)[Len(s) + i] = u[Len(s) + i]
  BY Joined
<1>2. \A i \in 1 .. Len(u) : i \in 1 .. Len(s) \/ \E j \in 1 .. Len(t) : i = Len(s) + j
  <2>1. ASSUME NEW i \in 1 .. Len(u), i \notin 1 .. Len(s)
        PROVE  i - Len(s) \in 1 .. Len(t) /\ i = Len(s) + (i - Len(s))
    BY <2>1
  <2> QED
    BY <2>1
<1>3. \A i \in 1 .. Len(u) : (s \o t)[i] = u[i]
  BY <1>1, <1>2
<1> QED
  BY <1>1, <1>3, SameSeq

\* The lists that are put together of others, element by element.
LEMMA ListsSpelled ==
  /\ Oidc \o Scim = OidcScim /\ Saml \o Scim = SamlScim
  /\ Oidc \o << >> = Oidc /\ Saml \o << >> = Saml
  /\ Hermes = Agentic
<1>1. /\ Oidc \in Seq(Req) /\ Saml \in Seq(Req) /\ Scim \in Seq(Req)
      /\ OidcScim \in Seq(Req) /\ SamlScim \in Seq(Req)
  BY DEF Oidc, Saml, Scim, OidcScim, SamlScim, Req
<1>2. Oidc \o Scim = OidcScim
  <2>1. Len(OidcScim) = Len(Oidc) + Len(Scim)
    BY DEF Oidc, Scim, OidcScim
  <2>2. /\ \A i \in 1 .. Len(Oidc) : OidcScim[i] = Oidc[i]
        /\ \A i \in 1 .. Len(Scim) : OidcScim[Len(Oidc) + i] = Scim[i]
    BY DEF Oidc, Scim, OidcScim
  <2> QED
    BY <1>1, <2>1, <2>2, Glued
<1>3. Saml \o Scim = SamlScim
  <2>1. Len(SamlScim) = Len(Saml) + Len(Scim)
    BY DEF Saml, Scim, SamlScim
  <2>2. /\ \A i \in 1 .. Len(Saml) : SamlScim[i] = Saml[i]
        /\ \A i \in 1 .. Len(Scim) : SamlScim[Len(Saml) + i] = Scim[i]
    BY DEF Saml, Scim, SamlScim
  <2> QED
    BY <1>1, <2>1, <2>2, Glued
<1>4. Oidc \o << >> = Oidc /\ Saml \o << >> = Saml
  BY DEF Oidc, Saml
<1>5. Hermes = Agentic
  <2> DEFINE limits == <<"limits">>
             refresh == <<"refresh">>
             limited == <<"user", "recordUser", "limits">>
             client == <<"user", "recordUser", "limits", "fresh", "find", "provider",
                         "application", "record">>
  <2>1. /\ limits \in Seq(Req) /\ refresh \in Seq(Req) /\ limited \in Seq(Req)
        /\ client \in Seq(Req) /\ Service \in Seq(Req) /\ Agentic \in Seq(Req)
    BY DEF Req, Service, Agentic
  <2>2. Service \o limits = limited
    <3>1. Len(limited) = Len(Service) + Len(limits)
      BY DEF Service
    <3>2. /\ \A i \in 1 .. Len(Service) : limited[i] = Service[i]
          /\ \A i \in 1 .. Len(limits) : limited[Len(Service) + i] = limits[i]
      BY DEF Service
    <3> HIDE DEF limits, limited
    <3> QED
      BY <2>1, <3>1, <3>2, Glued
  <2>3. limited \o Oidc = client
    <3>1. Len(client) = Len(limited) + Len(Oidc)
      BY DEF Oidc
    <3>2. /\ \A i \in 1 .. Len(limited) : client[i] = limited[i]
          /\ \A i \in 1 .. Len(Oidc) : client[Len(limited) + i] = Oidc[i]
      BY DEF Oidc
    <3>3. limited \in Seq(Req) /\ Oidc \in Seq(Req) /\ client \in Seq(Req)
      BY <1>1, <2>1
    <3> HIDE DEF limited, client
    <3> QED
      BY <3>1, <3>2, <3>3, Glued
  <2>4. client \o refresh = Agentic
    <3>1. Len(Agentic) = Len(client) + Len(refresh)
      BY DEF Agentic
    <3>2. /\ \A i \in 1 .. Len(client) : Agentic[i] = client[i]
          /\ \A i \in 1 .. Len(refresh) : Agentic[Len(client) + i] = refresh[i]
      BY DEF Agentic
    <3> HIDE DEF client, refresh
    <3> QED
      BY <2>1, <3>1, <3>2, Glued
  <2> HIDE DEF limited, client
  <2> QED
    BY <2>2, <2>3, <2>4 DEF Hermes
<1> QED
  BY <1>2, <1>3, <1>4, <1>5

\* What comes before what in a list, and which handler has which request.
InOrder(s, op) ==
  /\ s \in Seq(Req) /\ Len(s) \in 2 .. 9
  /\ \A m \in 1 .. Len(s) :
       /\ s[m] = "application" => m > 1 /\ s[m - 1] = "provider"
       /\ s[m] = "scimApplication" => m > 1 /\ s[m - 1] = "scimProvider"
       /\ s[m] \in {"provider", "scimProvider"} => m < Len(s)
       /\ s[m] \in {"provider", "application"} => op \in {"application", "catalogue", "hermes"}
       /\ s[m] \in {"user", "recordUser", "limits"} => op \in {"service", "hermes"}
       /\ s[m] = "source" => op = "source"
       /\ s[m] = "record" => op \in {"application", "catalogue", "hermes", "source"}
       /\ s[m] = "record" =>
            \E j \in 1 .. m - 1 : s[j] = IF op = "source" THEN "source" ELSE "application"
       /\ s[m] \in {"recordUser", "limits"} => \E j \in 1 .. m - 1 : s[j] = "user"
       /\ s[m] = "application" /\ op = "hermes" => \E j \in 1 .. m - 1 : s[j] = "limits"

Has(s, request) == \E j \in 1 .. Len(s) : s[j] = request

\* What a list has that its handler stands for.
Complete(s, op, scim) ==
  /\ op \in {"application", "catalogue", "hermes"} => Has(s, "application") /\ Has(s, "record")
  /\ scim => Has(s, "scimProvider")
  /\ op = "source" => Has(s, "source") /\ Has(s, "record")
  /\ op \in {"service", "hermes"} => Has(s, "user") /\ Has(s, "recordUser")

LEMMA ListsInOrder ==
  /\ \A op \in {"application", "catalogue"} : InOrder(Oidc, op) /\ InOrder(Saml, op)
  /\ InOrder(OidcScim, "catalogue") /\ InOrder(SamlScim, "catalogue")
  /\ InOrder(Source, "source") /\ InOrder(Service, "service") /\ InOrder(Agentic, "hermes")
<1>1. \A op \in {"application", "catalogue"} : InOrder(Oidc, op)
  BY DEF InOrder, Oidc, Req
<1>2. \A op \in {"application", "catalogue"} : InOrder(Saml, op)
  BY DEF InOrder, Saml, Req
<1>3. InOrder(OidcScim, "catalogue")
  BY DEF InOrder, OidcScim, Req
<1>4. InOrder(SamlScim, "catalogue")
  BY DEF InOrder, SamlScim, Req
<1>5. InOrder(Source, "source")
  BY DEF InOrder, Source, Req
<1>6. InOrder(Service, "service")
  BY DEF InOrder, Service, Req
<1>7. InOrder(Agentic, "hermes")
  BY DEF InOrder, Agentic, Req
<1> QED
  BY <1>1, <1>2, <1>3, <1>4, <1>5, <1>6, <1>7

LEMMA ListsComplete ==
  /\ \A op \in {"application", "catalogue"} :
       Complete(Oidc, op, FALSE) /\ Complete(Saml, op, FALSE)
  /\ Complete(OidcScim, "catalogue", TRUE) /\ Complete(SamlScim, "catalogue", TRUE)
  /\ Complete(Source, "source", FALSE) /\ Complete(Service, "service", FALSE)
  /\ Complete(Agentic, "hermes", FALSE)
<1>1. \A op \in {"application", "catalogue"} :
        Complete(Oidc, op, FALSE) /\ Complete(Saml, op, FALSE)
  BY DEF Complete, Has, Oidc, Saml
<1>2. Complete(OidcScim, "catalogue", TRUE) /\ Complete(SamlScim, "catalogue", TRUE)
  BY DEF Complete, Has, OidcScim, SamlScim
<1>3. Complete(Source, "source", FALSE) /\ Complete(Service, "service", FALSE)
  BY DEF Complete, Has, Source, Service
<1>4. Complete(Agentic, "hermes", FALSE)
  BY DEF Complete, Has, Agentic
<1> QED
  BY <1>1, <1>2, <1>3, <1>4
----------------------------------------------------------------------------
(* Applications: the invariant.                                            *)

\* The requests of a call, all of them.
Script(k) ==
  IF k.op = "source" THEN Source
  ELSE IF k.op = "service" THEN Service
  ELSE IF k.op = "hermes" THEN Agentic
  ELSE IF k.protocol = "oidc" THEN IF k.scim THEN OidcScim ELSE Oidc
  ELSE IF k.scim THEN SamlScim ELSE Saml

\* How many it has made.
Made(k) == Len(Script(k)) - Len(k.todo)

CallRecord ==
  [todo : Seq(Req), op : Ops, protocol : {"oidc", "saml", "none"},
   of : Names \union Agents, slug : Slugs,
   provider : (1 .. MaxProviders) \union {None}, scim : BOOLEAN]

\* A call is about the slug its handler makes of the name,
Addressed(k) ==
  /\ k.slug[1] = k.of /\ k.slug[2] # "-scim"
  /\ k.slug[2] = "-saml" => k.protocol = "saml"
  /\ k.slug[2] = "hermes" => k.op \in {"service", "hermes"}
  /\ k.op \in {"service", "hermes"} => k.of \in Agents
  /\ k.op = "hermes" => k.protocol = "oidc"
  /\ k.op \in {"application", "catalogue"} => k.protocol \in {"oidc", "saml"}
  /\ k.scim => k.op = "catalogue"

\* and has the end of its handler's list of requests still to do.
Ending(k) ==
  /\ Len(k.todo) \in 1 .. Len(Script(k))
  /\ \A j \in 1 .. Len(k.todo) : k.todo[j] = Script(k)[Made(k) + j]

CallShape(k) == k \in CallRecord /\ Addressed(k) /\ Ending(k)

\* What a request of a call leaves behind.
Did(k, request) ==
  /\ request = "application" => applications[k.slug] # None
  /\ request = "scimProvider" => "scim" \in ToSet(providers)
  /\ request = "source" => k.slug \in sources
  /\ request = "user" => k.of \in Agents /\ agents[k.of] # None
  /\ request = "limits" => k.of \in limitsWritten
  /\ request = "record" =>
       <<IF k.op = "source" THEN "source" ELSE "application", k.slug>> \in trail
  /\ request = "recordUser" => <<"identity", k.of>> \in trail

Progress(k) == \A j \in 1 .. Made(k) : Did(k, Script(k)[j])

Holds(k) == k # Idle /\ Head(k.todo) \in {"application", "scimApplication"}

\* Between the two requests an application is made with, the provider is the call's
\* own: no application has it,
Own(k) ==
  /\ k.provider \in DOMAIN providers
  /\ providers[k.provider] = IF Head(k.todo) = "application" THEN k.protocol ELSE "scim"
  /\ \A t \in Slugs : applications[t] # k.provider

CallsShaped == \A c \in Calls : \A k \in {call[c]} : k # Idle => CallShape(k)
CallsProgress == \A c \in Calls : \A k \in {call[c]} : k # Idle => Progress(k)
CallsOwn == \A c \in Calls : \A k \in {call[c]} : Holds(k) => Own(k)

\* and no other call holds it.
CallsApart ==
  \A c, d \in Calls : \A k \in {call[c]} : \A l \in {call[d]} :
    c # d /\ Holds(k) /\ Holds(l) => k.provider # l.provider

Whole(a) ==
  /\ a.op \in {"application", "catalogue", "hermes"} =>
       applications[a.slug] # None /\ <<"application", a.slug>> \in trail
  /\ a.scim => "scim" \in ToSet(providers)
  /\ a.op = "source" => a.slug \in sources /\ <<"source", a.slug>> \in trail
  /\ a.op \in {"service", "hermes"} =>
       a.of \in Agents /\ agents[a.of] # None /\ <<"identity", a.of>> \in trail

AnswerRecord == [op : Ops, of : Names \union Agents, slug : Slugs, scim : BOOLEAN]

AnsweredWhole == \A a \in {answered} : a # None => a \in AnswerRecord /\ Whole(a)

ObjectTypes ==
  /\ call = [c \in Calls |-> call[c]]
  /\ begun \in 0 .. MaxCalls
  /\ providers \in Seq({"oidc", "saml", "scim"}) /\ Len(providers) <= MaxProviders
  /\ applications \in [Slugs -> (1 .. MaxProviders) \union {None}]
  /\ sources \subseteq Slugs
  /\ agents \in [Agents -> Agent \union {None}]
  /\ keyFresh \in BOOLEAN
  /\ trail \subseteq ({"application", "source"} \X Slugs) \union ({"identity"} \X Agents)
  /\ limitsWritten \subseteq Agents /\ barred \subseteq Agents

AppInv ==
  /\ ObjectTypes /\ CallsShaped /\ CallsProgress /\ CallsOwn /\ CallsApart
  /\ AnsweredWhole /\ ApplicationsBacked /\ TrailIsTrue /\ ClientAfterLimits

LEMMA ScriptFacts ==
  ASSUME NEW k \in CallRecord, Addressed(k)
  PROVE  InOrder(Script(k), k.op) /\ Complete(Script(k), k.op, k.scim)
<1>1. /\ k.op \in {"source", "service", "hermes"} => k.scim = FALSE
      /\ k.scim \in BOOLEAN
  BY DEF Addressed, CallRecord, Ops
<1>2. CASE k.op = "source"
  <2>1. Script(k) = Source
    BY <1>2 DEF Script
  <2> QED
    BY <1>1, <1>2, <2>1, ListsInOrder, ListsComplete
<1>3. CASE k.op = "service"
  <2>1. Script(k) = Service
    BY <1>3 DEF Script
  <2> QED
    BY <1>1, <1>3, <2>1, ListsInOrder, ListsComplete
<1>4. CASE k.op = "hermes"
  <2>1. Script(k) = Agentic
    BY <1>4 DEF Script
  <2> QED
    BY <1>1, <1>4, <2>1, ListsInOrder, ListsComplete
<1>5. CASE k.op \in {"application", "catalogue"} /\ k.scim = TRUE
  <2>1. k.op = "catalogue" /\ Script(k) \in {OidcScim, SamlScim}
    BY <1>5 DEF Script, Addressed
  <2> QED
    BY <1>5, <2>1, ListsInOrder, ListsComplete
<1>6. CASE k.op \in {"application", "catalogue"} /\ k.scim = FALSE
  <2>1. Script(k) \in {Oidc, Saml}
    BY <1>6 DEF Script
  <2> QED
    BY <1>6, <2>1, ListsInOrder, ListsComplete
<1> QED
  BY <1>1, <1>2, <1>3, <1>4, <1>5, <1>6 DEF CallRecord, Ops

\* The request a call makes next.
LEMMA AtHead ==
  ASSUME NEW k, CallShape(k)
  PROVE  /\ k # Idle
         /\ Made(k) \in 0 .. (Len(Script(k)) - 1) /\ Made(k) + 1 \in 1 .. Len(Script(k))
         /\ Len(k.todo) = Len(Script(k)) - Made(k)
         /\ Head(k.todo) = Script(k)[Made(k) + 1]
<1>1. k.todo \in Seq(Req) /\ Len(k.todo) \in 1 .. Len(Script(k)) /\ Len(Script(k)) \in Nat
  BY ScriptFacts DEF CallShape, CallRecord, Ending, InOrder
<1>2. k.todo # << >> /\ Head(k.todo) = k.todo[1]
  BY <1>1
<1>3. k # Idle
  BY <1>2 DEF Idle
<1>4. k.todo[1] = Script(k)[Made(k) + 1]
  BY <1>1 DEF CallShape, Ending
<1>5. /\ Made(k) \in 0 .. (Len(Script(k)) - 1) /\ Made(k) + 1 \in 1 .. Len(Script(k))
      /\ Len(k.todo) = Len(Script(k)) - Made(k)
  BY <1>1 DEF Made
<1> QED
  BY <1>2, <1>3, <1>4, <1>5

\* A call that had one request more to make.
Advanced(k, x) ==
  /\ x \in CallRecord /\ Len(k.todo) # 1 /\ x.todo = Tail(k.todo)
  /\ x.op = k.op /\ x.protocol = k.protocol /\ x.of = k.of /\ x.slug = k.slug /\ x.scim = k.scim

LEMMA AdvancedShape ==
  ASSUME NEW k, CallShape(k), NEW x, Advanced(k, x)
  PROVE  CallShape(x) /\ Script(x) = Script(k) /\ Made(x) = Made(k) + 1
<1>1. /\ k.todo \in Seq(Req) /\ Len(k.todo) \in 1 .. Len(Script(k)) /\ Len(Script(k)) \in Nat
      /\ Len(k.todo) # 1 /\ x.todo = Tail(k.todo)
  BY ScriptFacts DEF CallShape, CallRecord, Ending, InOrder, Advanced
<1>2. /\ Len(x.todo) = Len(k.todo) - 1
      /\ \A j \in 1 .. Len(x.todo) : x.todo[j] = k.todo[j + 1]
  BY <1>1
<1>3. Script(x) = Script(k)
  BY DEF Advanced, Script
<1>4. Made(x) = Made(k) + 1
  <2>1. ASSUME NEW m \in Nat, NEW n \in 1 .. m PROVE m - (n - 1) = (m - n) + 1
    OBVIOUS
  <2>2. Made(k) = Len(Script(k)) - Len(k.todo)
        /\ Made(x) = Len(Script(k)) - (Len(k.todo) - 1)
    BY <1>2, <1>3 DEF Made
  <2> QED
    BY <1>1, <2>1, <2>2
<1>5. Made(k) \in Nat
  BY AtHead
<1>6. Len(x.todo) \in 1 .. Len(Script(x))
  <2>1. ASSUME NEW m \in Nat, NEW n \in 1 .. m, n # 1 PROVE n - 1 \in 1 .. m
    BY <2>1
  <2>2. Len(k.todo) \in 1 .. Len(Script(k)) /\ Len(Script(k)) \in Nat /\ Len(k.todo) # 1
    BY <1>1
  <2>3. Len(k.todo) - 1 \in 1 .. Len(Script(k))
    BY <2>1, <2>2
  <2> QED
    BY <1>2, <1>3, <2>3
<1>7. ASSUME NEW j \in 1 .. Len(x.todo) PROVE x.todo[j] = Script(x)[Made(x) + j]
  <2>1. j + 1 \in 1 .. Len(k.todo) /\ Made(k) + (j + 1) = Made(x) + j
    BY <1>1, <1>2, <1>4, <1>5
  <2>2. k.todo[j + 1] = Script(k)[Made(k) + (j + 1)]
    BY <2>1 DEF CallShape, Ending
  <2> QED
    BY <1>2, <1>3, <2>1, <2>2
<1>8. Addressed(x)
  BY DEF Advanced, CallShape, Addressed
<1> QED
  BY <1>3, <1>4, <1>6, <1>7, <1>8 DEF CallShape, Ending, Advanced

\* What comes after the request a call made.
LEMMA NextHead ==
  ASSUME NEW k, CallShape(k), NEW x, Advanced(k, x)
  PROVE  /\ Head(x.todo) = "application" => Head(k.todo) = "provider"
         /\ Head(x.todo) = "scimApplication" => Head(k.todo) = "scimProvider"
<1>1. CallShape(x) /\ Script(x) = Script(k) /\ Made(x) = Made(k) + 1
  BY AdvancedShape
<1>2. /\ Head(x.todo) = Script(k)[Made(x) + 1] /\ Made(x) + 1 \in 1 .. Len(Script(k))
      /\ Head(k.todo) = Script(k)[Made(k) + 1] /\ Made(k) \in Nat
  BY <1>1, AtHead
<1>3. InOrder(Script(k), k.op)
  BY ScriptFacts DEF CallShape
<1>4. (Made(x) + 1) - 1 = Made(k) + 1
  BY <1>1, <1>2
<1> QED
  BY <1>2, <1>3, <1>4 DEF InOrder

----------------------------------------------------------------------------
(* Applications: what a step keeps.                                        *)

\* Nothing that was made is taken away.
Grows ==
  /\ \A s \in Slugs : applications[s] # None => applications'[s] # None
  /\ "scim" \in ToSet(providers) => "scim" \in ToSet(providers)'
  /\ sources \subseteq sources' /\ trail \subseteq trail' /\ limitsWritten \subseteq limitsWritten'
  /\ \A a \in Agents : agents[a] # None => agents'[a] # None

LEMMA DidStays ==
  ASSUME Grows, NEW k, k.slug \in Slugs, NEW request, Did(k, request)
  PROVE  Did(k, request)'
BY DEF Grows, Did

LEMMA WholeStays ==
  ASSUME Grows, NEW a \in AnswerRecord, Whole(a)
  PROVE  Whole(a)'
BY DEF Grows, Whole, AnswerRecord

\* A call that made its request has done one more,
LEMMA ProgressOn ==
  ASSUME Grows, NEW k, CallShape(k), Progress(k), Did(k, Head(k.todo))', NEW x, Advanced(k, x)
  PROVE  Progress(x)'
<1>1. CallShape(x) /\ Script(x) = Script(k) /\ Made(x) = Made(k) + 1
  BY AdvancedShape
<1>2. Made(k) \in Nat /\ Head(k.todo) = Script(k)[Made(k) + 1]
  BY AtHead
<1>3. k.slug \in Slugs
  BY DEF CallShape, CallRecord
<1>4. ASSUME NEW request, Did(k, request)' PROVE Did(x, request)'
  BY <1>4 DEF Did, Advanced
<1>5. ASSUME NEW j \in 1 .. Made(k) + 1 PROVE Did(x, Script(k)[j])'
  <2>1. CASE j = Made(k) + 1
    BY <1>2, <1>4, <2>1
  <2>2. CASE j # Made(k) + 1
    <3>1. j \in 1 .. Made(k)
      BY <1>2, <2>2
    <3>2. Did(k, Script(k)[j])
      BY <3>1 DEF Progress
    <3> QED
      BY <1>3, <1>4, <3>2, DidStays
  <2> QED
    BY <2>1, <2>2
<1> QED
  BY <1>1, <1>5 DEF Progress

LEMMA ProgressStays ==
  ASSUME Grows, NEW k, CallShape(k), Progress(k)
  PROVE  Progress(k)'
BY DidStays DEF Progress, CallShape, CallRecord

\* and when it was the last one, all that its handler stands for.
AnswerOf(k) == [op |-> k.op, of |-> k.of, slug |-> k.slug, scim |-> k.scim]

LEMMA AllDone ==
  ASSUME Grows, NEW k, CallShape(k), Progress(k), Did(k, Head(k.todo))', Len(k.todo) = 1
  PROVE  AnswerOf(k) \in AnswerRecord /\ Whole(AnswerOf(k))'
<1>1. /\ Made(k) \in Nat /\ Len(Script(k)) = Made(k) + 1
      /\ Head(k.todo) = Script(k)[Made(k) + 1]
  <2>1. ASSUME NEW m \in Nat, NEW n \in Int, 1 = n - m PROVE n = m + 1
    BY <2>1
  <2>2. Made(k) \in Nat
    BY AtHead
  <2>3. Len(Script(k)) \in Int
    BY ScriptFacts DEF CallShape, InOrder
  <2>4. Len(k.todo) = Len(Script(k)) - Made(k) /\ Head(k.todo) = Script(k)[Made(k) + 1]
    BY AtHead
  <2>5. Len(Script(k)) = Made(k) + 1
    BY <2>1, <2>2, <2>3, <2>4
  <2> QED
    BY <2>2, <2>4, <2>5
<1>2. ASSUME NEW j \in 1 .. Len(Script(k)) PROVE Did(k, Script(k)[j])'
  <2>1. CASE j = Made(k) + 1
    BY <1>1, <2>1
  <2>2. CASE j # Made(k) + 1
    <3>1. j \in 1 .. Made(k)
      BY <1>1, <2>2
    <3> QED
      BY <3>1, DidStays DEF Progress, CallShape, CallRecord
  <2> QED
    BY <2>1, <2>2
<1>3. ASSUME NEW request, Has(Script(k), request) PROVE Did(k, request)'
  BY <1>2, <1>3 DEF Has
<1>4. Complete(Script(k), k.op, k.scim)
  BY ScriptFacts DEF CallShape
<1> DEFINE a == AnswerOf(k)
<1>5. /\ a.op = k.op /\ a.of = k.of /\ a.slug = k.slug /\ a.scim = k.scim
      /\ a \in AnswerRecord
  BY DEF AnswerOf, AnswerRecord, CallShape, CallRecord
<1>6. k.op \in {"application", "catalogue", "hermes"} =>
        applications'[k.slug] # None /\ <<"application", k.slug>> \in trail'
  <2>1. k.op \in {"application", "catalogue", "hermes"} =>
          Did(k, "application")' /\ Did(k, "record")'
    BY <1>3, <1>4 DEF Complete
  <2> QED
    BY <2>1 DEF Did
<1>7. k.scim => "scim" \in ToSet(providers)'
  <2>1. k.scim => Did(k, "scimProvider")'
    BY <1>3, <1>4 DEF Complete
  <2> QED
    BY <2>1 DEF Did
<1>8. k.op = "source" => k.slug \in sources' /\ <<"source", k.slug>> \in trail'
  <2>1. k.op = "source" => Did(k, "source")' /\ Did(k, "record")'
    BY <1>3, <1>4 DEF Complete
  <2> QED
    BY <2>1 DEF Did
<1>9. k.op \in {"service", "hermes"} =>
        k.of \in Agents /\ agents'[k.of] # None /\ <<"identity", k.of>> \in trail'
  <2>1. k.op \in {"service", "hermes"} => Did(k, "user")' /\ Did(k, "recordUser")'
    BY <1>3, <1>4 DEF Complete
  <2> QED
    BY <2>1 DEF Did
<1> HIDE DEF a
<1>10. Whole(a)'
  BY <1>5, <1>6, <1>7, <1>8, <1>9 DEF Whole
<1> QED
  BY <1>5, <1>10 DEF a

\* A call that is answered, or whose answer is lost.
LEMMA AnswerMoves ==
  ASSUME NEW c \in Calls, NEW k, k = call[c], CallShape(k), Returns(c)
  PROVE  \E x : /\ call' = [call EXCEPT ![c] = x]
                /\ x = Idle \/ Advanced(k, x)
                /\ answered' = answered \/ (Len(k.todo) = 1 /\ answered' = AnswerOf(k))
<1>1. CASE call' = [call EXCEPT ![c] = Idle]
  <2>1. answered' = answered \/ (Len(k.todo) = 1 /\ answered' = AnswerOf(k))
    BY DEF Returns, Answer, AnswerOf
  <2> QED
    BY <1>1, <2>1
<1>2. CASE Len(k.todo) # 1 /\ answered' = answered /\ call' = [call EXCEPT ![c].todo = Tail(@)]
  <2> DEFINE x == [k EXCEPT !.todo = Tail(k.todo)]
  <2>1. call' = [call EXCEPT ![c] = x]
    BY <1>2
  <2>2. k \in CallRecord
    BY DEF CallShape
  <2>3. Tail(k.todo) \in Seq(Req)
    <3>1. k.todo \in Seq(Req) /\ k.todo # << >>
      BY AtHead DEF CallShape, CallRecord, Ending
    <3> QED
      BY <3>1
  <2>4. Advanced(k, x)
    BY <1>2, <2>2, <2>3 DEF Advanced, CallRecord
  <2> QED
    BY <1>2, <2>1, <2>4
<1> QED
  BY <1>1, <1>2 DEF Returns, Answer

\* What happened to the call of a step.
Moves(c, k, x) ==
  /\ call' = [call EXCEPT ![c] = x]
  /\ x = Idle \/ (Advanced(k, x) /\ Did(k, Head(k.todo))')
  /\ \/ answered' = answered
     \/ Len(k.todo) = 1 /\ answered' = AnswerOf(k) /\ Did(k, Head(k.todo))'

LEMMA ReturnMoves ==
  ASSUME NEW c \in Calls, NEW k, k = call[c], CallShape(k), Returns(c), Did(k, Head(k.todo))'
  PROVE  \E x : Moves(c, k, x)
BY AnswerMoves DEF Moves

LEMMA MovesKeep ==
  ASSUME AppInv, Grows, NEW c \in Calls, NEW k, k = call[c], k # Idle, NEW x, Moves(c, k, x)
  PROVE  CallsShaped' /\ CallsProgress' /\ AnsweredWhole'
<1>1. CallShape(k) /\ Progress(k)
  BY DEF AppInv, CallsShaped, CallsProgress
<1>2. ASSUME NEW d \in Calls, NEW l, l = call'[d], l # Idle
      PROVE  CallShape(l) /\ Progress(l)'
  <2>1. CASE d = c
    <3>1. l = x
      BY <1>2, <2>1 DEF Moves, AppInv, ObjectTypes
    <3>2. Advanced(k, x) /\ Did(k, Head(k.todo))'
      BY <1>2, <3>1 DEF Moves
    <3>3. CallShape(x) /\ Progress(x)'
      BY <1>1, <3>2, AdvancedShape, ProgressOn
    <3> QED
      BY <3>1, <3>3
  <2>2. CASE d # c
    <3>1. l = call[d]
      BY <1>2, <2>2 DEF Moves, AppInv, ObjectTypes
    <3>2. CallShape(l) /\ Progress(l)
      BY <1>2, <3>1 DEF AppInv, CallsShaped, CallsProgress
    <3> QED
      BY <3>2, ProgressStays
  <2> QED
    BY <2>1, <2>2
<1>3. ASSUME NEW a, a = answered', a # None PROVE a \in AnswerRecord /\ Whole(a)'
  <2>1. CASE answered' = answered
    BY <1>3, <2>1, WholeStays DEF AppInv, AnsweredWhole
  <2>2. CASE Len(k.todo) = 1 /\ answered' = AnswerOf(k) /\ Did(k, Head(k.todo))'
    BY <1>1, <1>3, <2>2, AllDone
  <2> QED
    BY <2>1, <2>2 DEF Moves
<1> QED
  BY <1>2, <1>3 DEF CallsShaped, CallsProgress, AnsweredWhole

MakesProvider(k) == Head(k.todo) \in {"provider", "scimProvider"}

\* The application a step makes does not get the provider of another call.
Spared(c) ==
  \A d \in Calls \ {c} : \A l \in {call[d]} : \A t \in Slugs :
    Holds(l) => applications'[t] # l.provider

\* A step that makes no provider: nobody begins to hold one.
LEMMA HoldersKeep ==
  ASSUME AppInv, NEW c \in Calls, NEW k, k = call[c], k # Idle, NEW x, Moves(c, k, x),
         x = Idle \/ ~MakesProvider(k), providers' = providers, Spared(c)
  PROVE  CallsOwn' /\ CallsApart'
<1>1. ~Holds(x)
  <2>1. CallShape(k)
    BY DEF AppInv, CallsShaped
  <2> QED
    BY <2>1, NextHead DEF Holds, MakesProvider, Moves
<1>2. ASSUME NEW d \in Calls, NEW l, l = call'[d], Holds(l)
      PROVE  d # c /\ l = call[d]
  BY <1>1, <1>2 DEF AppInv, ObjectTypes, Moves
<1>3. ASSUME NEW d \in Calls, NEW l, l = call'[d], Holds(l)
      PROVE  Own(l)'
  <2>1. d # c /\ l = call[d]
    BY <1>2, <1>3
  <2>2. Own(l)
    BY <1>3, <2>1 DEF AppInv, CallsOwn
  <2> QED
    BY <1>3, <2>1, <2>2 DEF Own, Spared
<1>4. ASSUME NEW d \in Calls, NEW e \in Calls, NEW l, NEW m, l = call'[d], m = call'[e],
             d # e, Holds(l), Holds(m)
      PROVE  l.provider # m.provider
  <2>1. l = call[d] /\ m = call[e]
    BY <1>2, <1>4
  <2> QED
    BY <1>4, <2>1 DEF AppInv, CallsApart
<1> QED
  BY <1>3, <1>4 DEF CallsOwn, CallsApart

\* A step that records nothing.
LEMMA TrailKeeps ==
  ASSUME AppInv, Grows, trail' = trail
  PROVE  TrailIsTrue'
<1> SUFFICES ASSUME NEW e \in trail
    PROVE CASE e[1] = "application" -> applications'[e[2]] # None
            [] e[1] = "source"      -> e[2] \in sources'
            [] OTHER                -> agents'[e[2]] # None
  BY DEF TrailIsTrue
<1>1. \/ e[1] \in {"application", "source"} /\ e[2] \in Slugs
      \/ e[1] = "identity" /\ e[2] \in Agents
  BY DEF AppInv, ObjectTypes
<1>2. e[1] = "application" => applications'[e[2]] # None
  BY <1>1 DEF AppInv, TrailIsTrue, Grows
<1>3. e[1] = "source" => e[2] \in sources'
  BY DEF AppInv, TrailIsTrue, Grows
<1>4. e[1] = "identity" => agents'[e[2]] # None
  BY <1>1 DEF AppInv, TrailIsTrue, Grows
<1> QED
  BY <1>1, <1>2, <1>3, <1>4

\* A step that makes neither a provider nor an application.
LEMMA ApplicationsKeep ==
  ASSUME AppInv, Grows, applications' = applications, providers' = providers
  PROVE  /\ ApplicationsBacked' /\ ClientAfterLimits'
         /\ \A c \in Calls : Spared(c)
<1>1. ApplicationsBacked'
  BY DEF AppInv, ApplicationsBacked
<1>2. ClientAfterLimits'
  BY DEF AppInv, ClientAfterLimits, Grows
<1>3. ASSUME NEW c \in Calls PROVE Spared(c)
  BY DEF AppInv, CallsOwn, Own, Spared
<1> QED
  BY <1>1, <1>2, <1>3

----------------------------------------------------------------------------
(* Applications: the steps.                                                *)

\* What is so when a call comes to a request.
LEMMA Ready ==
  ASSUME AppInv, NEW c \in Calls, NEW k, k = call[c], k # Idle
  PROVE  /\ CallShape(k) /\ k \in CallRecord /\ Addressed(k)
         /\ k.slug \in Slugs /\ k.provider \in (1 .. MaxProviders) \union {None}
         /\ Holds(k) => Own(k)
         /\ Head(k.todo) = "provider" => k.protocol \in {"oidc", "saml"}
         /\ Head(k.todo) \in {"user", "recordUser", "limits"} => k.of \in Agents
         /\ Head(k.todo) \in {"recordUser", "limits"} => agents[k.of] # None
         /\ Head(k.todo) = "application" =>
              /\ k.op \in {"application", "catalogue", "hermes"}
              /\ k.op = "hermes" => k.of \in limitsWritten
         /\ Head(k.todo) = "record" =>
              IF k.op = "source" THEN k.slug \in sources ELSE applications[k.slug] # None
<1>1. CallShape(k) /\ Progress(k) /\ (Holds(k) => Own(k))
  BY DEF AppInv, CallsShaped, CallsProgress, CallsOwn
<1>2. /\ k \in CallRecord /\ Addressed(k)
      /\ k.slug \in Slugs /\ k.provider \in (1 .. MaxProviders) \union {None}
  BY <1>1 DEF CallShape, CallRecord
<1> DEFINE s == Script(k)
           n == Made(k) + 1
<1>3. n \in 1 .. Len(s) /\ Made(k) \in Nat /\ Head(k.todo) = s[n] /\ 1 .. n - 1 = 1 .. Made(k)
  BY <1>1, AtHead
<1>4. InOrder(s, k.op)
  BY <1>1, ScriptFacts DEF CallShape
<1>5. \A j \in 1 .. n - 1 : Did(k, s[j])
  BY <1>1, <1>3 DEF Progress
<1> HIDE DEF s, n
<1>6. /\ Head(k.todo) \in {"provider", "application"} => k.op \in {"application", "catalogue", "hermes"}
      /\ Head(k.todo) \in {"user", "recordUser", "limits"} => k.op \in {"service", "hermes"}
  BY <1>3, <1>4 DEF InOrder
<1>7. ASSUME NEW request, \E j \in 1 .. n - 1 : s[j] = request PROVE Did(k, request)
  BY <1>5, <1>7
<1>8. /\ Head(k.todo) \in {"recordUser", "limits"} => Did(k, "user")
      /\ Head(k.todo) = "application" /\ k.op = "hermes" => Did(k, "limits")
      /\ Head(k.todo) = "record" => Did(k, IF k.op = "source" THEN "source" ELSE "application")
  BY <1>3, <1>4, <1>7 DEF InOrder
<1>9. /\ Head(k.todo) = "provider" => k.protocol \in {"oidc", "saml"}
      /\ Head(k.todo) \in {"user", "recordUser", "limits"} => k.of \in Agents
  BY <1>2, <1>6 DEF Addressed
<1>10. /\ Head(k.todo) \in {"recordUser", "limits"} => agents[k.of] # None
       /\ Head(k.todo) = "application" /\ k.op = "hermes" => k.of \in limitsWritten
       /\ Head(k.todo) = "record" =>
            IF k.op = "source" THEN k.slug \in sources ELSE applications[k.slug] # None
  BY <1>8 DEF Did
<1> QED
  BY <1>1, <1>2, <1>6, <1>9, <1>10

\* A call begins.
LEMMA Begun ==
  ASSUME AppInv, NEW c \in Calls, NEW op \in Ops, NEW protocol \in {"oidc", "saml", "none"},
         NEW of \in Names \union Agents, NEW suffix \in SlugEndings, NEW scim \in BOOLEAN,
         NEW todo, Starts(c, op, protocol, of, suffix, scim, todo),
         NEW k, k = [todo |-> todo, op |-> op, protocol |-> protocol, of |-> of,
                     slug |-> <<of, suffix>>, provider |-> None, scim |-> scim],
         Addressed(k), todo = Script(k), Head(todo) \notin {"application", "scimApplication"}
  PROVE  AppInv'
<1>1. call' = [call EXCEPT ![c] = k]
      /\ UNCHANGED <<providers, applications, sources, agents, keyFresh, trail, answered,
                     limitsWritten, barred>>
  BY DEF Starts, Engine
<1>2. /\ Script(k) \in Seq(Req) /\ Len(Script(k)) \in 2 .. 9
  <2>1. Script(k) \in {Oidc, Saml, OidcScim, SamlScim, Source, Service, Agentic}
    BY DEF Script
  <2> QED
    BY <2>1, ListsInOrder DEF InOrder
<1>3. k \in CallRecord /\ k.todo = Script(k)
  <2>1. <<of, suffix>> \in Slugs
    BY DEF Slugs
  <2> QED
    BY <1>2, <2>1 DEF CallRecord
<1>4. Made(k) = 0 /\ Len(k.todo) \in 1 .. Len(Script(k))
  BY <1>2, <1>3 DEF Made
<1>5. CallShape(k)
  <2>1. ASSUME NEW j \in 1 .. Len(k.todo) PROVE k.todo[j] = Script(k)[Made(k) + j]
    BY <1>3, <1>4
  <2> QED
    BY <1>3, <1>4, <2>1 DEF CallShape, Ending
<1>6. Progress(k)' /\ ~Holds(k)
  BY <1>3, <1>4 DEF Progress, Holds
<1>7. ASSUME NEW d \in Calls, NEW l, l = call'[d] PROVE (d = c /\ l = k) \/ (d # c /\ l = call[d])
  BY <1>1, <1>7 DEF AppInv, ObjectTypes
<1>8. CallsShaped'
  BY <1>5, <1>7 DEF AppInv, CallsShaped
<1>9. CallsProgress'
  <2>1. Grows
    BY <1>1 DEF Grows
  <2>2. ASSUME NEW d \in Calls, NEW l, l = call[d], l # Idle PROVE Progress(l)'
    BY <2>1, <2>2, ProgressStays DEF AppInv, CallsShaped, CallsProgress
  <2>3. ASSUME NEW d \in Calls, NEW l, l = call'[d], l # Idle PROVE Progress(l)'
    BY <1>6, <1>7, <2>2, <2>3
  <2> QED
    BY <2>3 DEF CallsProgress
<1>10. CallsOwn'
  <2>1. ASSUME NEW d \in Calls, NEW l, l = call'[d], Holds(l) PROVE Own(l)'
    <3>1. Own(l)
      BY <1>6, <1>7, <2>1 DEF AppInv, CallsOwn
    <3> QED
      BY <1>1, <3>1 DEF Own
  <2> QED
    BY <2>1 DEF CallsOwn
<1>11. CallsApart'
  <2>1. ASSUME NEW d \in Calls, NEW l, l = call'[d], Holds(l) PROVE l = call[d]
    BY <1>6, <1>7, <2>1
  <2> QED
    BY <2>1 DEF AppInv, CallsApart
<1>12. ObjectTypes'
  <2>1. begun' \in 0 .. MaxCalls
    BY ApplicationsAssumption DEF Starts, AppInv, ObjectTypes
  <2> QED
    BY <1>1, <2>1 DEF AppInv, ObjectTypes
<1>13. AnsweredWhole'
  BY <1>1 DEF AppInv, AnsweredWhole, Whole
<1>14. ApplicationsBacked' /\ TrailIsTrue' /\ ClientAfterLimits'
  BY <1>1 DEF AppInv, ApplicationsBacked, TrailIsTrue, ClientAfterLimits
<1> QED
  BY <1>8, <1>9, <1>10, <1>11, <1>12, <1>13, <1>14 DEF AppInv

LEMMA StartsKeep ==
  ASSUME AppInv, NEW c \in Calls
  PROVE  /\ \A name \in Names, protocol \in {"oidc", "saml"} :
              /\ CreateApplication(c, name, protocol) => AppInv'
              /\ \A scim \in BOOLEAN : ApplyCatalogue(c, name, protocol, scim) => AppInv'
         /\ \A name \in Names : CreateFederationSource(c, name) => AppInv'
         /\ \A a \in Agents : /\ CreateServiceIdentity(c, a) => AppInv'
                              /\ CreateHermesAgent(c, a) => AppInv'
<1> DEFINE Fresh(op, protocol, of, suffix, scim, todo) ==
      [todo |-> todo, op |-> op, protocol |-> protocol, of |-> of,
       slug |-> <<of, suffix>>, provider |-> None, scim |-> scim]
<1>0. /\ Head(Oidc) = "fresh" /\ Head(Saml) = "fresh" /\ Head(OidcScim) = "fresh"
      /\ Head(SamlScim) = "fresh" /\ Head(Source) = "find" /\ Head(Service) = "user"
      /\ Head(Agentic) = "user"
  BY DEF Oidc, Saml, OidcScim, SamlScim, Source, Service, Agentic
<1>1. ASSUME NEW name \in Names, NEW protocol \in {"oidc", "saml"},
             CreateApplication(c, name, protocol)
      PROVE  AppInv'
  <2> DEFINE todo == IF protocol = "oidc" THEN Oidc ELSE Saml
             k == Fresh("application", protocol, name, "", FALSE, todo)
  <2>1. Starts(c, "application", protocol, name, "", FALSE, todo)
    BY <1>1 DEF CreateApplication
  <2>2. Addressed(k) /\ todo = Script(k)
    BY DEF Addressed, Script
  <2>3. Head(todo) \notin {"application", "scimApplication"}
    BY <1>0
  <2>4. "application" \in Ops /\ "" \in SlugEndings
    BY DEF Ops, SlugEndings
  <2> HIDE DEF todo
  <2> QED
    BY <2>1, <2>2, <2>3, <2>4, Begun
<1>2. ASSUME NEW name \in Names, NEW protocol \in {"oidc", "saml"}, NEW scim \in BOOLEAN,
             ApplyCatalogue(c, name, protocol, scim)
      PROVE  AppInv'
  <2> DEFINE todo == (IF protocol = "oidc" THEN Oidc ELSE Saml) \o IF scim THEN Scim ELSE << >>
             suffix == IF protocol = "saml" THEN "-saml" ELSE ""
             k == Fresh("catalogue", protocol, name, suffix, scim, todo)
  <2>1. Starts(c, "catalogue", protocol, name, suffix, scim, todo)
    BY <1>2 DEF ApplyCatalogue
  <2>2. todo = IF protocol = "oidc" THEN IF scim THEN OidcScim ELSE Oidc
               ELSE IF scim THEN SamlScim ELSE Saml
    BY ListsSpelled
  <2>3. Head(todo) \notin {"application", "scimApplication"}
    BY <1>0, <2>2
  <2>4. "catalogue" \in Ops /\ suffix \in SlugEndings
    BY DEF Ops, SlugEndings
  <2> HIDE DEF todo
  <2>5. Addressed(k) /\ todo = Script(k)
    BY <2>2 DEF Addressed, Script
  <2> HIDE DEF suffix
  <2> QED
    BY <2>1, <2>3, <2>4, <2>5, Begun
<1>3. ASSUME NEW name \in Names, CreateFederationSource(c, name) PROVE AppInv'
  <2> DEFINE k == Fresh("source", "none", name, "", FALSE, Source)
  <2>1. Starts(c, "source", "none", name, "", FALSE, Source)
    BY <1>3 DEF CreateFederationSource
  <2>2. Addressed(k) /\ Source = Script(k)
    BY DEF Addressed, Script
  <2>3. "source" \in Ops /\ "" \in SlugEndings
    BY DEF Ops, SlugEndings
  <2> QED
    BY <1>0, <2>1, <2>2, <2>3, Begun
<1>4. ASSUME NEW a \in Agents, CreateServiceIdentity(c, a) PROVE AppInv'
  <2> DEFINE k == Fresh("service", "none", a, "hermes", FALSE, Service)
  <2>1. Starts(c, "service", "none", a, "hermes", FALSE, Service)
    BY <1>4 DEF CreateServiceIdentity
  <2>2. Addressed(k) /\ Service = Script(k)
    BY DEF Addressed, Script
  <2>3. "service" \in Ops /\ "hermes" \in SlugEndings
    BY DEF Ops, SlugEndings
  <2> QED
    BY <1>0, <2>1, <2>2, <2>3, Begun
<1>5. ASSUME NEW a \in Agents, CreateHermesAgent(c, a) PROVE AppInv'
  <2> DEFINE k == Fresh("hermes", "oidc", a, "hermes", FALSE, Agentic)
  <2>1. Starts(c, "hermes", "oidc", a, "hermes", FALSE, Agentic)
    BY <1>5, ListsSpelled DEF CreateHermesAgent
  <2>2. Addressed(k) /\ Agentic = Script(k)
    BY DEF Addressed, Script
  <2>3. "hermes" \in Ops /\ "hermes" \in SlugEndings
    BY DEF Ops, SlugEndings
  <2> QED
    BY <1>0, <2>1, <2>2, <2>3, Begun
<1> QED
  BY <1>1, <1>2, <1>3, <1>4, <1>5

\* A request that makes neither a provider nor an application, and records nothing.
LEMMA PlainStep ==
  ASSUME AppInv, Grows, NEW c \in Calls, NEW k, k = call[c], k # Idle,
         NEW x, Moves(c, k, x), x = Idle \/ ~MakesProvider(k),
         providers' = providers, applications' = applications, trail' = trail, ObjectTypes'
  PROVE  AppInv'
<1>1. CallsShaped' /\ CallsProgress' /\ AnsweredWhole'
  BY MovesKeep
<1>2. TrailIsTrue' /\ ApplicationsBacked' /\ ClientAfterLimits' /\ Spared(c)
  BY TrailKeeps, ApplicationsKeep
<1>3. CallsOwn' /\ CallsApart'
  BY <1>2, HoldersKeep
<1> QED
  BY <1>1, <1>2, <1>3 DEF AppInv

LEMMA ReadKeeps == ASSUME AppInv, NEW c \in Calls, Read(c) PROVE AppInv'
<1>1. PICK k : k = call[c]
  OBVIOUS
<1>2. /\ k # Idle /\ Head(k.todo) \in {"fresh", "find", "metadata", "refresh"} /\ Returns(c)
      /\ UNCHANGED <<begun, providers, applications, sources, agents, keyFresh, trail,
                     limitsWritten, barred>>
  BY <1>1 DEF Read, At, Returns, Engine
<1>3. Grows
  BY <1>2 DEF Grows
<1>4. PICK x : Moves(c, k, x)
  <2>1. Did(k, Head(k.todo))'
    BY <1>2 DEF Did
  <2> QED
    BY <1>1, <1>2, <2>1, Ready, ReturnMoves
<1>5. ObjectTypes'
  BY <1>2, <1>4 DEF Moves, AppInv, ObjectTypes
<1> QED
  BY <1>1, <1>2, <1>3, <1>4, <1>5, PlainStep DEF MakesProvider

LEMMA FailKeeps == ASSUME AppInv, NEW c \in Calls, Fail(c) PROVE AppInv'
<1>1. PICK k : k = call[c]
  OBVIOUS
<1>2. /\ k # Idle /\ Moves(c, k, Idle)
      /\ UNCHANGED <<begun, providers, applications, sources, agents, keyFresh, trail,
                     limitsWritten, barred>>
  BY <1>1 DEF Fail, Engine, Moves
<1>3. Grows
  BY <1>2 DEF Grows
<1>4. ObjectTypes'
  BY <1>2 DEF Moves, AppInv, ObjectTypes
<1> QED
  BY <1>1, <1>2, <1>3, <1>4, PlainStep DEF MakesProvider

LEMMA SourceKeeps == ASSUME AppInv, NEW c \in Calls, MakeSource(c) PROVE AppInv'
<1>1. PICK k : k = call[c]
  OBVIOUS
<1>2. /\ k # Idle /\ Head(k.todo) = "source" /\ Returns(c)
      /\ sources' = sources \union {k.slug}
      /\ UNCHANGED <<begun, providers, applications, agents, keyFresh, trail,
                     limitsWritten, barred>>
  BY <1>1 DEF MakeSource, At
<1>3. Grows
  BY <1>2 DEF Grows
<1>4. CallShape(k) /\ k.slug \in Slugs
  BY <1>1, <1>2, Ready
<1>5. PICK x : Moves(c, k, x)
  <2>1. Did(k, Head(k.todo))'
    BY <1>2 DEF Did
  <2> QED
    BY <1>1, <1>2, <1>4, <2>1, ReturnMoves
<1>6. ObjectTypes'
  BY <1>2, <1>4, <1>5 DEF Moves, AppInv, ObjectTypes
<1> QED
  BY <1>1, <1>2, <1>3, <1>5, <1>6, PlainStep DEF MakesProvider

LEMMA UserKeeps == ASSUME AppInv, NEW c \in Calls, MakeUser(c) PROVE AppInv'
<1>1. PICK k : k = call[c]
  OBVIOUS
<1> DEFINE new == [kind |-> "agent", state |-> "ACTIVE", active |-> TRUE, limited |-> FALSE]
<1>2. /\ k # Idle /\ Head(k.todo) = "user" /\ Returns(c)
      /\ agents' = [agents EXCEPT ![k.of] = new]
      /\ UNCHANGED <<begun, providers, applications, sources, keyFresh, trail,
                     limitsWritten, barred>>
  BY <1>1 DEF MakeUser, At
<1>3. new \in Agent /\ new # None
  <2>1. new \in Agent
    BY DEF Agent
  <2> QED
    BY <2>1, NoAgentAssumption, Zenon
<1> HIDE DEF new
<1>4. CallShape(k) /\ k.of \in Agents
  BY <1>1, <1>2, Ready
<1>5. /\ agents' \in [Agents -> Agent \union {None}] /\ agents'[k.of] # None
      /\ \A a \in Agents : agents[a] # None => agents'[a] # None
  BY <1>2, <1>3, <1>4 DEF AppInv, ObjectTypes
<1>6. Grows
  BY <1>2, <1>5 DEF Grows
<1>7. PICK x : Moves(c, k, x)
  <2>1. Did(k, Head(k.todo))'
    BY <1>2, <1>4, <1>5 DEF Did
  <2> QED
    BY <1>1, <1>2, <1>4, <2>1, ReturnMoves
<1>8. ObjectTypes'
  BY <1>2, <1>5, <1>7 DEF Moves, AppInv, ObjectTypes
<1> QED
  BY <1>1, <1>2, <1>6, <1>7, <1>8, PlainStep DEF MakesProvider

LEMMA LimitsKeep == ASSUME AppInv, NEW c \in Calls, WriteLimits(c) PROVE AppInv'
<1>1. PICK k : k = call[c]
  OBVIOUS
<1> DEFINE new == Limited(agents[k.of])
<1>2. /\ k # Idle /\ Head(k.todo) = "limits" /\ Returns(c)
      /\ agents' = [agents EXCEPT ![k.of] = new]
      /\ limitsWritten' = limitsWritten \union {k.of}
      /\ UNCHANGED <<begun, providers, applications, sources, keyFresh, trail, barred>>
  BY <1>1 DEF WriteLimits, At
<1>3. CallShape(k) /\ k.of \in Agents /\ agents[k.of] # None
  BY <1>1, <1>2, Ready
<1>4. new \in Agent /\ new # None
  <2>1. agents[k.of] \in Agent
    BY <1>3 DEF AppInv, ObjectTypes
  <2>2. agents[k.of].active \in BOOLEAN
    BY <2>1 DEF Agent
  <2>3. new \in Agent
    BY <2>2 DEF Limited, Agent
  <2> QED
    BY <2>3, NoAgentAssumption
<1> HIDE DEF new
<1>5. /\ agents' \in [Agents -> Agent \union {None}]
      /\ \A a \in Agents : agents[a] # None => agents'[a] # None
  BY <1>2, <1>3, <1>4 DEF AppInv, ObjectTypes
<1>6. Grows
  BY <1>2, <1>5 DEF Grows
<1>7. PICK x : Moves(c, k, x)
  <2>1. Did(k, Head(k.todo))'
    BY <1>2 DEF Did
  <2> QED
    BY <1>1, <1>2, <1>3, <2>1, ReturnMoves
<1>8. ObjectTypes'
  BY <1>2, <1>3, <1>5, <1>7 DEF Moves, AppInv, ObjectTypes
<1> QED
  BY <1>1, <1>2, <1>6, <1>7, <1>8, PlainStep DEF MakesProvider

LEMMA RecordKeeps == ASSUME AppInv, NEW c \in Calls, Record(c) PROVE AppInv'
<1>1. PICK k : k = call[c]
  OBVIOUS
<1> DEFINE event == IF Head(k.todo) = "recordUser" THEN <<"identity", k.of>>
                    ELSE <<IF k.op = "source" THEN "source" ELSE "application", k.slug>>
<1>2. /\ k # Idle /\ Head(k.todo) \in {"record", "recordUser"} /\ Returns(c)
      /\ trail' = trail \union {event}
      /\ UNCHANGED <<begun, providers, applications, sources, agents, keyFresh,
                     limitsWritten, barred>>
  BY <1>1 DEF Record, At, Engine
<1>3. Grows
  BY <1>2 DEF Grows
<1>4. /\ CallShape(k) /\ k.slug \in Slugs
      /\ Head(k.todo) = "recordUser" => k.of \in Agents /\ agents[k.of] # None
      /\ Head(k.todo) = "record" =>
           IF k.op = "source" THEN k.slug \in sources ELSE applications[k.slug] # None
  BY <1>1, <1>2, Ready
<1>5. PICK x : Moves(c, k, x)
  <2>1. Did(k, Head(k.todo))'
    BY <1>2 DEF Did
  <2> QED
    BY <1>1, <1>2, <1>4, <2>1, ReturnMoves
<1>6. event \in ({"application", "source"} \X Slugs) \union ({"identity"} \X Agents)
  BY <1>2, <1>4
<1>7. ObjectTypes'
  <2> HIDE DEF event
  <2> QED
    BY <1>2, <1>5, <1>6 DEF Moves, AppInv, ObjectTypes
<1>8. TrailIsTrue'
  <2>1. (CASE event[1] = "application" -> applications[event[2]] # None
           [] event[1] = "source"      -> event[2] \in sources
           [] OTHER                    -> agents[event[2]] # None)
    BY <1>2, <1>4
  <2> HIDE DEF event
  <2> QED
    BY <1>2, <2>1 DEF AppInv, TrailIsTrue
<1>9. CallsShaped' /\ CallsProgress' /\ AnsweredWhole'
  BY <1>1, <1>2, <1>3, <1>5, MovesKeep
<1>10. ApplicationsBacked' /\ ClientAfterLimits' /\ Spared(c)
  BY <1>2, <1>3, ApplicationsKeep
<1>11. CallsOwn' /\ CallsApart'
  <2>1. ~MakesProvider(k)
    BY <1>2 DEF MakesProvider
  <2>2. providers' = providers
    BY <1>2
  <2>3. k # Idle
    BY <1>2
  <2> QED
    BY <1>1, <1>5, <1>10, <2>1, <2>2, <2>3, HoldersKeep
<1> QED
  BY <1>7, <1>8, <1>9, <1>10, <1>11 DEF AppInv

\* A provider is given to the application of a slug.
Given(k, s) ==
  /\ s \in Slugs /\ applications[s] = None
  /\ applications' = [applications EXCEPT ![s] = k.provider]
  /\ s[2] = "-scim" => providers[k.provider] = "scim"
  /\ s[2] = "-saml" => providers[k.provider] = "saml"
  /\ s[2] = "hermes" => providers[k.provider] = "oidc" /\ s[1] \in limitsWritten

LEMMA GivenKeeps ==
  ASSUME AppInv, NEW c \in Calls, NEW k, k = call[c], Holds(k), NEW s, Given(k, s),
         UNCHANGED <<providers, sources, agents, trail, limitsWritten>>
  PROVE  /\ Grows /\ Spared(c) /\ applications'[s] # None
         /\ applications' \in [Slugs -> (1 .. MaxProviders) \union {None}]
         /\ ApplicationsBacked' /\ ClientAfterLimits' /\ TrailIsTrue'
<1>1. Own(k)
  BY DEF AppInv, CallsOwn
<1>2. k.provider \in 1 .. MaxProviders /\ k.provider # None /\ k.provider \in DOMAIN providers
  <2>1. k.provider \in DOMAIN providers
    BY <1>1 DEF Own
  <2>2. DOMAIN providers = 1 .. Len(providers) /\ Len(providers) \in 0 .. MaxProviders
    BY DEF AppInv, ObjectTypes
  <2> QED
    BY <2>1, <2>2, ApplicationsAssumption
<1>3. /\ applications' \in [Slugs -> (1 .. MaxProviders) \union {None}]
      /\ applications'[s] = k.provider
      /\ \A t \in Slugs \ {s} : applications'[t] = applications[t]
  BY <1>2 DEF Given, AppInv, ObjectTypes
<1>4. Grows
  BY <1>2, <1>3 DEF Grows
<1>5. Spared(c)
  <2> SUFFICES ASSUME NEW d \in Calls \ {c}, NEW l, l = call[d], Holds(l), NEW t \in Slugs
               PROVE  applications'[t] # l.provider
    BY DEF Spared
  <2>1. l.provider # k.provider /\ Own(l)
    BY DEF AppInv, CallsApart, CallsOwn
  <2> QED
    BY <1>3, <2>1 DEF Own
<1>6. ApplicationsBacked'
  <2> SUFFICES ASSUME NEW t \in Slugs, applications'[t] # None
      PROVE /\ applications'[t] \in DOMAIN providers
            /\ t[2] = "-scim" => providers[applications'[t]] = "scim"
            /\ t[2] = "-saml" => providers[applications'[t]] = "saml"
            /\ t[2] = "hermes" => providers[applications'[t]] = "oidc"
            /\ \A u \in Slugs \ {t} : applications'[u] # applications'[t]
    BY DEF ApplicationsBacked
  <2>1. \A u \in Slugs : applications[u] # k.provider
    BY <1>1 DEF Own
  <2>2. CASE t = s
    BY <1>2, <1>3, <2>1, <2>2 DEF Given
  <2>3. CASE t # s
    <3>1. applications'[t] = applications[t] /\ applications[t] # None
      BY <1>3, <2>3
    <3>2. /\ applications[t] \in DOMAIN providers
          /\ t[2] = "-scim" => providers[applications[t]] = "scim"
          /\ t[2] = "-saml" => providers[applications[t]] = "saml"
          /\ t[2] = "hermes" => providers[applications[t]] = "oidc"
          /\ \A u \in Slugs \ {t} : applications[u] # applications[t]
      BY <3>1 DEF AppInv, ApplicationsBacked
    <3>3. \A u \in Slugs \ {t} : applications'[u] # applications[t]
      BY <1>3, <2>1, <3>2
    <3> QED
      BY <3>1, <3>2, <3>3
  <2> QED
    BY <2>2, <2>3
<1>7. ClientAfterLimits'
  <2> SUFFICES ASSUME NEW a \in Agents, applications'[<<a, "hermes">>] # None
               PROVE  a \in limitsWritten
    BY DEF ClientAfterLimits
  <2>1. <<a, "hermes">> \in Slugs
    BY DEF Slugs, SlugEndings
  <2>2. CASE <<a, "hermes">> = s
    BY <2>2 DEF Given
  <2>3. CASE <<a, "hermes">> # s
    BY <1>3, <2>1, <2>3 DEF AppInv, ClientAfterLimits
  <2> QED
    BY <2>2, <2>3
<1>8. TrailIsTrue'
  BY <1>4, TrailKeeps
<1> QED
  BY <1>2, <1>3, <1>4, <1>5, <1>6, <1>7, <1>8

LEMMA ApplicationKeeps == ASSUME AppInv, NEW c \in Calls, MakeApplication(c) PROVE AppInv'
<1>1. PICK k : k = call[c]
  OBVIOUS
<1>2. /\ k # Idle /\ Head(k.todo) = "application" /\ Returns(c)
      /\ applications[k.slug] = None
      /\ applications' = [applications EXCEPT ![k.slug] = k.provider]
      /\ UNCHANGED <<begun, providers, sources, agents, keyFresh, trail, limitsWritten, barred>>
  BY <1>1 DEF MakeApplication, At, ProviderOf
<1>3. Holds(k) /\ ~MakesProvider(k)
  BY <1>2 DEF Holds, MakesProvider
<1>4. /\ CallShape(k) /\ Addressed(k) /\ k.slug \in Slugs
      /\ k.op \in {"application", "catalogue", "hermes"}
      /\ k.op = "hermes" => k.of \in limitsWritten
      /\ Own(k)
  BY <1>1, <1>2, <1>3, Ready
<1>5. Given(k, k.slug)
  <2>1. providers[k.provider] = k.protocol
    BY <1>2, <1>4 DEF Own
  <2>2. /\ k.slug[2] # "-scim" /\ (k.slug[2] = "-saml" => k.protocol = "saml")
        /\ k.slug[2] = "hermes" => k.protocol = "oidc" /\ k.slug[1] \in limitsWritten
    BY <1>4 DEF Addressed
  <2> QED
    BY <1>2, <1>4, <2>1, <2>2 DEF Given
<1>6. /\ Grows /\ Spared(c) /\ applications'[k.slug] # None
      /\ applications' \in [Slugs -> (1 .. MaxProviders) \union {None}]
      /\ ApplicationsBacked' /\ ClientAfterLimits' /\ TrailIsTrue'
  <2>1. UNCHANGED <<providers, sources, agents, trail, limitsWritten>>
    BY <1>2
  <2> QED
    BY <1>1, <1>3, <1>5, <2>1, GivenKeeps
<1>7. PICK x : Moves(c, k, x)
  <2>1. Did(k, Head(k.todo))'
    BY <1>2, <1>6 DEF Did
  <2> QED
    BY <1>1, <1>2, <1>4, <2>1, ReturnMoves
<1>8. CallsShaped' /\ CallsProgress' /\ AnsweredWhole'
  BY <1>1, <1>2, <1>6, <1>7, MovesKeep
<1>9. CallsOwn' /\ CallsApart'
  <2>1. providers' = providers /\ k # Idle
    BY <1>2
  <2> QED
    BY <1>1, <1>3, <1>6, <1>7, <2>1, HoldersKeep
<1>10. ObjectTypes'
  BY <1>2, <1>6, <1>7 DEF Moves, AppInv, ObjectTypes
<1> QED
  BY <1>6, <1>8, <1>9, <1>10 DEF AppInv

LEMMA ScimApplicationKeeps ==
  ASSUME AppInv, NEW c \in Calls, MakeScimApplication(c) PROVE AppInv'
<1>1. PICK k : k = call[c]
  OBVIOUS
<1> DEFINE s == <<k.of, "-scim">>
<1>2. /\ k # Idle /\ Head(k.todo) = "scimApplication" /\ Returns(c)
      /\ \/ /\ applications[s] = None
            /\ applications' = [applications EXCEPT ![s] = k.provider]
         \/ applications' = applications
      /\ UNCHANGED <<begun, providers, sources, agents, keyFresh, trail, limitsWritten, barred>>
  BY <1>1 DEF MakeScimApplication, At, ProviderOf, Returns
<1>3. Holds(k) /\ ~MakesProvider(k)
  BY <1>2 DEF Holds, MakesProvider
<1>4. CallShape(k) /\ k \in CallRecord /\ Own(k)
  BY <1>1, <1>2, <1>3, Ready
<1>5. PICK x : Moves(c, k, x)
  <2>1. Did(k, Head(k.todo))'
    BY <1>2 DEF Did
  <2> QED
    BY <1>1, <1>2, <1>4, <2>1, ReturnMoves
<1>6. CASE applications' = applications
  <2>1. Grows
    BY <1>2, <1>6 DEF Grows
  <2>2. ObjectTypes'
    BY <1>2, <1>5, <1>6 DEF Moves, AppInv, ObjectTypes
  <2> QED
    BY <1>1, <1>2, <1>3, <1>5, <1>6, <2>1, <2>2, PlainStep
<1>7. CASE applications[s] = None /\ applications' = [applications EXCEPT ![s] = k.provider]
  <2>1. Given(k, s)
    <3>1. providers[k.provider] = "scim"
      BY <1>2, <1>4 DEF Own
    <3>2. s \in Slugs
      BY <1>4 DEF CallRecord, Slugs, SlugEndings
    <3> QED
      BY <1>7, <3>1, <3>2 DEF Given
  <2> HIDE DEF s
  <2>2. /\ Grows /\ Spared(c)
        /\ applications' \in [Slugs -> (1 .. MaxProviders) \union {None}]
        /\ ApplicationsBacked' /\ ClientAfterLimits' /\ TrailIsTrue'
    <3>1. UNCHANGED <<providers, sources, agents, trail, limitsWritten>>
      BY <1>2
    <3> QED
      BY <1>1, <1>3, <2>1, <3>1, GivenKeeps
  <2>3. CallsShaped' /\ CallsProgress' /\ AnsweredWhole'
    BY <1>1, <1>2, <1>5, <2>2, MovesKeep
  <2>4. CallsOwn' /\ CallsApart'
    <3>1. providers' = providers /\ k # Idle
      BY <1>2
    <3> QED
      BY <1>1, <1>3, <1>5, <2>2, <3>1, HoldersKeep
  <2>5. ObjectTypes'
    BY <1>2, <1>5, <2>2 DEF Moves, AppInv, ObjectTypes
  <2> QED
    BY <2>2, <2>3, <2>4, <2>5 DEF AppInv
<1> QED
  BY <1>2, <1>6, <1>7

LEMMA ProviderKeeps == ASSUME AppInv, NEW c \in Calls, MakeProvider(c) PROVE AppInv'
<1> USE ApplicationsAssumption
<1>1. PICK k : k = call[c]
  OBVIOUS
<1> DEFINE n == Len(providers)
           kind == IF Head(k.todo) = "provider" THEN k.protocol ELSE "scim"
           next == [k EXCEPT !.todo = Tail(k.todo), !.provider = n + 1]
<1>2. /\ k # Idle /\ Head(k.todo) \in {"provider", "scimProvider"}
      /\ n < MaxProviders /\ providers' = Append(providers, kind)
      /\ \/ Len(k.todo) > 1 /\ call' = [call EXCEPT ![c] = next]
         \/ call' = [call EXCEPT ![c] = Idle]
      /\ UNCHANGED <<begun, applications, sources, agents, keyFresh, trail, answered,
                     limitsWritten, barred>>
  BY <1>1 DEF MakeProvider, At
<1>3. /\ CallShape(k) /\ k \in CallRecord
      /\ Head(k.todo) = "provider" => k.protocol \in {"oidc", "saml"}
  BY <1>1, <1>2, Ready
<1>4. providers \in Seq({"oidc", "saml", "scim"}) /\ kind \in {"oidc", "saml", "scim"}
  BY <1>3 DEF AppInv, ObjectTypes
<1> HIDE DEF kind
<1>5. n \in Nat /\ n + 1 \in 1 .. MaxProviders /\ n + 1 # None
  BY <1>2, <1>4
<1>6. /\ providers' \in Seq({"oidc", "saml", "scim"}) /\ Len(providers') = n + 1
      /\ DOMAIN providers' = 1 .. n + 1 /\ DOMAIN providers = 1 .. n
      /\ \A p \in 1 .. n : providers'[p] = providers[p]
      /\ providers'[n + 1] = kind
  BY <1>2, <1>4
<1>7. \A p \in DOMAIN providers : p \in DOMAIN providers' /\ providers'[p] = providers[p] /\ p # n + 1
  BY <1>5, <1>6
<1>8. Grows
  <2>1. ToSet(providers) \subseteq ToSet(providers)'
    BY <1>7 DEF ToSet
  <2> QED
    BY <1>2, <2>1 DEF Grows
<1>9. PICK x : /\ Moves(c, k, x) /\ (x = Idle \/ (Advanced(k, x) /\ x.provider = n + 1))
  <2>1. Did(k, Head(k.todo))'
    <3>1. Head(k.todo) = "scimProvider" => "scim" \in ToSet(providers)'
      <4>1. n + 1 \in DOMAIN providers'
        BY <1>5, <1>6
      <4> QED
        BY <1>6, <4>1 DEF ToSet, kind
    <3> QED
      BY <1>2, <3>1 DEF Did
  <2>2. CASE Len(k.todo) > 1 /\ call' = [call EXCEPT ![c] = next]
    <3>1. Tail(k.todo) \in Seq(Req)
      <4>1. k.todo \in Seq(Req) /\ k.todo # << >>
        BY <1>3, AtHead DEF CallShape, CallRecord, Ending
      <4> QED
        BY <4>1
    <3>2. Len(k.todo) # 1
      <4>1. Len(k.todo) > 1
        BY <2>2
      <4>2. k.todo \in Seq(Req)
        BY <1>3 DEF CallRecord
      <4>3. Len(k.todo) \in Nat
        BY <4>2
      <4>4. ASSUME NEW m \in Nat, m > 1 PROVE m # 1
        BY <4>4
      <4> QED
        BY <4>1, <4>3, <4>4
    <3>3. Advanced(k, next) /\ next.provider = n + 1
      BY <1>3, <1>5, <3>1, <3>2 DEF Advanced, CallRecord
    <3> HIDE DEF next
    <3> QED
      BY <1>2, <2>1, <2>2, <3>3 DEF Moves
  <2>3. CASE call' = [call EXCEPT ![c] = Idle]
    BY <1>2, <2>3 DEF Moves
  <2> QED
    BY <1>2, <2>2, <2>3
<1>10. CallsShaped' /\ CallsProgress' /\ AnsweredWhole'
  BY <1>1, <1>2, <1>8, <1>9, MovesKeep
<1>11. \A t \in Slugs : applications[t] # n + 1
  BY <1>5, <1>7 DEF AppInv, ApplicationsBacked
<1>12. ASSUME NEW d \in Calls, NEW l, l = call'[d], Holds(l)
       PROVE  \/ d = c /\ l = x /\ x # Idle
              \/ d # c /\ l = call[d]
  BY <1>9, <1>12 DEF Moves, Holds, AppInv, ObjectTypes
<1>13. ASSUME Holds(x) PROVE Own(x)' /\ x.provider = n + 1
  <2>1. Advanced(k, x) /\ x.provider = n + 1
    BY <1>9, <1>13 DEF Holds
  <2>2. kind = IF Head(x.todo) = "application" THEN x.protocol ELSE "scim"
    <3>1. /\ Head(x.todo) = "application" => Head(k.todo) = "provider"
          /\ Head(x.todo) = "scimApplication" => Head(k.todo) = "scimProvider"
      BY <1>3, <2>1, NextHead
    <3>2. x.protocol = k.protocol
      BY <2>1 DEF Advanced
    <3> QED
      BY <1>13, <3>1, <3>2 DEF Holds, kind
  <2>3. n + 1 \in DOMAIN providers'
    BY <1>5, <1>6
  <2> QED
    BY <1>2, <1>6, <1>11, <2>1, <2>2, <2>3 DEF Own
<1>14. ASSUME NEW d \in Calls \ {c}, NEW l, l = call[d], Holds(l)
       PROVE  Own(l)' /\ l.provider # n + 1
  <2>1. Own(l)
    BY <1>14 DEF AppInv, CallsOwn
  <2> QED
    BY <1>2, <1>7, <2>1 DEF Own
<1>15. CallsOwn'
  <2>1. ASSUME NEW d \in Calls, NEW l, l = call'[d], Holds(l) PROVE Own(l)'
    BY <1>12, <1>13, <1>14, <2>1
  <2> QED
    BY <2>1 DEF CallsOwn
<1>16. CallsApart'
  <2>1. ASSUME NEW d \in Calls, NEW e \in Calls, NEW l, NEW m, l = call'[d], m = call'[e],
               d # e, Holds(l), Holds(m)
        PROVE  l.provider # m.provider
    <3>1. CASE d = c
      <4>1. l.provider = n + 1
        BY <1>12, <1>13, <2>1, <3>1
      <4>2. m.provider # n + 1
        BY <1>12, <1>14, <2>1, <3>1
      <4> QED
        BY <4>1, <4>2
    <3>2. CASE e = c
      <4>1. m.provider = n + 1
        BY <1>12, <1>13, <2>1, <3>2
      <4>2. l.provider # n + 1
        BY <1>12, <1>14, <2>1, <3>2
      <4> QED
        BY <4>1, <4>2
    <3>3. CASE d # c /\ e # c
      <4>1. l = call[d] /\ m = call[e]
        BY <1>12, <2>1, <3>3
      <4> QED
        BY <2>1, <4>1 DEF AppInv, CallsApart
    <3> QED
      BY <3>1, <3>2, <3>3
  <2> QED
    BY <2>1 DEF CallsApart
<1>17. ApplicationsBacked'
  BY <1>2, <1>7 DEF AppInv, ApplicationsBacked
<1>18. TrailIsTrue' /\ ClientAfterLimits'
  BY <1>2, <1>8, TrailKeeps DEF AppInv, ClientAfterLimits
<1>19. ObjectTypes'
  <2>1. Len(providers') <= MaxProviders
    BY <1>5, <1>6
  <2>2. call' = [d \in Calls |-> call'[d]]
    BY <1>9 DEF Moves, AppInv, ObjectTypes
  <2>3. providers' \in Seq({"oidc", "saml", "scim"})
    BY <1>6
  <2> QED
    BY <1>2, <2>1, <2>2, <2>3 DEF AppInv, ObjectTypes
<1> QED
  BY <1>10, <1>15, <1>16, <1>17, <1>18, <1>19 DEF AppInv

\* A step that is no call's.
LEMMA OutsideStep ==
  ASSUME AppInv, Grows, ObjectTypes',
         UNCHANGED <<call, answered, providers, applications, trail>>
  PROVE  AppInv'
<1>1. CallsShaped' /\ CallsApart'
  BY DEF AppInv, CallsShaped, CallsApart
<1>2. CallsProgress'
  <2>1. ASSUME NEW d \in Calls, NEW l, l = call[d], l # Idle PROVE Progress(l)'
    BY <2>1, ProgressStays DEF AppInv, CallsShaped, CallsProgress
  <2> QED
    BY <2>1 DEF CallsProgress
<1>3. CallsOwn'
  BY DEF AppInv, CallsOwn, Own
<1>4. AnsweredWhole'
  <2>1. ASSUME NEW a, a = answered, a # None PROVE a \in AnswerRecord /\ Whole(a)'
    BY <2>1, WholeStays DEF AppInv, AnsweredWhole
  <2> QED
    BY <2>1 DEF AnsweredWhole
<1>5. TrailIsTrue' /\ ApplicationsBacked' /\ ClientAfterLimits'
  BY TrailKeeps, ApplicationsKeep
<1> QED
  BY <1>1, <1>2, <1>3, <1>4, <1>5 DEF AppInv

LEMMA SuspendKeeps == ASSUME AppInv, NEW a \in Agents, SuspendAgent(a) PROVE AppInv'
<1> DEFINE new == [kind |-> KindOfNone, state |-> "SUSPENDED", active |-> FALSE, limited |-> FALSE]
<1>1. /\ agents' = [agents EXCEPT ![a] = new] /\ barred' = barred \union {a}
      /\ UNCHANGED <<call, begun, providers, applications, sources, keyFresh, trail, answered,
                     limitsWritten>>
  BY DEF SuspendAgent
<1>2. new \in Agent /\ new # None
  <2>1. new \in Agent
    BY DEF Agent, KindOfNone
  <2> QED
    BY <2>1, NoAgentAssumption, Zenon
<1> HIDE DEF new
<1>3. Grows
  BY <1>1, <1>2 DEF Grows, AppInv, ObjectTypes
<1>4. ObjectTypes'
  BY <1>1, <1>2 DEF AppInv, ObjectTypes
<1> QED
  BY <1>1, <1>3, <1>4, OutsideStep

LEMMA AppStart == Init => AppInv
<1> SUFFICES ASSUME Init PROVE AppInv
  OBVIOUS
<1>1. ObjectTypes
  BY ApplicationsAssumption DEF Init, AppInit, ObjectTypes
<1>2. CallsShaped /\ CallsProgress /\ CallsOwn /\ CallsApart
  BY DEF Init, AppInit, CallsShaped, CallsProgress, CallsOwn, CallsApart, Holds
<1>3. AnsweredWhole /\ TrailIsTrue
  BY DEF Init, AppInit, AnsweredWhole, TrailIsTrue
<1>4. ApplicationsBacked
  BY DEF Init, AppInit, ApplicationsBacked
<1>5. ClientAfterLimits
  BY DEF Init, AppInit, ClientAfterLimits, Slugs, SlugEndings
<1> QED
  BY <1>1, <1>2, <1>3, <1>4, <1>5 DEF AppInv

LEMMA AppStep == AppInv /\ [Next]_vars => AppInv'
<1> SUFFICES ASSUME AppInv, [Next]_vars PROVE AppInv'
  OBVIOUS
<1>1. CASE UNCHANGED appVars
  <2>1. Grows
    BY <1>1 DEF Grows, appVars
  <2>2. ObjectTypes'
    BY <1>1 DEF AppInv, ObjectTypes, appVars
  <2> QED
    BY <1>1, <2>1, <2>2, OutsideStep DEF appVars
<1>2. ASSUME NEW c \in Calls, Continue(c) PROVE AppInv'
  BY <1>2, ReadKeeps, ProviderKeeps, ApplicationKeeps, ScimApplicationKeeps, SourceKeeps,
     UserKeeps, LimitsKeep, RecordKeeps, FailKeeps DEF Continue
<1>3. CASE KeyExpires
  <2>1. Grows
    BY <1>3 DEF KeyExpires, Engine, Grows
  <2>2. ObjectTypes'
    BY <1>3 DEF KeyExpires, Engine, AppInv, ObjectTypes
  <2> QED
    BY <1>3, <2>1, <2>2, OutsideStep DEF KeyExpires, Engine
<1>4. CASE AppNext
  BY <1>2, <1>3, <1>4, StartsKeep, SuspendKeeps DEF AppNext
<1> QED
  BY <1>1, <1>4 DEF Next, vars

LEMMA AppInvariant == Spec => []AppInv
BY AppStart, AppStep, PTL DEF Spec


----------------------------------------------------------------------------
(* The theorems.                                                           *)

\* An assertion verifies until the console restarts, unless another handler was
\* generating a key for its issuer while it was made (ensureFederationKey): one that
\* issues later never spoils it, however many do.
THEOREM OnlyRivalsSpoil == Spec => []AssertionsVerify
<1>1. FedInv => AssertionsVerify
  BY DEF FedInv, TokensAlone, AssertionsVerify
<1> QED
  BY <1>1, FederationInvariant, PTL

\* An agent that was suspended is never active again, whichever limits are written
\* late (createHermesAgent, suspendUser).
THEOREM SuspendedAgentsStayOut == Spec => []BarredStaysBarred
<1>1. BarredInv => BarredStaysBarred
  BY DEF BarredInv, BarredStaysBarred
<1> QED
  BY <1>1, BarredInvariant, PTL

\* A sequence with at most n elements is one of those TypeOK names.
LEMMA Bounded ==
  ASSUME NEW S, NEW s \in Seq(S), NEW n \in Nat, Len(s) <= n
  PROVE  s \in BoundedSeq(S, n)
<1>1. s \in [1 .. Len(s) -> S] /\ Len(s) \in 0 .. n
  OBVIOUS
<1> QED
  BY <1>1 DEF BoundedSeq, SeqOf

LEMMA RequestsSpelled == Req \subseteq Requests
<1>1. /\ "fresh" = Oidc[1] /\ "find" = Oidc[2] /\ "provider" = Oidc[3]
      /\ "application" = Oidc[4] /\ "record" = Oidc[5] /\ DOMAIN Oidc = 1 .. 5
  BY DEF Oidc
<1>2. "metadata" = Saml[5] /\ DOMAIN Saml = 1 .. 6
  BY DEF Saml
<1>3. "scimProvider" = Scim[1] /\ "scimApplication" = Scim[2] /\ DOMAIN Scim = 1 .. 2
  BY DEF Scim
<1>4. "source" = Source[2] /\ DOMAIN Source = 1 .. 3
  BY DEF Source
<1>5. /\ "user" = Agentic[1] /\ "recordUser" = Agentic[2] /\ "limits" = Agentic[3]
      /\ "refresh" = Agentic[9] /\ DOMAIN Agentic = 1 .. 9
  BY DEF Agentic
<1>6. /\ ToSet(Oidc) \subseteq Requests /\ ToSet(Saml) \subseteq Requests
      /\ ToSet(Scim) \subseteq Requests /\ ToSet(Source) \subseteq Requests
      /\ ToSet(Agentic) \subseteq Requests
  BY ListsSpelled DEF Requests
<1>7. {"fresh", "find", "provider", "application", "record"} \subseteq Requests
  BY <1>1, <1>6 DEF ToSet
<1>8. {"metadata", "scimProvider", "scimApplication", "source"} \subseteq Requests
  BY <1>2, <1>3, <1>4, <1>6 DEF ToSet
<1>9. {"user", "recordUser", "limits", "refresh"} \subseteq Requests
  BY <1>5, <1>6 DEF ToSet
<1> QED
  BY <1>7, <1>8, <1>9 DEF Req

\* Every variable keeps its type: a call has requests of its handler left and no other.
THEOREM IntegrationTypes == Spec => []TypeOK
<1>1. AppInv => AppTypeOK
  <2> SUFFICES ASSUME AppInv PROVE AppTypeOK
    OBVIOUS
  <2>1. ASSUME NEW c \in Calls, NEW k, k = call[c], k # Idle
        PROVE  /\ DOMAIN k = {"todo", "op", "protocol", "of", "slug", "provider", "scim"}
               /\ ToSet(k.todo) \subseteq Requests /\ k.slug \in Slugs
               /\ k.provider \in (1 .. MaxProviders) \union {None}
    <3>1. k \in CallRecord
      BY <2>1 DEF AppInv, CallsShaped, CallShape
    <3>2. DOMAIN k = {"todo", "op", "protocol", "of", "slug", "provider", "scim"}
      BY <3>1 DEF CallRecord
    <3>3. k.todo \in Seq(Req)
      BY <3>1 DEF CallRecord
    <3>4. ToSet(k.todo) \subseteq Req
      BY <3>3 DEF ToSet
    <3> QED
      BY <3>1, <3>2, <3>4, RequestsSpelled DEF CallRecord
  <2>2. providers \in BoundedSeq({"oidc", "saml", "scim"}, MaxProviders)
    BY ApplicationsAssumption, Bounded DEF AppInv, ObjectTypes
  <2>3. trail \subseteq {"application", "source", "identity"} \X (Slugs \union Agents)
    BY DEF AppInv, ObjectTypes
  <2> QED
    BY <2>1, <2>2, <2>3 DEF AppTypeOK, AppInv, ObjectTypes
<1>2. FedInv => FedTypeOK
  <2> SUFFICES ASSUME FedInv PROVE FedTypeOK
    OBVIOUS
  <2>1. ASSUME NEW q \in Orgs \X Orgs PROVE trusts[q] \in BoundedSeq(Policies, MaxTrusts)
    BY FederationAssumption, Bounded DEF FedInv, TrustsBounded
  <2> QED
    BY <2>1 DEF FedTypeOK, FedInv, FedTypes
<1> QED
  BY <1>1, <1>2, AppInvariant, FederationInvariant, PTL DEF TypeOK

\* Every application has a provider of its own, of the protocol it was asked with,
\* whatever calls overlap or break off (createApplication, applyCatalogue).
THEOREM ProvidersAreOwn == Spec => []ApplicationsBacked
<1>1. AppInv => ApplicationsBacked
  BY DEF AppInv
<1> QED
  BY <1>1, AppInvariant, PTL

\* A handler that answers with success has made and recorded all it stands for.
THEOREM SuccessIsWhole == Spec => []AnsweredIsWhole
<1>1. AppInv => AnsweredIsWhole
  BY DEF AppInv, AnsweredWhole, Whole, AnsweredIsWhole
<1> QED
  BY <1>1, AppInvariant, PTL

\* What the trail says was created was created (record).
THEOREM TrailTellsTheTruth == Spec => []TrailIsTrue
<1>1. AppInv => TrailIsTrue
  BY DEF AppInv
<1> QED
  BY <1>1, AppInvariant, PTL

\* A Hermes agent has no client before it was limited (createHermesAgent).
THEOREM AgentsAreLimitedFirst == Spec => []ClientAfterLimits
<1>1. AppInv => ClientAfterLimits
  BY DEF AppInv
<1> QED
  BY <1>1, AppInvariant, PTL

=============================================================================
