----------------------------- MODULE Federation -----------------------------
(***************************************************************************)
(* Pairwise federation between organisations: trust policies, the key each *)
(* organisation signs with, assertions issued to a peer and consumed by it *)
(* (packages/federation, and the handlers of packages/control-plane).      *)
(*                                                                         *)
(* Keys and policies are kept in memory; generating a key takes time, and  *)
(* ensureFederationKey stores it after it looked for one before.  The      *)
(* signature is external: a token verifies with the key it was signed by.  *)
(***************************************************************************)
EXTENDS Naturals, FiniteSets, SequencesExt

CONSTANTS
  Orgs,
  Attributes,
  Policies,     \* bounds the [accept, reject] policies that are made
  Issuers,      \* handlers that issue, or ask for the JWKS, at once
  Lifetime,     \* 300 seconds
  MaxTime, MaxKeys, MaxTokens, MaxTrusts,   \* bound clock, keys, assertions, policies
  Nobody

ASSUME FederationAssumption ==
  /\ Policies \subseteq [accept : SUBSET Attributes, reject : SUBSET Attributes]
  /\ Lifetime \in Nat \ {0} /\ {MaxTime, MaxKeys, MaxTokens, MaxTrusts} \subseteq Nat
  /\ Nobody \notin Nat

VARIABLES
  clock,
  keys,       \* the key the store holds for an organisation
  made,       \* how many keys were generated
  issuer,     \* handlers that issue, from ensureFederationKey to their answer
  tokens,     \* assertions that were handed out
  trusts,     \* of each organisation and peer: its policies, oldest first
  consumed    \* history: what was decided last, on which assertion

fedVars == <<clock, keys, made, issuer, tokens, trusts, consumed>>

KeyIds == 1 .. MaxKeys
\* An assertion makes a statement on every attribute: each is judged by itself.
\* alone (history): no other handler generated a key for the issuer while it was
\* made, and the console has not restarted since.
Token == [iss : Orgs, aud : Orgs, key : KeyIds, exp : 0 .. MaxTime + Lifetime, alone : BOOLEAN]
\* A handler that issues, or answers with the JWKS (aud is Nobody then): the key it
\* found, or Nobody while it generates one.
Issuing == [org : Orgs, aud : Orgs \union {Nobody}, key : KeyIds \union {Nobody}, alone : BOOLEAN]
\* The attributes of an assertion that were accepted; the others were rejected.
Decision == [org : Orgs, token : Token, accepted : SUBSET Attributes]

FedTypeOK ==
  /\ clock \in 0 .. MaxTime
  /\ keys \in [Orgs -> KeyIds \union {Nobody}]
  /\ made \in 0 .. MaxKeys
  /\ issuer \in [Issuers -> Issuing \union {Nobody}]
  /\ tokens \subseteq Token
  /\ trusts \in [Orgs \X Orgs -> BoundedSeq(Policies, MaxTrusts)]
  /\ consumed \in Decision \union {Nobody}

FedInit ==
  /\ clock = 0
  /\ keys = [o \in Orgs |-> Nobody] /\ made = 0
  /\ issuer = [i \in Issuers |-> Nobody]
  /\ tokens = {} /\ consumed = Nobody
  /\ trusts = [p \in Orgs \X Orgs |-> << >>]

----------------------------------------------------------------------------
ASSUME NobodyAssumption == Nobody \notin Policies \union Issuing

\* createTrust refuses oneself; "*" and "global" are no organisation here.
CreateTrust(o, peer, policy) ==
  /\ o # peer /\ Len(trusts[<<o, peer>>]) < MaxTrusts
  /\ trusts' = [trusts EXCEPT ![<<o, peer>>] = Append(@, policy)]
  /\ UNCHANGED <<clock, keys, made, issuer, tokens, consumed>>

\* getTrust: the first policy for the peer that was inserted.
GetTrust(o, peer) == IF trusts[<<o, peer>>] = << >> THEN Nobody ELSE Head(trusts[<<o, peer>>])

\* evaluateAssertion: rejection first; an empty accept list accepts anything else.
Accepts(policy, attribute) ==
  /\ policy # Nobody
  /\ attribute \notin policy.reject
  /\ policy.accept = {} \/ attribute \in policy.accept

Generates(i, o) == issuer[i] # Nobody /\ issuer[i].org = o /\ issuer[i].key = Nobody

\* Fault: a key is generated whether there is one or not.
KeyFound_Never(o) == FALSE

KeyFound(o) == keys[o] # Nobody

\* issueFederationAssertion and federationJwks, as far as ensureFederationKey's
\* look for a key.  A key that is found is opened by the vault; without one, this
\* handler generates one beside those that do already.
Issue(i, o, aud) ==
  LET rivals == {j \in Issuers \ {i} : Generates(j, o)}
      key    == IF KeyFound(o) THEN keys[o] ELSE Nobody
  IN /\ issuer[i] = Nobody
     /\ issuer' = [j \in Issuers |->
          IF j = i THEN [org |-> o, aud |-> aud, key |-> key, alone |-> rivals = {}]
          ELSE IF j \in rivals /\ key = Nobody THEN [issuer[j] EXCEPT !.alone = FALSE]
          ELSE issuer[j]]
     /\ UNCHANGED <<clock, keys, made, tokens, trusts, consumed>>

\* The key is generated, sealed and stored over whatever is there.
Generated(i) ==
  LET x == issuer[i]
  IN /\ x # Nobody /\ x.key = Nobody /\ made < MaxKeys
     /\ made' = made + 1
     /\ keys' = [keys EXCEPT ![x.org] = made + 1]
     /\ issuer' = [issuer EXCEPT ![i].key = made + 1]
     /\ UNCHANGED <<clock, tokens, trusts, consumed>>

\* signFederationAssertion with the key at hand, whatever the store holds by now;
\* then record(), and the assertion is handed out.  The JWKS needs no signature.
HandOut(i) ==
  LET x == issuer[i]
  IN /\ x # Nobody /\ x.key # Nobody /\ Cardinality(tokens) < MaxTokens
     /\ tokens' = IF x.aud = Nobody THEN tokens
                  ELSE tokens \union {[iss |-> x.org, aud |-> x.aud, key |-> x.key,
                                       exp |-> clock + Lifetime, alone |-> x.alone]}
     /\ issuer' = [issuer EXCEPT ![i] = Nobody]
     /\ UNCHANGED <<clock, keys, made, trusts, consumed>>

\* The vault or the audit sink throws, and nothing is handed out.
IssueFails(i) ==
  /\ issuer[i] # Nobody
  /\ issuer' = [issuer EXCEPT ![i] = Nobody]
  /\ UNCHANGED <<clock, keys, made, tokens, trusts, consumed>>

\* consumeFederationAssertion: verified against the key the issuer has now, and
\* judged by one policy, both read before the signature is verified.
Consume(o, t) ==
  /\ t.iss # o /\ t.aud = o
  /\ GetTrust(o, t.iss) # Nobody
  /\ keys[t.iss] = t.key /\ clock < t.exp
  /\ consumed' = [org |-> o, token |-> t,
                  accepted |-> {a \in Attributes : Accepts(GetTrust(o, t.iss), a)}]
  /\ UNCHANGED <<clock, keys, made, issuer, tokens, trusts>>

Tick ==
  /\ clock < MaxTime /\ clock' = clock + 1
  /\ UNCHANGED <<keys, made, issuer, tokens, trusts, consumed>>

\* The console restarts: keys and policies are gone, assertions are with the peers.
\* (What was decided before is followed no further.)
Restart ==
  /\ keys' = [o \in Orgs |-> Nobody] /\ issuer' = [i \in Issuers |-> Nobody]
  /\ trusts' = [p \in Orgs \X Orgs |-> << >>] /\ consumed' = Nobody
  /\ tokens' = {[t EXCEPT !.alone = FALSE] : t \in tokens}
  /\ UNCHANGED <<clock, made>>

FedNext ==
  \/ \E o, peer \in Orgs, policy \in Policies : CreateTrust(o, peer, policy)
  \/ \E i \in Issuers, o \in Orgs, aud \in Orgs \union {Nobody} : Issue(i, o, aud)
  \/ \E i \in Issuers : Generated(i) \/ HandOut(i) \/ IssueFails(i)
  \/ \E o \in Orgs, t \in tokens : Consume(o, t)
  \/ Tick \/ Restart

----------------------------------------------------------------------------

\* Handlers that issue one after the other, or at once with a key that is there,
\* hand out assertions that verify from then on: until a restart, only a handler
\* that was generating a key at the same time may spoil one (ensureFederationKey).
AssertionsVerify ==
  \A t \in tokens : t.alone => keys[t.iss] = t.key

=============================================================================
