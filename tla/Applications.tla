---------------------------- MODULE Applications ----------------------------
(***************************************************************************)
(* Applications, catalogue items, federation sources, service identities   *)
(* and Hermes agents: handlers of packages/control-plane that make one     *)
(* object after the other in authentik over HTTP and then record it.       *)
(* authentik has no transaction over two requests, and nothing is undone.  *)
(*                                                                         *)
(* A call is the list of requests it has still to make.  A slug is a name  *)
(* and the suffix the handler puts behind it.                              *)
(***************************************************************************)
EXTENDS Naturals, FiniteSets, SequencesExt

CONSTANTS
  Calls,          \* handlers in flight
  Names, Agents,  \* bound what is created
  MaxProviders,   \* bounds the providers authentik holds
  MaxCalls,       \* bounds the calls that are made
  None

ASSUME ApplicationsAssumption == {MaxProviders, MaxCalls} \subseteq Nat /\ None \notin Nat

VARIABLES
  call,
  begun,         \* how many calls were made
  providers,     \* the protocol of each, in the order they were made
  applications,  \* the provider of the application of each slug
  sources,       \* slugs of federation sources
  agents,        \* service identities and Hermes agents
  keyFresh,      \* whether the signing key of the deployment is 90 days old at most
  trail,         \* audit events: what was recorded, of which slug or agent
  answered,      \* history: the call that was answered with success last
  limitsWritten, barred   \* history: agents whose limits were written, who were suspended

appVars == <<call, begun, providers, applications, sources, agents, keyFresh, trail,
             answered, limitsWritten, barred>>

----------------------------------------------------------------------------
(* What the handlers do, in order.                                         *)

\* Fault: the event is recorded before the objects are made.
Oidc_RecordFirst == <<"fresh", "find", "record", "provider", "application">>

Oidc == <<"fresh", "find", "provider", "application", "record">>
Saml == <<"fresh", "find", "provider", "application", "metadata", "record">>
Scim == <<"scimProvider", "scimApplication">>
Source == <<"find", "source", "record">>
Service == <<"user", "recordUser">>

\* Fault: the client is created before the agent is limited.
Hermes_ClientFirst == Service \o Oidc \o <<"limits", "refresh">>

Hermes == Service \o <<"limits">> \o Oidc \o <<"refresh">>

Requests == UNION {ToSet(s) : s \in {Oidc, Saml, Scim, Source, Hermes}}

SlugEndings == {"", "-saml", "-scim", "hermes"}
Slugs == (Names \union Agents) \X SlugEndings

\* A call in flight: of is the name or the agent it was made with, provider the one
\* it has made last.
Idle == [todo |-> << >>]

\* kind and state as mapUser reads them from the attributes; limited: whether the
\* attributes name the allowed actions and refuse the credentials of the owner.
Agent == [kind : {"agent", "person"}, state : {"ACTIVE", "SUSPENDED"},
          active : BOOLEAN, limited : BOOLEAN]

ASSUME NoAgentAssumption == None \notin Agent

AppTypeOK ==
  /\ begun \in 0 .. MaxCalls
  /\ \A c \in Calls : call[c] = Idle \/
       /\ DOMAIN call[c] = {"todo", "op", "protocol", "of", "slug", "provider", "scim"}
       /\ ToSet(call[c].todo) \subseteq Requests /\ call[c].slug \in Slugs
       /\ call[c].provider \in (1 .. MaxProviders) \union {None}
  /\ providers \in BoundedSeq({"oidc", "saml", "scim"}, MaxProviders)
  /\ applications \in [Slugs -> (1 .. MaxProviders) \union {None}]
  /\ sources \subseteq Slugs
  /\ agents \in [Agents -> Agent \union {None}]
  /\ keyFresh \in BOOLEAN
  /\ trail \subseteq {"application", "source", "identity"} \X (Slugs \union Agents)
  /\ limitsWritten \subseteq Agents /\ barred \subseteq Agents

AppInit ==
  /\ call = [c \in Calls |-> Idle] /\ begun = 0
  /\ providers = << >>
  /\ applications = [s \in Slugs |-> None]
  /\ sources = {}
  /\ agents = [a \in Agents |-> None]
  /\ keyFresh = TRUE
  /\ trail = {} /\ answered = None /\ limitsWritten = {} /\ barred = {}

----------------------------------------------------------------------------
Engine == <<providers, applications, sources, agents>>

Starts(c, op, protocol, of, suffix, scim, todo) ==
  /\ call[c] = Idle /\ begun < MaxCalls /\ begun' = begun + 1
  /\ call' = [call EXCEPT ![c] = [todo |-> todo, op |-> op, protocol |-> protocol, of |-> of,
                                  slug |-> <<of, suffix>>, provider |-> None, scim |-> scim]]
  /\ UNCHANGED <<Engine, keyFresh, trail, answered, limitsWritten, barred>>

CreateApplication(c, name, protocol) ==
  Starts(c, "application", protocol, name, "", FALSE, IF protocol = "oidc" THEN Oidc ELSE Saml)

\* applyCatalogue, when catalogueApplyPlan finds the item and its protocol and the
\* redirect or ACS address is there; it adds SCIM if an address is given for it.
ApplyCatalogue(c, name, protocol, scim) ==
  Starts(c, "catalogue", protocol, name, IF protocol = "saml" THEN "-saml" ELSE "", scim,
         (IF protocol = "oidc" THEN Oidc ELSE Saml) \o IF scim THEN Scim ELSE << >>)

CreateFederationSource(c, name) == Starts(c, "source", "none", name, "", FALSE, Source)

CreateServiceIdentity(c, a) == Starts(c, "service", "none", a, "hermes", FALSE, Service)
CreateHermesAgent(c, a)     == Starts(c, "hermes", "oidc", a, "hermes", FALSE, Hermes)

At(c, request) == call[c] # Idle /\ Head(call[c].todo) = request

\* The answered call leaves the list; a call that was answered all is over.
Answer(c) ==
  IF Len(call[c].todo) = 1
    THEN /\ call' = [call EXCEPT ![c] = Idle]
         /\ answered' = [op |-> call[c].op, of |-> call[c].of, slug |-> call[c].slug, scim |-> call[c].scim]
    ELSE call' = [call EXCEPT ![c].todo = Tail(@)] /\ UNCHANGED answered

\* A request took effect; its answer comes, or is lost and the call ends.
Returns(c) ==
  \/ Answer(c)
  \/ call' = [call EXCEPT ![c] = Idle] /\ UNCHANGED answered

----------------------------------------------------------------------------
\* assertSigningKeyFresh, the reads of locateFlows, scopes and the signing key,
\* the SAML metadata (an empty one will do) and the last read of an agent.
Read(c) ==
  /\ \E request \in {"fresh", "find", "metadata", "refresh"} :
       At(c, request) /\ (request = "fresh" => keyFresh)
  /\ Answer(c)
  /\ UNCHANGED <<begun, Engine, keyFresh, trail, limitsWritten, barred>>

MakeProvider(c) ==
  /\ At(c, "provider") \/ At(c, "scimProvider")
  /\ Len(providers) < MaxProviders
  /\ providers' = Append(providers, IF At(c, "provider") THEN call[c].protocol ELSE "scim")
  /\ \/ /\ Len(call[c].todo) > 1
        /\ call' = [call EXCEPT ![c].todo = Tail(@), ![c].provider = Len(providers) + 1]
     \/ call' = [call EXCEPT ![c] = Idle]
  /\ UNCHANGED <<begun, applications, sources, agents, keyFresh, trail, answered, limitsWritten, barred>>

\* Fault: the provider is looked up again, and the newest of the protocol taken.
ProviderOf_Newest(c) ==
  CHOOSE p \in DOMAIN providers : \A q \in DOMAIN providers : q <= p

\* The pk in the answer to the call's own request.
ProviderOf(c) == call[c].provider

\* Fault: an error is caught, as it is for the application of a SCIM provider.
MakeApplication_Caught(c) ==
  /\ At(c, "application")
  /\ \/ applications[call[c].slug] = None
        /\ applications' = [applications EXCEPT ![call[c].slug] = ProviderOf(c)]
     \/ UNCHANGED applications
  /\ Returns(c)
  /\ UNCHANGED <<begun, providers, sources, agents, keyFresh, trail, limitsWritten, barred>>

\* A slug is given once.
MakeApplication(c) ==
  /\ At(c, "application") /\ applications[call[c].slug] = None
  /\ applications' = [applications EXCEPT ![call[c].slug] = ProviderOf(c)]
  /\ Returns(c)
  /\ UNCHANGED <<begun, providers, sources, agents, keyFresh, trail, limitsWritten, barred>>

\* The application of a SCIM provider: a refusal is swallowed.
MakeScimApplication(c) ==
  LET slug == <<call[c].of, "-scim">>
  IN /\ At(c, "scimApplication")
     /\ \/ applications[slug] = None /\ applications' = [applications EXCEPT ![slug] = ProviderOf(c)]
        \/ UNCHANGED applications
     /\ Answer(c)
     /\ UNCHANGED <<begun, providers, sources, agents, keyFresh, trail, limitsWritten, barred>>

MakeSource(c) ==
  /\ At(c, "source") /\ call[c].slug \notin sources
  /\ sources' = sources \union {call[c].slug}
  /\ Returns(c)
  /\ UNCHANGED <<begun, providers, applications, agents, keyFresh, trail, limitsWritten, barred>>

\* The identity is ACTIVE from the start.
MakeUser(c) ==
  LET a == call[c].of
  IN /\ At(c, "user") /\ agents[a] = None
     /\ agents' = [agents EXCEPT ![a] =
          [kind |-> "agent", state |-> "ACTIVE", active |-> TRUE, limited |-> FALSE]]
     /\ Returns(c)
     /\ UNCHANGED <<begun, providers, applications, sources, keyFresh, trail, limitsWritten, barred>>

\* Fault: the whole user is written back as it was created.
Limited_Whole(old) ==
  [kind |-> "agent", state |-> "ACTIVE", active |-> TRUE, limited |-> TRUE]

\* updateUser PATCHes the attributes the identity was created with, and the limits
\* with them: a state that was written since is overwritten, is_active is not.
Limited(old) ==
  [kind |-> "agent", state |-> "ACTIVE", active |-> old.active, limited |-> TRUE]

WriteLimits(c) ==
  LET a == call[c].of
  IN /\ At(c, "limits")
     /\ agents' = [agents EXCEPT ![a] = Limited(@)]
     /\ limitsWritten' = limitsWritten \union {a}
     /\ Returns(c)
     /\ UNCHANGED <<begun, providers, applications, sources, keyFresh, trail, barred>>

\* Fault: a missing attribute is read as it is.
KindOfNone_Undefined == "undefined"

\* mapUser takes an identity without blakid_kind for a person.
KindOfNone == "person"

\* suspendUser, of an identity that is an agent: attributes are PATCHed as a whole,
\* with the state alone.
SuspendAgent(a) ==
  /\ agents[a] # None /\ agents[a].state = "ACTIVE"
  /\ agents' = [agents EXCEPT ![a] =
       [kind |-> KindOfNone, state |-> "SUSPENDED", active |-> FALSE, limited |-> FALSE]]
  /\ barred' = barred \union {a}
  /\ UNCHANGED <<call, begun, providers, applications, sources, keyFresh, trail, answered, limitsWritten>>

\* record(): the event is stored; a sink that throws ends the call.
Record(c) ==
  /\ At(c, "record") \/ At(c, "recordUser")
  /\ trail' = trail \union
       {IF At(c, "recordUser") THEN <<"identity", call[c].of>>
        ELSE <<IF call[c].op = "source" THEN "source" ELSE "application", call[c].slug>>}
  /\ Returns(c)
  /\ UNCHANGED <<begun, Engine, keyFresh, limitsWritten, barred>>

\* A request that is refused or does not get there, or a key that is too old.
Fail(c) ==
  /\ call[c] # Idle /\ ~At(c, "scimApplication")
  /\ call' = [call EXCEPT ![c] = Idle]
  /\ UNCHANGED <<begun, Engine, keyFresh, trail, answered, limitsWritten, barred>>

\* The key of a deployment is made with it, and nothing makes another.
KeyExpires ==
  /\ keyFresh /\ keyFresh' = FALSE
  /\ UNCHANGED <<call, begun, Engine, trail, answered, limitsWritten, barred>>

Continue(c) ==
  \/ Read(c) \/ MakeProvider(c) \/ MakeApplication(c) \/ MakeScimApplication(c)
  \/ MakeSource(c) \/ MakeUser(c) \/ WriteLimits(c) \/ Record(c) \/ Fail(c)

AppNext ==
  \/ \E c \in Calls, name \in Names, protocol \in {"oidc", "saml"} :
       \/ CreateApplication(c, name, protocol)
       \/ \E scim \in BOOLEAN : ApplyCatalogue(c, name, protocol, scim)
  \/ \E c \in Calls, name \in Names : CreateFederationSource(c, name)
  \/ \E c \in Calls, a \in Agents : CreateServiceIdentity(c, a) \/ CreateHermesAgent(c, a)
  \/ \E c \in Calls : Continue(c)
  \/ \E a \in Agents : SuspendAgent(a)
  \/ KeyExpires

----------------------------------------------------------------------------

\* Every application has a provider of its own, of the protocol it was asked with:
\* calls for one slug overlap, answers get lost, calls are made again.
ApplicationsBacked ==
  \A s \in Slugs : applications[s] # None =>
    /\ applications[s] \in DOMAIN providers
    /\ s[2] = "-scim" => providers[applications[s]] = "scim"
    /\ s[2] = "-saml" => providers[applications[s]] = "saml"
    /\ s[2] = "hermes" => providers[applications[s]] = "oidc"
    /\ \A t \in Slugs \ {s} : applications[t] # applications[s]

\* A call answered with success has made all it stands for, and what it stands for
\* is in the trail: a handler that got half way is never answered as done.  (The
\* application of an outbound SCIM provider may be missing; its provider may not.)
AnsweredIsWhole ==
  answered # None =>
    /\ answered.op \in {"application", "catalogue", "hermes"} =>
         applications[answered.slug] # None /\ <<"application", answered.slug>> \in trail
    /\ answered.scim => "scim" \in ToSet(providers)
    /\ answered.op = "source" => answered.slug \in sources /\ <<"source", answered.slug>> \in trail
    /\ answered.op \in {"service", "hermes"} =>
         agents[answered.of] # None /\ <<"identity", answered.of>> \in trail

\* What the trail says was created was created.
TrailIsTrue ==
  \A e \in trail :
    CASE e[1] = "application" -> applications[e[2]] # None
      [] e[1] = "source"      -> e[2] \in sources
      [] OTHER                -> agents[e[2]] # None

\* A Hermes agent has no client before it was limited, wherever a call for it
\* stops and however often it is made again.
ClientAfterLimits ==
  \A a \in Agents : applications[<<a, "hermes">>] # None => a \in limitsWritten

\* An agent that was suspended cannot sign in, even if it was suspended while its
\* limits were being written, which puts ACTIVE back into its attributes.
BarredStaysBarred == \A a \in barred : ~agents[a].active

=============================================================================
