------------------------------ MODULE Console ------------------------------
(***************************************************************************)
(* The console in front of the control plane: sign-in and the sealed       *)
(* session cookie, the passkey step-up, the rate limiter shared by the     *)
(* routes, proxy.ts, and handle(), which decides whether a request becomes *)
(* an operation.                                                           *)
(*                                                                         *)
(* Time is counted in units of a few minutes.  What an operation does once *)
(* it is let in is the subject of the other modules: here a request only   *)
(* leaves its trace in the rate limiter.                                   *)
(***************************************************************************)
EXTENDS Routes, Integers, FiniteSets

CONSTANTS
  Browsers,
  Actors,
  Directory,     \* the role and the organisation an actor signs in with
  Organisations,
  Keys,          \* bounds the keys of the rate limiter that are followed
  Limit, Window, \* 20 calls in 10 minutes
  SessionLife,   \* 12 hours
  StepUpLife,    \* 10 minutes
  MaxTime        \* bounds the clock

ASSUME ConsoleAssumption ==
  /\ Directory \in [Actors -> [role : Roles, organisationId : Organisations \union {None}]]
  /\ Limit \in Nat \ {0} /\ Window \in Nat \ {0}
  /\ SessionLife \in Nat \ {0} /\ StepUpLife \in Nat \ {0} /\ MaxTime \in Nat
  /\ None \notin Organisations \union Actors \union Nat
  /\ \A a \in Actors : Directory[a].role = Operator => Directory[a].organisationId = None

VARIABLES
  clock,
  cookie,       \* the sealed principal each browser holds
  passkeys,     \* of each actor: whether its registered authenticators count their uses
  challenge,    \* of each actor: the browser and the ceremony asked for last
  hits,         \* of each key of the rate limiter
  promise,      \* when the last refusal said to come back
  verified      \* when an actor last proved possession of a passkey

vars == <<clock, cookie, passkeys, challenge, hits, promise, verified>>

Times == 0 .. MaxTime
Sealed == [actor : Actors, exp : 0 .. MaxTime + SessionLife,
           stepUp : 0 .. MaxTime + StepUpLife]
\* A call that counts: when, and which of that time.
Call == Times \X (0 .. Limit)
\* spare: it was answered by an authenticator that does not count.
Ceremony == [browser : Browsers, kind : {"register", "step-up"}, spare : BOOLEAN]

TypeOK ==
  /\ clock \in Times
  /\ cookie \in [Browsers -> Sealed \union {None}]
  /\ passkeys \in [Actors -> SUBSET BOOLEAN]
  /\ challenge \in [Actors -> Ceremony \union {None}]
  /\ hits \in [Keys -> SUBSET Call] /\ \A k \in Keys : Cardinality(hits[k]) <= Limit
  /\ promise \in [Keys -> 0 .. MaxTime + Window]
  /\ verified \in [Actors -> Times \union {None}]

Init ==
  /\ clock = 0
  /\ cookie = [b \in Browsers |-> None]
  /\ passkeys = [a \in Actors |-> {}]
  /\ challenge = [a \in Actors |-> None]
  /\ hits = [k \in Keys |-> {}]
  /\ promise = [k \in Keys |-> 0]
  /\ verified = [a \in Actors |-> None]

----------------------------------------------------------------------------
(* The rate limiter.                                                       *)

\* Fault: a hit exactly one window old still counts.
Recent_Closed(k) == {h \in hits[k] : h[1] >= clock - Window}

Recent(k) == {h \in hits[k] : h[1] > clock - Window}

\* Fault: one call more than the limit.
Full_Beyond(k) == k \in Keys /\ Cardinality(Recent(k)) > Limit

Full(k) == k \in Keys /\ Cardinality(Recent(k)) >= Limit

Oldest(k)   == Min({h[1] : h \in Recent(k)})
ThisCall(k) == <<clock, CHOOSE n \in 0 .. Limit : <<clock, n>> \notin Recent(k)>>

\* hit(): a refusal is not recorded, and names the time its oldest hit is over.
Hit(k) ==
  /\ hits' = [hits EXCEPT ![k] = Recent(k) \union IF Full(k) THEN {} ELSE {ThisCall(k)}]
  /\ promise' = [promise EXCEPT ![k] = IF Full(k) THEN Oldest(k) + Window ELSE 0]

\* A call that is limited and leaves no other trace here: a sign-in that fails, a
\* POST to users, federation or mcp, or an inbound SCIM create.
LimitedCall(k) ==
  /\ Hit(k)
  /\ UNCHANGED <<clock, cookie, passkeys, challenge, verified>>

----------------------------------------------------------------------------
(* Sessions.                                                               *)

\* Fault: the expiry of the token is not looked at.
Unseal_Forever(b) == cookie[b] # None

\* unsealPrincipal: a token past its expiry does not decrypt.
Unseal(b) == cookie[b] # None /\ clock < cookie[b].exp

\* Fault: a new session keeps the step-up of the one before.
StepUpAtSignIn_Kept(b) == IF cookie[b] = None THEN 0 ELSE cookie[b].stepUp

StepUpAtSignIn(b) == 0

SignIn(b, a) ==
  /\ ~Full("login")
  /\ IF "login" \in Keys THEN Hit("login") ELSE UNCHANGED <<hits, promise>>
  /\ cookie' = [cookie EXCEPT ![b] =
       [actor |-> a, exp |-> clock + SessionLife, stepUp |-> StepUpAtSignIn(b)]]
  /\ UNCHANGED <<clock, passkeys, challenge, verified>>

SignOut(b) ==
  /\ cookie' = [cookie EXCEPT ![b] = None]
  /\ UNCHANGED <<clock, passkeys, challenge, hits, promise, verified>>

\* register-options and step-up-options: one challenge is kept for an actor.
Challenge(b, kind) ==
  LET a == cookie[b].actor
  IN /\ Unseal(b) /\ (kind = "step-up" => passkeys[a] # {})
     /\ challenge' = [challenge EXCEPT ![a] = [browser |-> b, kind |-> kind, spare |-> FALSE]]
     /\ UNCHANGED <<clock, cookie, passkeys, hits, promise, verified>>

Asked(b, kind) ==
  LET c == challenge[cookie[b].actor]
  IN Unseal(b) /\ c # None /\ c.browser = b /\ c.kind = kind

\* register-verify: an authenticator answered the challenge that is kept.
RegisterVerify(b) ==
  LET a == cookie[b].actor
  IN /\ Asked(b, "register")
     /\ \E counts \in BOOLEAN : passkeys' = [passkeys EXCEPT ![a] = @ \union {counts}]
     /\ challenge' = [challenge EXCEPT ![a] = None]
     /\ UNCHANGED <<clock, cookie, hits, promise, verified>>

\* step-up-verify: the principal of the request is sealed again, for twelve hours,
\* with its step-up.
Renewed(b) ==
  cookie' = [cookie EXCEPT ![b].exp = clock + SessionLife, ![b].stepUp = clock + StepUpLife]

\* A registered authenticator answers the challenge, which stays.
StepUpVerify(b) ==
  LET a == cookie[b].actor
  IN /\ Asked(b, "step-up") /\ Renewed(b)
     /\ \E counts \in passkeys[a] :
          challenge' = [challenge EXCEPT ![a].spare = @ \/ ~counts]
     /\ verified' = [verified EXCEPT ![a] = clock]
     /\ UNCHANGED <<clock, passkeys, hits, promise>>

\* An answer is sent again.  Its challenge is still there, and a counter that stays
\* zero tells nothing.
StepUpAgain(b) ==
  /\ Asked(b, "step-up") /\ challenge[cookie[b].actor].spare /\ Renewed(b)
  /\ UNCHANGED <<clock, passkeys, challenge, hits, promise, verified>>

Tick ==
  /\ clock < MaxTime /\ clock' = clock + 1
  /\ UNCHANGED <<cookie, passkeys, challenge, hits, promise, verified>>

Next ==
  \/ \E k \in Keys : LimitedCall(k)
  \/ \E b \in Browsers, a \in Actors : SignIn(b, a)
  \/ \E b \in Browsers : SignOut(b) \/ RegisterVerify(b) \/ StepUpVerify(b) \/ StepUpAgain(b)
  \/ \E b \in Browsers, kind \in {"register", "step-up"} : Challenge(b, kind)
  \/ Tick

Spec == Init /\ [][Next]_vars

----------------------------------------------------------------------------
(* handle(): what becomes of a request.                                    *)

Principal(a) ==
  IF a = None THEN None
  ELSE [role |-> Directory[a].role, organisationId |-> Directory[a].organisationId,
        supportGrant |-> NoGrant]

\* The organisation a request is about.
OrganisationOf(a, org) ==
  IF org = None /\ a # None THEN Directory[a].organisationId ELSE org

\* privilegedAction of packages/guard: the paths that need a fresh step-up.
privilegedAction(p) ==
  /\ p.method = "POST"
  /\ \/ p.resource = "users" /\ p.extra = "suspend"
     \/ p.resource = "applications" /\ p.id = "-"
     \/ p.resource = "support-access" /\ p.extra = "approve"
     \/ p.resource = "federation" /\ p.id = "assertions" /\ p.extra = "-"
     \/ p.resource = "agents" /\ p.id = "-"

ForAnybody == {"acceptInvitation", "catalogue"}
Unasked    == {"listAgentActions", "endSupportAccess"}
\* What privilegedAction is there for; the action of an agent may be to suspend.
Privileged == {"suspendUser", "createApplication", "approveSupportAccess",
               "issueFederationAssertion", "createHermesAgent", "executeAgentAction"}

\* The paths to it that privilegedAction does not know.
Overlooked(p) ==
  \/ p.resource \in {"applications", "agents"} /\ p.id # "-"
  \/ p.resource = "federation" /\ p.extra # "-"
  \/ p.resource = "agent-actions"

KindOf(op) ==
  CASE op \in ForAnybody -> "for anybody"
    [] op \in Unasked    -> "unasked"
    [] op \in Privileged -> "privileged"
    [] OTHER             -> "guarded"

\* What handle() and proxy.ts look at in a request, the kind of the operation it
\* reaches, and the callers authorize() lets perform that; requests that are alike
\* in all of it are one.  Principals of the console carry no support grant, so the
\* time does not matter to authorize().
Request(p, org) ==
  LET op == Dispatch(p)
  IN [org |-> org,
      invitation |-> p.resource = "invitations",
      limited |-> IF p.method = "POST" /\ p.resource \in {"users", "federation", "mcp"}
                    THEN p.resource ELSE None,
      privileged |-> privilegedAction(p),
      overlooked |-> Overlooked(p),
      public |-> p.resource = "integrations" \/ (p.resource = "invitations" /\ p.id = "accept"),
      anywhere |-> p.resource \in {"organisations", "invitations", "integrations"},
      kind |-> KindOf(op),
      admits |-> {a \in Actors \union {None} :
                    Allowed(Principal(a), op, OrganisationOf(a, org), 0)}]

Requests == {Request(p, org) : p \in Paths, org \in Organisations \union {None}}

stepUpFresh(b) == clock < cookie[b].stepUp

Caller(b) == IF Unseal(b) THEN cookie[b].actor ELSE None

\* A request of b becomes its operation: proxy.ts sends a browser without a cookie
\* to the sign-in page, but for invitations (an API client with a bearer token,
\* too); then the limiter, the step-up, the session and the organisation are asked
\* for, and authorize() last.
Performs(b, r) ==
  /\ cookie[b] # None \/ r.invitation
  /\ ~Full(r.limited)
  /\ Unseal(b) /\ r.privileged => stepUpFresh(b)
  /\ Unseal(b) \/ r.public
  /\ r.anywhere \/ OrganisationOf(Caller(b), r.org) # None
  /\ Caller(b) \in r.admits

----------------------------------------------------------------------------

\* Nobody is let in by a cookie that is absent or over, except to what is meant
\* for anybody: the invitation and the catalogue.  (Two checks, proxy.ts and
\* handle(), stand before operations some of which have none of their own.)
NoOperationWithoutSession ==
  \A b \in Browsers :
    cookie[b] = None \/ clock >= cookie[b].exp =>
      \A r \in Requests : Performs(b, r) => r.kind = "for anybody"

\* A person of one organisation performs nothing on another, whichever route and
\* whichever organisation the request names, except what asks for no permission.
TenantBoundary ==
  \A b \in Browsers : Unseal(b) =>
    LET own == Directory[cookie[b].actor].organisationId
    IN \A r \in Requests :
         own # None /\ r.org \notin {None, own} /\ Performs(b, r) =>
           r.kind \in {"for anybody", "unasked"}

\* By every path but those of Overlooked, a privileged operation is performed only
\* for an actor who proved possession of a passkey, across sign-ins and browsers;
\* and did so less than StepUpLife ago if every authenticator of the actor counts
\* (the answer of another is good until the next challenge).
StepUpWasEarned ==
  \A b \in Browsers, r \in Requests :
    r.kind = "privileged" /\ Performs(b, r) /\ ~r.overlooked =>
      LET a == cookie[b].actor
          v == verified[a]
      IN /\ v # None
         /\ FALSE \notin passkeys[a] => clock < v + StepUpLife

\* The limiter admits no more than Limit calls in a window, and who waited as
\* long as a refusal said finds room unless another call took it.
LimiterHonest ==
  \A k \in Keys :
    /\ Cardinality(Recent(k)) <= Limit
    /\ promise[k] # 0 /\ clock >= promise[k] => ~Full(k)

=============================================================================
