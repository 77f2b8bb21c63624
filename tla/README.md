# A verification project for BlakID

TLA+ models of the BlakID control plane, the TLC configurations that check them
and proofs that TLAPS checks. Paths below are relative to the repository;
`blakid.ts` is `packages/control-plane/src/blakid.ts`.

## 1. The system

BlakID runs one authentik stack per organisation (tenant) and puts a control
plane in front of it. `BlakID` (`blakid.ts`) is one object per console process. A
request reaches it from the console's routes (`apps/console/app/api`), from SCIM or
from an MCP agent; a handler authorises its caller, reads, decides, writes, records
an audit event, sends webhooks and answers.

| Part | State | Operations | Talks to |
| --- | --- | --- | --- |
| Authorisation (`packages/authz`) | none; role matrix | `authorize`, `hasPermission` | called by all handlers |
| Support access (`packages/support-access`, `blakid.ts:533-686`) | support rows, grants held by operators | request, approve, deny, start, end, review, expiry tick | store, audit, clock |
| Identity lifecycle (`packages/identity`, `blakid.ts:231-430`, `795-849`, `1056-1103`) | the engine's users and sessions, invitations | invite, accept, activate, suspend, lock, terminate, purge, log in, revoke | engine, audit, webhooks |
| Identity engine (`packages/authentik`) | users, groups, sessions, applications | `MemoryAuthentikClient` in one process, `HttpAuthentikClient` over REST | authentik |
| Inbound SCIM (`packages/scim`) | tokens | create, replace, patch, delete | lifecycle |
| Audit (`packages/audit`) | store, append-only sink | `record`, list, export | store, file |
| Webhooks (`packages/webhooks`) | endpoints, deliveries | `deliverOnce` | called by `record()` |
| Access requests, groups (`blakid.ts:477-513`, `688-769`) | requests, memberships | create, decide, expire | engine, store |
| Agent actions, MCP (`packages/mcp`, `blakid.ts:1520-1612`) | actions | propose, decide, execute | lifecycle, groups |
| Guard (`packages/guard`) | hits per key | `RateLimiter.hit`, `privilegedAction`, `stepUpFresh` | routes |
| Console (`apps/console`: `proxy.ts`, `api/v1`, `api/auth`, `lib/session.ts`) | sealed cookies, passkeys, challenges | sign in and out, register, step up, dispatch a request | control plane, guard |
| Provisioning (`packages/provisioning`, `blakid.ts:140-178`, `861-913`) | organisations, deployments, ports; on the host stacks, env files, dumps | provision, back up, restore test, tear down | Docker, authentik |
| Federation (`packages/federation`, `blakid.ts:1350-1518`) | trusts, keys | issue, consume, evaluate | other organisations |
| Applications, agents (`blakid.ts:437-475`, `933-1050`, `1169-1230`) | applications, providers, sources, identities | create, apply catalogue, limit an agent | engine |
| Secrets, UI, API client, infrastructure | keys | | |

**What is hard.** There are no threads, but every `await` is a point where another
handler may run. Which of them matter depends on what is behind the interface:

- `MemoryStore` and `MemoryAuthentikClient` answer within one turn of the event
  loop, and `FileAuditSink` writes synchronously. In the console as it ships,
  handlers overlap only where `fetch` is awaited, i.e. while webhooks go out in
  the middle of `record()`;
- over `HttpAuthentikClient`, which production uses, and over any store that is a
  database (ADR 0003), they overlap everywhere.

Handlers are read-decide-write sequences without locks or versions, so a row or a
user may be stale when it is written; they have several effects and no
transaction, so a step that throws leaves the earlier ones standing; and the order
of effects (state, audit, revocation) decides what a failure leaves behind.

**What makes each part correct.** Support access: an operator reaches tenant data only
inside a live approval by the organisation, break-glass takes two people, decisions
are on the audit trail, a refusal is final. Lifecycle: states follow the table, deletion
comes after archiving and is final, an identity that was stopped has no session.
Access requests: a membership lasts as long as a grant for it. Agent actions: what was
approved by somebody entitled is what runs. Webhooks: an endpoint hears once, and only of
what the audit trail has. Console: an operation is reached by a live session of the
right organisation, and a privileged one after a fresh passkey. Guard: no more than the
limit per window. Provisioning: no two tenants share a port or a stack, and one
that is shown ready can be used. Federation: an attribute is accepted from an issuer
and under a policy the organisation chose. Applications: what was answered as done is
there and on the trail.

## 2. Modules

| Module | What it is |
| --- | --- |
| `Authz` | roles, permissions, matrix, `authorize()` as operators; no state |
| `SupportPolicy` | the workflow ADR 0006 promises, without rows, handlers or clock |
| `SupportAccess` (extends `Authz`) | the handlers of support access |
| `MCSupportAccess` | people, roles and organisations of the instances |
| `Authz_proofs`, `SupportAccess_proofs` | theorems about the two |
| `IdentityStates` | transition table, `nextStateFromScim`; no state |
| `IdentityPolicy` | what the lifecycle promises: an abstract state machine |
| `Lifecycle` (extends `IdentityStates`) | the handlers of the lifecycle over either engine |
| `MCLifecycle` | symmetry of its instances |
| `Lifecycle_proofs` | theorems about it |
| `AccessRequests` | temporary access: requests, decisions, the expiry tick, groups |
| `MCAccessRequests` | symmetry of its instances |
| `AccessRequests_proofs` | theorems about it |
| `Webhooks` | `record()` in full: audit store, sink, one endpoint after the other |
| `AgentActions` (extends `Webhooks`, instantiates `Authz`) | agent actions, whose tools record through it |
| `MCAgentActions` | the people of its instance |
| `AgentActions_proofs` | theorems about agent actions and webhooks |
| `Routes` (extends `Authz`) | the route table of the console and what each operation asks of `authorize()`; no state |
| `Console` (extends `Routes`) | cookies, passkey ceremonies, rate limiter, `proxy.ts`, `handle()` |
| `MCConsole` | its actors, symmetry of the browsers |
| `Console_proofs` | theorems about the console, its route table and the limiter |
| `Provisioning` | organisations, tenants and stacks, backups and restore tests, restarts |
| `MCProvisioning` | names and slugs of its instance |
| `Provisioning_proofs` | theorems about it |
| `Applications` | what is made in authentik over several requests |
| `Federation` | trust policies, keys, assertions |
| `Integrations` (extends the two) | both behind one specification |
| `MCIntegrations` | policies and symmetry of its instance |
| `Integrations_proofs` | theorems about the two halves |

### Support access

`support` is the store's table (`Absent`: no row), `audit` the set of
`support.access.*` events in the store, `issued` the principals `startSupportAccess` has
answered with, `now` the clock. `procs` holds the calls in flight: a handler is
`Load` (`requireSupport`), one of the commit actions (authorise, compute the next
row from the row *loaded*, `updateSupport`), `Record` (`appendAudit`, then the sink,
which may throw) and, for start, `Respond` (the answer that carries the grant, after
the webhooks). A refused commit is `Refuse`. `approvals` is a history variable. The
code reads two clocks, `this.now()` and `Date.now()`; they are one here. Reasons,
addresses and timestamps that decide nothing are left out; `alerted` is never read.

`StoreYields = TRUE` lets any two steps interleave; `FALSE` lets nothing run between
`Load` and the end of `Record`, which is the shipped store.

### Lifecycle

`user` is the engine's record (`blakid_state`, `is_active`), `session` maps each
session to its owner (`"unused"` before, `"gone"` after; ids are never used again),
`invitations` the unexpired tokens. A call is
`AdminCall` (or `ScimCall`, `ScimCreate`, `AcceptInvitation`, `Authenticate`), then
`Look` (`getUser` and `transition()`), `Write` (`updateUser`), `Audit` (`record()`) and
`RevokeAllSessions`, or over HTTP `ListSessions` and one `DeleteSession` per session. What
`ListSessions` gets is one page of at most `PageSize` sessions, any of the identity's; a
session that was ended by somebody else meanwhile is a 404, `request()` throws, and the
handler ends (`DeleteRefused`) with the rest alive. A login goes from `Audit` to
`CreateSession`. `Fail` ends a handler where it stands:
the sink throws, or over HTTP a request is lost, before or after it took effect.

`Engine = "memory"` checks the transition in `updateUser` again and derives
`isActive` from the state; `"http"` stores what it is sent. authentik itself is
external: sign-in there (`EngineLogin`) looks at `is_active` only, as it must, since
`blakid_state` is an attribute of BlakID's. `activate` stands for `activateUser` and
`restoreUser`, which differ in the name of their event. Records with nothing after
them (the second of `suspendUser`, that of `inviteUser`) are left out: no property of
this module reads the trail. `whole` and `before` are history: whether the listing was
complete, and the sessions alive when the state was written.

### Access requests

`row` is the store's table of requests, `groups` the engine's groups (the id is the
position), `now` the clock, `procs` the handlers in flight: a decision is
`DecideAccessRequest`, `UpdateAccessRequest`, `ListGroups`, `CreateGroup` when no group has
the name of the role, and the change of the member; the tick is `TickAccessExpiry`, then
`Pick`, `ListGroups`, the change, `UpdateAccessRequest` and `Record` for each request of its
listing. A change of a member is `ChangeMember` in the memory engine, `ReadMembers` and
`PatchMembers` over HTTP. Over the memory engine a handler runs without interruption up to
`record()`; what `record()` does to the trail no property here reads, so it is a step only
in the tick, which goes on after it. `granted`, `standing` and `withheld` are history: who
was ever entitled to a role, which memberships no request answers for (an
administrator's, or left by a denial after an approval), which were taken away or
could not be added. That authentik refuses a second group of the same name is an
assumption; the memory engine does not.

### Agent actions and webhooks

`action` is the table of agent actions, `call` the executions in flight, `ran` and
`approved` history. An execution is `ExecuteAgentAction` (reads the row), then for every
step of its tool `RunStep` (the handler of the tool and its `appendAudit`), `Sink`, and
`Post` and `Answer` for each endpoint of the listing, then `MarkExecuted`, which writes the
row that was *read*. The endpoints still to be tried are a set that is taken in the order
they were created (`Turn`), which is the order of the listing. Two of the five writing tools are modelled: one that the engine
refuses the second time and that records twice, and one that may be repeated and records
once; the other three behave as one of the two. An endpoint answers, answers with an
error, is not heard or is not reached. The vault opens the secret of an endpoint or does
not (`opens`); one that does not open ends the dispatch in `Post`, after its delivery was
inserted. `MaxEvents` and `MaxHooks` bound the events and the
endpoints. Other handlers record through the same `record()`; in `SupportAccess`,
`Lifecycle` and `AccessRequests` it is the shorter `Record` or `Audit`.

### Console

`cookie` is what each browser holds, `passkeys` whether the authenticators an actor has
registered count their uses, `verified` when an actor last proved possession of a
passkey (history), `hits` the limiter: of each
key the set of its calls, a call being its time and a number that tells it from others of
that time. The actions are sign-in, sign-out, both passkey
ceremonies and time. `step-up-verify` keeps its challenge, so an answer of an authenticator
that does not count is accepted again (`StepUpAgain`): that renews the step-up and proves
nothing, so `verified` stays. What an operation does once it is let in belongs to other modules, so
a request is an operator, `Performs(b, r)`: `proxy.ts`, the limiter, the step-up, the
session, the organisation and `authorize()`, in the order of `handle()`. The properties
ask it of *every* path and organisation in every reachable state. `Routes` is the chain of
ifs, in order; `Dispatch` takes the first that fits. `Paths` are all combinations of the
words the chain compares with, no segment and any other word. `Overlooked` names the paths
to privileged operations that `privilegedAction` does not know. Of the keys of the limiter `"login"` is followed; a key is independent of
every other. Sealing is external: a cookie is what was sealed, or nothing.

### Provisioning

`pc` follows the one provisioning call of an organisation from await to await: `allocate`,
`env`, `up`, `wait`, the enrolment `stages`, `flows` and `bindings`, `require`, `identity`,
`record`. `Fail` ends it at any of them. Steps in memory between two awaits are merged into
one (`MarkReady`). The host keeps `stack`, `env`, `dumps` and `testDb` over a `Restart`, the
console nothing. Docker refuses a port or a network another project holds (`HostTakes`); a
project that is started over its old volumes keeps its old secrets and never answers to
the new call (`healthy`). A refused `compose up` is taken to leave nothing behind. The
blueprint of a stack makes the enrolment objects in its own time (`Blueprint`), so a post
may be refused. The memory runtime, the FAIL verdict of a restore test and the time of the
last backup are left out.

### Applications and federation

A call of `Applications` is the list of requests it has still to make; each takes effect
or not, and its answer comes or is lost (`Returns`, `Fail`). `answered` is the call answered
with success last. `MaxCalls` bounds the calls, `MaxProviders` the providers. Only the HTTP
engine is modelled; in memory a creation is one step. `Federation` has the key of each
organisation, the handlers that issue, from their look for a key (`Issue`) over its
generation (`Generated`) to the answer (`HandOut`) or an error (`IssueFails`), the assertions
handed out, the policies of each pair, and `consumed`, the last decision. `alone` is history:
no other handler was generating a key for the issuer while the assertion was made, and the
console did not restart since. An assertion makes a
statement on every attribute, each judged by itself. Signatures are external: a token
verifies with the key that signed it. The two share no state, so a behaviour of
`Integrations` follows one of them (`follows`); they are one run because each is small.

## 3. Runs

| Run | Instance | Shows |
| --- | --- | --- |
| `support_interleaved` | 1 request, 3 people, 2 handlers, TTL 1, clock to 2, store yields | `AccessIsBacked`, `BreakGlassTwoPeople` survive every interleaving and the lost updates it brings |
| `support_tenants` | 2 organisations, 5 people, 2 handlers, clock to 3, sink may fail | over the shipped store `DecisionsAudited` (every decision is in the audit store even if the sink throws), `DeniedStaysShut`, and that the handlers implement `SupportPolicy` |
| `lifecycle_shipped` | 1 identity, 2 sessions, 2 calls, memory engine as shipped | `InactiveHasNoSession` and the liveness `InactiveSettles` |
| `lifecycle_interleaved` | the same, interleaved everywhere, failures | the memory engine implements `IdentityPolicy` |
| `lifecycle_engine` | 1 identity, 3 sessions listed 2 at once, 2 calls, over HTTP, no failures | `SweepComplete`: a call that stops an identity leaves a session of its time alive only when there were more than a page, or when somebody else ended one of those it was to delete |
| `access_shipped` | 2 people, 2 requests for 1 role, 2 handlers, 2 groups, clock to 1, memory engine, failures | `MembershipBacked`, `GrantDelivered` |
| `access_engine` | 2 people, 1 request, 2 handlers, over HTTP, failures | `MembersWereGranted` |
| `access_race` | the same, no failures | violates `RevokedIsOut`: see below |
| `agents` | 2 people, 1 action, 2 executions, 2 events, 2 endpoints, secrets that open or not | `NoRunWithoutApproval`, `ExecutedIsTrue`, `AnnouncedWasAudited`, `UntriedIsUnopened` and the liveness `EveryEndpointIsTried` |
| `console` | 2 browsers, an owner and an operator, 2 organisations, all paths, limit 2 in a window of 2, session 2, step-up 1, clock to 2 | `NoOperationWithoutSession`, `TenantBoundary`, `StepUpWasEarned`, `LimiterHonest` |
| `provisioning` | 2 organisations, 3 names for 2 slugs, 2 restore tests, failures, restarts | `PortsDisjoint`, `OwnStack`, `ReadyIsServed` and the liveness `ProvisioningSettles` |
| `integrations` | 1 name, 1 agent, 2 calls at once and 3 in all; or 2 organisations, 2 issuers, 3 keys, 2 assertions, 2 policies, clock to 1 | `ApplicationsBacked`, `AnsweredIsWhole`, `TrailIsTrue`, `ClientAfterLimits`, `BarredStaysBarred`; `AssertionsVerify` |

Bounds. One support request is enough because no handler relates two requests
except through the caller's grant, and a grant names its request; two people who
may decide and an operator are the smallest team break-glass can happen in; two
handlers are what a lost update takes; TTL 1 with clock 2 or 3 has approvals
before, at and after the expiry. One identity is enough because no call touches
two; two calls show every pair of handlers against each other, two sessions let one
survive a sweep that stops early, and three let it be off the page as well. Two access requests for one role show what sharing a
group does; `expiresAt` 0, 1 or never with the clock at 0 and 1 is past, due and
neither; `MaxGroups` bounds what administrators create, never a decision. The number of sign-ins is bounded by `Sessions`:
an id is used once. One action and two executions are what a second execution, a late
denial and a stale row take; two events have a tool announce twice or two executions
once each, two endpoints one before and one after an endpoint that fails. Two browsers
of one actor show what the shared challenge does; a window and a session of 2 units and a
step-up of 1 within a clock of 2 have everything fresh, at its end and over, a renewal at
its last moment and calls of two times in one window. Two organisations are what a port or
a stack can be shared by, and three names let two be one slug; 200 networks are
more than they can use. Three calls are two that overlap and one that is made again.

Fairness. Three modules assume any, each of it only of calls that have begun.
`Lifecycle`: strong fairness of the continuation of each call. Node resumes awaiting
handlers in the order their promises settle, so a handler that is ready again and again
is not passed over for ever, although the model makes it wait while another is inside an
uninterrupted stretch; and each await settles, because the memory engine answers at once
and Node's `fetch` times out. `AgentActions` and `Provisioning`: weak fairness of
`Continue(c)` and `Proceed(o)`, which are enabled until the call is over: what is awaited
answers, fails, or is given up (Node's `fetch` times out by itself, `waitFor` has a
deadline, `execFile` ends with its process). No fairness is assumed of new calls, time,
sign-ins, restarts, blueprints or administrators. The liveness properties are therefore
only about finishing what was begun.

Disagreements. One run shows where the code does something else than the repository
says; `PROJECT.json` has the quotation. `access_race`: over HTTP an approval is stored
before the member is added; a tick in between records the revocation, and the member is
added for good.

Others were met while modelling. Where no more is said, the behaviour is one of the model,
though no run is about it; what is outside the models is marked so.

- Support: the expiry tick (`blakid.ts:669`) and the review (`:662`) change a status without
  an audit event; ADR 0006, line 15, says all transitions emit one.
- Lifecycle: a sink that throws between the state change and the revocation
  (`blakid.ts:331`) leaves a suspended identity with its sessions, and suspending it again
  is refused. Over HTTP (`http-client.ts:100`) a restore that read ARCHIVED overwrites
  DELETED, which `states.ts:41` makes final; and an invitation accepted a second time
  (`blakid.ts:289`) makes a suspended identity `is_active`. A sweep over HTTP deletes the
  first page of sessions only (`http-client.ts:186`) and stops at a session that is gone
  already (`:208`), although `packages/mcp/src/index.ts:41` has a suspension revoke the
  sessions and `suspendUser` records that of `all_sessions`. `purgeUser` deletes right after
  archiving; the 90 days of `RETENTION` are read nowhere (no model has a calendar).
- Access requests: the tick ignores a removal that failed and records the revocation.
- Agent actions: `decideAgentAction` and `executeAgentAction` look at too little: an action is
  executed twice at once, or again after a new decision; an execution overwrites a denial;
  a tool that throws half way can never be executed again. A delivery that failed stays
  pending, `dead` is unreachable; one secret that cannot be opened ends the dispatch, so its
  delivery and the endpoints after it are never tried (`Post`).
- Console: `proxy.ts` sends a client without a cookie to the sign-in page, so the bearer
  tokens that `lib/principal.ts:8` reads, and MCP and SCIM clients (`README.md:49-50`), never
  get through (those clients and the endpoints of their own are outside the models). POST to
  `applications/<id>`, `agents/<id>` and `federation/assertions/<word>`, and the execution of
  an agent action, by which the MCP tool that suspends takes effect, reach a privileged
  operation that `privilegedAction` does not know under that path: the four are `Overlooked`,
  and `StepUpWasEarned` says that there is no other. `step-up-verify` accepts an answer again
  if its authenticator does not count. The role sealed in a cookie outlives a demotion for up
  to twelve hours, and a step-up renews it (outside the model: its actors keep their roles).
  Signing out clears the cookie only.
- Provisioning: after a restart ports are counted from 19100 again though the old stacks
  hold them, so the next provisioning fails; a call that failed leaves its slug taken for
  good, and one that failed after `MarkReady` an organisation shown ready without its
  administrator; `restoreTest` of a slug that was used before loads the earlier dump, where
  `docs/operations/backup.md:5` speaks of the dedicated tenant database.
- Applications: a lost answer leaves a provider without application, an application that
  was never recorded, or a catalogue item half applied, and the retry is refused for its
  slug; `createOutboundScim` records nothing. The signing key is never rotated: after 90
  days no application can be created. Suspending an agent over HTTP drops `blakid_kind` and
  its limits, so it reads back as a person.
- Federation: two first assertions race for the key, and those of the loser never verify
  (`blakid.ts:1395`); a second policy for a peer is never consulted (`memory-store.ts:147`),
  so what it refuses is accepted, against ADR 0010, line 10; keys and policies are lost with the process; an assertion may be consumed again until it
  expires.

Each property of a passing run has a fault (`..._SamePerson`, `..._FirstOnly`, ...)
beside the definition it replaces that violates it.

## 4. Proofs

All theorems hold for every value of the constants that the modules' assumptions allow:
`SupportAssumption`, `LifecycleAssumption`, `AccessAssumption`, `ProvisioningAssumption`,
`AgentAssumption`, `ConsoleAssumption`, `ApplicationsAssumption` and `FederationAssumption`
say only what the configuration constants are, that there are finitely many organisations,
and that an operator belongs to none. `NoneAssumption` (of `Provisioning` and of
`AgentActions`), `NoAgentAssumption` and `NobodyAssumption` say that the value standing for
"nothing there" is none of the records a variable holds. TLC evaluates all of them in the
runs. Every safety invariant that a run checks is also a theorem, and so is every action
property and both refinements.

Some theorems have a hypothesis on how the system is run, because the property fails
without it: `Engine = "memory"` (the shipped engine), `~StoreYields` and `~Yields` (the
store and the engine answer in one turn of the event loop, as shipped), `~MayFail` (no sink
throws, no request is lost). Each holds in the run that checks the property. What happens
without it is under "Disagreements" in section 3.

| Hypothesis | Theorems |
| --- | --- |
| `~StoreYields` | `DeniedIsFinal`, `HandlersKeepPolicy` |
| `Engine = "memory"` | `MemoryKeepsPolicy`, `AccessIsTemporary`, `ApprovedMeansMember` |
| `~MayFail` | `SweepsAreComplete` |
| `Engine = "memory"`, `~Yields`, `~MayFail` | `NoSessionWhenBarred` |

**Authz_proofs.** `IndependenceGuard`: no forbidden permission in the operator's
matrix. `OperatorReach`: what `authorize()` passing means for an operator.

**SupportAccess_proofs.** `SupportTypes`, `AccessNeedsApproval`, `BreakGlassNeedsTwo`.
Types alone are not enough: a handler may write a row it loaded long ago. The
inductive invariant `IInv` says what a stale row cannot be wrong about: who asked, for
which organisation and scopes (never written after creation), that its `expiresAt`
comes from a recorded approval, and that the first approver of a pending row may
decide. It says so of the rows, the copies held by handlers and the grants handed
out; approvals only accumulate, so it survives any order of writes. `OperatorReach`
then turns it into `AccessIsBacked`.

`DecisionsLeaveATrail` needs `TrailInv`: the event of every step that brought a row, or a
copy of it, to its status is in the audit store, or in the hands of a handler about to
write it. A copy counts too, since a late write puts its status back.
`DeniedIsFinal` and `HandlersKeepPolicy` need the store that does not yield: `SerialInv`
says that a handler between its two halves is the only one (`Alone`), so the row it loaded
is still the row (`Fresh`), that a request with an approval is one that was opened, and that
one whose grant is out, or on its way to the operator, is one that was entered; none of
these goes back. From there each step of a handler is a step of `SupportPolicy` or
none.

**Lifecycle_proofs.** `LifecycleTypes` for both engines. `MemoryKeepsPolicy`: with the
memory engine, `Lifecycle` implements `IdentityPolicy`, any number of calls interleaved
and failing anywhere. The engine's second check is nearly enough, but the table
allows INVITED to DELETED, which the policy does not; `PendingOK` says that a call
which is to delete began after its identity left INVITED, and that nothing leads back
there.

`SweepsAreComplete`, over both engines: a session that was alive when the state was written
stays the identity's until it is gone, and once a sweep over HTTP has listed them all it is
gone or on the list (`SweptOK`); ids are never used again, so gone stays gone. A sweep whose
listing was a page of several, or that came to a session already gone, is all that is left
out. `NoSessionWhenBarred` is about the
console as shipped, where a login or a change has no stranger between its look and its
write; `ShippedInv` adds that what a call writes goes with what it was called for, so
that every way out of ACTIVE is a handler that goes on to revoke.

**AccessRequests_proofs.** `AccessTypes` and `OnlyTheGranted`, for both engines. A handler
over HTTP may write back a list it read any time ago, so `MembersWereGranted` is not
inductive; `HandlerOK` says what no delay can make wrong: the list it read names only
people who were granted the role, the group it found keeps its name, its request
exists, and whom it adds was granted the role when it began. What others do only adds
requests, groups and grants (`Grows`), so one lemma (`Frame`) carries it through every
step.

`AccessIsTemporary` and `ApprovedMeansMember` hold over the memory engine, where a handler
runs on until `record()`. `MemoryInv` says that what it found when it began is still so when
it acts (`KnowsOK`), that a membership which only requests answer for is in the first group
of its name (`FirstBacked`), where a decision and the tick both look, and that an approved
request has its member, its entry in `withheld` or a handler on the way (`Delivered`).

**Provisioning_proofs.** `ProvisioningTypes`, `NoSharedPort`, `TenantHasItsStack`,
`ReadyMeansServed`. That there is always a
port to give is not plain: `FreePort` counts the ports in use against the organisations, of
which there are fewer than ports, and takes the least of the rest. The inductive invariant
then says of each call what its step implies (`CallsOK`), that the ports counted as used are
those that were given (`PortsOK`), that a placed tenant has its env file and its stack at its
port (`PlacesOK`), which objects a call has made so far (`ObjectsOK`), that no two
organisations of a console have one slug (`OneSlugEach`), and that a running restore test is
one of a registered tenant (`JobsOK`). A restart makes `usedPorts` forget
stacks that still run, so two stacks may want one port; that none but the tenant's own
answers at it is `PlacesOK`, which rests on the host refusing to start a second one there.

**AgentActions_proofs.** `RunNeedsApproval` and `ExecutedIsNoLie`. An execution writes back
a row it read before its tool ran, so what the row says must stay true although it is old:
`RowsBacked` and `CallsBacked` say that an approver in a row, or in the copy an execution
holds, is among those who did approve, and that a copy is only recorded once its action
ran; approvals and runs are never taken back. The delivery of webhooks disturbs none of it.

`AgentActionTypes`, `HooksHearTheTruth` and `NoDeliveryIsForgotten` are about that delivery. `HooksInv` says that an
event is announced by one handler (`OneAnnouncer`), that the endpoints it has left are among
those that asked for the event and were not sent it (`Unsent`), that nothing is sent of an
event that is not stored yet (`NothingBefore`) and nothing to an endpoint that is not there
(`SentToHooks`). `UntriedInv` adds that a delivery is made for an endpoint there is (`Made`).

**Console_proofs.** `SessionRequired`, `TenantsAreSeparate`, `StepUpIsEarned`, `ConsoleTypes`,
`LimiterKeepsItsWord`. The chain of routes is taken row by row: which rows a path can reach
first, and what the operation of the row asks of `authorize()` and of `privilegedAction`.
`SessionInv` adds what a cookie may say: behind a step-up in it is a proof of possession by its
actor, whichever browser gave it, and it ends no later than `StepUpLife` after the last one
if every authenticator of the actor counts (`Earned`); an answer that is accepted again comes
from an authenticator that does not (`Answered`). `StepUpIsEarned` takes every path that
reaches a privileged operation and is none of `Overlooked`, and finds it in
`privilegedAction`.
`LimiterInv` counts: a key holds at most `Limit` calls, each with a number of its own, so
there is a number for the next; and a refusal that stands names a time at which a call the
key still holds is over (`KeyOK`), which leaves room for one.

**Integrations_proofs.** `OnlyRivalsSpoil` and `SuspendedAgentsStayOut` (a write of limits
keeps `active` as it is, and nobody makes an identity that is there again). For the first,
`AssertionsVerify` alone is not inductive, for a handler may be generating a key while an
assertion is handed out: `TokensAlone` says that nobody generates one for an issuer with an
assertion made alone, `IssuersAlone` the same of the handlers on their way to one. Whoever
looks for a key afterwards finds it.

`ProvidersAreOwn`, `SuccessIsWhole`, `TrailTellsTheTruth`, `AgentsAreLimitedFirst` and
`IntegrationTypes` rest on `AppInv`. A call has the end of its handler's list of requests left
(`Ending`), and every request before that end has left what it makes (`Progress`); nothing
that was made is taken away (`Grows`), so others cannot undo it. `ListsInOrder` and
`ListsComplete` say of the handlers' lists what comes before what and what each has, so a
call that comes to a request finds what the request needs, and one that is over has made
all it stands for. Between the two requests that make an application, its provider belongs
to one call (`CallsApart`) and to no application (`Own`), which is why no two applications
share one.

Only model-checked: `InactiveSettles`, `EveryEndpointIsTried` and `ProvisioningSettles`,
which are liveness under fairness and beyond the prover. `RevokedIsOut` is refuted.

## 5. Plan

What is left, in this order: a composition of `Lifecycle` with `Webhooks`, so that its
sign-ins and revocations overlap endpoint after endpoint; inbound SCIM tokens and lists;
bounded-input runs of the pure parts (`authorize`, `catalogueApplyPlan`); for each liveness
property, the safety facts it rests on (a call that has begun has a step to take) as
theorems.

## 6. Not modelled

Docker, authentik's internals, PostgreSQL (the schema is declared and not wired
up), cryptography, pages, the typed API client, configuration, wording and formatting:
they are external, pure functions without a decision, or text. Profile fields and
passwords of an identity are outside `Lifecycle`. The memory runtime of provisioning and
the memory engine's applications are one-step versions of what is modelled. SCIM list and
filter, audit export and filters, the dashboards and the evidence pack read and change
nothing.
