---------------------------- MODULE Provisioning ----------------------------
(***************************************************************************)
(* Organisations and the identity stack each of them is given:             *)
(* provisionOrganisation of packages/control-plane over the compose        *)
(* runtime of packages/provisioning, the enrolment flows it sets up in     *)
(* authentik, backups and restore tests.                                   *)
(*                                                                         *)
(* The console keeps organisations, deployments and tenants in memory: a   *)
(* restart forgets them, and the calls in flight.  The Docker host keeps   *)
(* stacks, volumes, env files and dumps.  One provisioning call serves one *)
(* organisation; pc follows it from one await to the next.                 *)
(***************************************************************************)
EXTENDS Integers, FiniteSets

CONSTANTS
  Orgs,        \* bounds the organisations a console process creates
  Names, Slugs,
  Normal,      \* what a typed slug becomes: trimmed, lower case, [a-z0-9-]
  StartPort,   \* 19100
  Octets,      \* 200: the /24 networks of 10.201.0.0/16 that are used
  Jobs,        \* bounds the restore tests in flight at once
  Dumped,      \* bounds the slugs that backups and restore tests are made of
  None

ASSUME ProvisioningAssumption ==
  /\ IsFiniteSet(Orgs)
  /\ Normal \in [Names -> Slugs]
  /\ Dumped \subseteq Slugs
  /\ StartPort \in Nat /\ Octets \in Nat \ {0}
  /\ None \notin Slugs \union Nat \union Orgs

VARIABLES
  slug, status,   \* the organisation; None and "none" before it is inserted
  pc,             \* its provisioning call
  port,           \* the HTTP port the call was given
  usedPorts,
  tenants,        \* organisations registered with the runtime
  deployment,     \* what the store knows of the stack
  job,            \* restore tests under way
  env,            \* the port in the env file of each slug
  stack,          \* compose projects on the host, their volumes included
  dumps,          \* the slugs with a dump in their backups directory
  testDb          \* authentik_restore_test in the stack of each slug

console == <<slug, status, pc, port, usedPorts, tenants, deployment, job>>
host    == <<env, stack, dumps, testDb>>
vars    == <<console, host>>

----------------------------------------------------------------------------
\* What ensureAuthenticatorEnrolment makes sure of: each is a pair, for passkeys and
\* for TOTP, and stands for both.
Enrolment == {"stages", "flows", "bindings"}

\* The awaits of a provisioning call, in their order.
StepAfter ==
  [allocate |-> "env", env |-> "up", up |-> "wait", wait |-> "stages", stages |-> "flows",
   flows |-> "bindings", bindings |-> "require", require |-> "identity",
   identity |-> "record", record |-> "done"]

Steps == DOMAIN StepAfter

Ports == StartPort .. (StartPort + Cardinality(Orgs))

Deployment == [port : Ports, restoreTest : {"none", "PASS"}]

\* healthy: whether authentik answers to the token of the call that started the
\* project; objects: its stages, flows and bindings, and the administrator.
Stack == [port : Ports, healthy : BOOLEAN, objects : SUBSET (Enrolment \union {"admin"})]

Job == [pc : {"create", "load", "clean"}, org : Orgs]
Idle == [pc |-> "idle"]

ASSUME NoneAssumption == None \notin Deployment \union Stack

TypeOK ==
  /\ slug \in [Orgs -> Slugs \union {None}]
  /\ status \in [Orgs -> {"none", "provisioning", "ready"}]
  /\ pc \in [Orgs -> {"idle", "done", "failed"} \union Steps]
  /\ port \in [Orgs -> Ports \union {None}]
  /\ usedPorts \subseteq Ports /\ tenants \subseteq Orgs
  /\ deployment \in [Orgs -> Deployment \union {None}]
  /\ job \in [Jobs -> Job \union {Idle}]
  /\ env \in [Slugs -> Ports \union {None}]
  /\ stack \in [Slugs -> Stack \union {None}]
  /\ dumps \subseteq Slugs
  /\ testDb \in [Slugs -> {"none", "empty", "loaded"}]

\* A console process that has just started.
NewConsole ==
  [slug |-> [o \in Orgs |-> None], status |-> [o \in Orgs |-> "none"],
   pc |-> [o \in Orgs |-> "idle"], port |-> [o \in Orgs |-> None],
   usedPorts |-> {}, tenants |-> {}, deployment |-> [o \in Orgs |-> None],
   job |-> [j \in Jobs |-> Idle]]

Init ==
  /\ slug = NewConsole.slug /\ status = NewConsole.status /\ pc = NewConsole.pc
  /\ port = NewConsole.port /\ usedPorts = NewConsole.usedPorts
  /\ tenants = NewConsole.tenants /\ deployment = NewConsole.deployment
  /\ job = NewConsole.job
  /\ env = [s \in Slugs |-> None] /\ stack = [s \in Slugs |-> None]
  /\ dumps = {} /\ testDb = [s \in Slugs |-> "none"]

Goto(o, step) == pc' = [pc EXCEPT ![o] = step]
Advance(o)    == Goto(o, StepAfter[pc[o]])

----------------------------------------------------------------------------
(* provisionOrganisation.                                                  *)

SlugFree(s) == \A o \in Orgs : slug[o] # s

\* insertOrganisation refuses a slug that is taken, and nothing has changed.
\* (An organisation that is not there yet is one of Orgs, whichever it is.)
InsertOrganisation(o, name) ==
  /\ pc[o] = "idle" /\ o = CHOOSE i \in Orgs : pc[i] = "idle"
  /\ SlugFree(Normal[name])
  /\ slug' = [slug EXCEPT ![o] = Normal[name]]
  /\ status' = [status EXCEPT ![o] = "provisioning"]
  /\ Goto(o, "allocate")
  /\ UNCHANGED <<port, usedPorts, tenants, deployment, job, host>>

\* Fault: startingHttpPort is not handed down, and allocateHttpPort takes its default.
FirstFree_Default(used) == 9100

FirstFree(used) == CHOOSE p \in Ports \ used : \A q \in Ports \ used : p <= q

\* Fault: the port is marked used only when the tenant is registered.
AllocateHttpPort_Late(o) ==
  /\ pc[o] = "allocate"
  /\ port' = [port EXCEPT ![o] = FirstFree(usedPorts)]
  /\ Advance(o)
  /\ UNCHANGED <<usedPorts, slug, status, tenants, deployment, job, host>>

\* The first free port from StartPort, marked used before anything is awaited.
AllocateHttpPort(o) ==
  /\ pc[o] = "allocate"
  /\ port' = [port EXCEPT ![o] = FirstFree(usedPorts)]
  /\ usedPorts' = usedPorts \union {FirstFree(usedPorts)}
  /\ Advance(o)
  /\ UNCHANGED <<slug, status, tenants, deployment, job, host>>

\* resolveBlueprintsDir went well; the env file is written over.
WriteTenantEnv(o) ==
  /\ pc[o] = "env"
  /\ env' = [env EXCEPT ![slug[o]] = port[o]]
  /\ Advance(o)
  /\ UNCHANGED <<slug, status, port, usedPorts, tenants, deployment, job, stack, dumps, testDb>>

Subnet(p) == p % Octets

\* Docker refuses a port or an address range that another project holds.
HostTakes(s, p) ==
  \A t \in Slugs \ {s} : stack[t] # None => stack[t].port # p /\ Subnet(stack[t].port) # Subnet(p)

\* docker compose up -d.  A project whose volumes are there comes up with the
\* secrets of the call that made them, and never answers to those of this call.
ComposeUp(o) ==
  LET s == slug[o]
  IN /\ pc[o] = "up" /\ HostTakes(s, env[s])
     /\ stack' = [stack EXCEPT ![s] =
          [port |-> env[s], healthy |-> @ = None, objects |-> IF @ = None THEN {} ELSE @.objects]]
     /\ Advance(o)
     /\ UNCHANGED <<slug, status, port, usedPorts, tenants, deployment, job, env, dumps, testDb>>

\* What the console reaches at the port of the call.
Answers(o) ==
  LET s == slug[o] IN stack[s] # None /\ stack[s].port = port[o] /\ stack[s].healthy

WaitReady(o) ==
  /\ pc[o] = "wait" /\ Answers(o)
  /\ Advance(o)
  /\ UNCHANGED <<slug, status, port, usedPorts, tenants, deployment, job, host>>

\* Something made in authentik by the call for o.
Make(o, thing) ==
  /\ stack' = [stack EXCEPT ![slug[o]].objects = @ \union {thing}]
  /\ UNCHANGED <<env, dumps, testDb>>

\* The worker of the stack applies blakid-baseline.yaml, which makes the same
\* objects, in its own time.  A call that looks for one before and posts it after
\* is refused, and fails.
Blueprint(s) ==
  /\ stack[s] # None /\ stack[s].healthy
  /\ stack' = [stack EXCEPT ![s].objects = @ \union Enrolment]
  /\ UNCHANGED <<console, env, dumps, testDb>>

\* Fault: an answer other than 2xx is taken for success.
EnsureEnrolment_Unchecked(o) ==
  /\ pc[o] \in Enrolment /\ Answers(o)
  /\ Make(o, pc[o]) \/ UNCHANGED host
  /\ Advance(o)
  /\ UNCHANGED <<slug, status, port, usedPorts, tenants, deployment, job>>

\* Each stage, flow and binding is looked for, and made if it is not there.
EnsureEnrolment(o) ==
  /\ pc[o] \in Enrolment /\ Answers(o)
  /\ Make(o, pc[o])
  /\ Advance(o)
  /\ UNCHANGED <<slug, status, port, usedPorts, tenants, deployment, job>>

\* requireEnrolmentFlow: what lets the tenant be registered.
HasEnrolmentFlows(o) == Answers(o) /\ "flows" \in stack[slug[o]].objects

\* With its answer the tenant is registered, the deployment kept, the organisation
\* ready and the invitation of its administrator written, all in memory.
MarkReady(o) ==
  /\ pc[o] = "require" /\ HasEnrolmentFlows(o)
  /\ tenants' = tenants \union {o}
  /\ usedPorts' = usedPorts \union {port[o]}
  /\ deployment' = [deployment EXCEPT ![o] =
                       [port |-> port[o], restoreTest |-> "none"]]
  /\ status' = [status EXCEPT ![o] = "ready"]
  /\ Advance(o)
  /\ UNCHANGED <<slug, port, job, host>>

\* inviteOrganisationAdmin creates the identity, then the member in the store.
CreateAdminIdentity(o) ==
  /\ pc[o] = "identity" /\ Answers(o) /\ "admin" \notin stack[slug[o]].objects
  /\ Make(o, "admin")
  /\ Advance(o)
  /\ UNCHANGED <<slug, status, port, usedPorts, tenants, deployment, job>>

\* The events of the invitation and of the provisioning reach log and sink.
RecordProvisioned(o) ==
  /\ pc[o] = "record"
  /\ Advance(o)
  /\ UNCHANGED <<slug, status, port, usedPorts, tenants, deployment, job, host>>

\* Fault: waitFor has no deadline.
GivesUp_Never(o) == FALSE

\* waitFor gives up after 180 and after 120 seconds, a stack on its way or not.
GivesUp(o) == pc[o] = "wait"

\* What throws ends the call where it is, and nothing is undone: ssh or scp for
\* the blueprints, docker, a request to authentik, the deadline, the audit sink.
Fail(o) ==
  /\ \/ pc[o] \in {"env", "up", "require", "identity", "record"}
     \/ pc[o] \in Enrolment
     \/ GivesUp(o)
  /\ Goto(o, "failed")
  /\ UNCHANGED <<slug, status, port, usedPorts, tenants, deployment, job, host>>

Proceed(o) ==
  \/ AllocateHttpPort(o) \/ WriteTenantEnv(o) \/ ComposeUp(o) \/ WaitReady(o)
  \/ EnsureEnrolment(o) \/ MarkReady(o)
  \/ CreateAdminIdentity(o) \/ RecordProvisioned(o) \/ Fail(o)

----------------------------------------------------------------------------
(* The operations on a registered tenant.                                  *)

Running(o) == stack[slug[o]] # None

\* A usable pg_dump is written to disk.  (The time the store is told is left out.)
Backup(o) ==
  /\ o \in tenants /\ slug[o] \in Dumped /\ Running(o)
  /\ dumps' = dumps \union {slug[o]}
  /\ UNCHANGED <<console, env, stack, testDb>>

\* The latest dump is read, whatever stack it was made of, and one is made only if
\* there is none; what an earlier test left is dropped, and a DROP that fails is
\* ignored.
StartRestoreTest(j, o) ==
  LET s == slug[o]
  IN /\ job[j] = Idle /\ j = CHOOSE i \in Jobs : job[i] = Idle
     /\ o \in tenants /\ s \in Dumped
     /\ s \in dumps \/ Running(o)
     /\ dumps' = dumps \union {s}
     /\ \E left \in {testDb[s], "none"} : testDb' = [testDb EXCEPT ![s] = left]
     /\ job' = [job EXCEPT ![j] = [pc |-> "create", org |-> o]]
     /\ UNCHANGED <<slug, status, pc, port, usedPorts, tenants, deployment, env, stack>>

CreateTestDb(j) ==
  LET s == slug[job[j].org]
  IN /\ job[j].pc = "create" /\ Running(job[j].org) /\ testDb[s] = "none"
     /\ testDb' = [testDb EXCEPT ![s] = "empty"]
     /\ job' = [job EXCEPT ![j].pc = "load"]
     /\ UNCHANGED <<slug, status, pc, port, usedPorts, tenants, deployment, env, stack, dumps>>

\* ON_ERROR_STOP=1: a dump does not load where its tables are already.
LoadDump(j) ==
  LET s == slug[job[j].org]
  IN /\ job[j].pc = "load" /\ Running(job[j].org) /\ testDb[s] = "empty"
     /\ testDb' = [testDb EXCEPT ![s] = "loaded"]
     /\ job' = [job EXCEPT ![j].pc = "clean"]
     /\ UNCHANGED <<slug, status, pc, port, usedPorts, tenants, deployment, env, stack, dumps>>

\* The test database is dropped, and then the store is told.
PassRestoreTest(j) ==
  LET o == job[j].org
  IN /\ job[j].pc = "clean" /\ Running(o) /\ testDb[slug[o]] # "none"
     /\ testDb' = [testDb EXCEPT ![slug[o]] = "none"]
     /\ deployment' = [deployment EXCEPT ![o].restoreTest = "PASS"]
     /\ job' = [job EXCEPT ![j] = Idle]
     /\ UNCHANGED <<slug, status, pc, port, usedPorts, tenants, env, stack, dumps>>

\* A psql that fails throws, and leaves the test database as it is.
FailRestoreTest(j) ==
  /\ job[j] # Idle
  /\ job' = [job EXCEPT ![j] = Idle]
  /\ UNCHANGED <<slug, status, pc, port, usedPorts, tenants, deployment, host>>

\* Fault: the port may be given to the next organisation.
Teardown_FreesPort(o) ==
  /\ o \in tenants /\ Running(o)
  /\ stack' = [stack EXCEPT ![slug[o]] = None]
  /\ testDb' = [testDb EXCEPT ![slug[o]] = "none"]
  /\ usedPorts' = usedPorts \ {port[o]}
  /\ UNCHANGED <<slug, status, pc, port, tenants, deployment, job, env, dumps>>

\* docker compose down -v: containers and volumes.  The tenant stays registered,
\* and its directory, with the dumps, stays on the disk.
Teardown(o) ==
  /\ o \in tenants /\ Running(o)
  /\ stack' = [stack EXCEPT ![slug[o]] = None]
  /\ testDb' = [testDb EXCEPT ![slug[o]] = "none"]
  /\ UNCHANGED <<console, env, dumps>>

\* The console process ends and starts again; nothing reads the env files back.
Restart ==
  /\ slug' = NewConsole.slug /\ status' = NewConsole.status /\ pc' = NewConsole.pc
  /\ port' = NewConsole.port /\ usedPorts' = NewConsole.usedPorts
  /\ tenants' = NewConsole.tenants /\ deployment' = NewConsole.deployment
  /\ job' = NewConsole.job
  /\ UNCHANGED host

Next ==
  \/ \E o \in Orgs, name \in Names : InsertOrganisation(o, name)
  \/ \E o \in Orgs : Proceed(o) \/ Backup(o) \/ Teardown(o)
  \/ \E j \in Jobs, o \in Orgs : StartRestoreTest(j, o)
  \/ \E j \in Jobs : CreateTestDb(j) \/ LoadDump(j) \/ PassRestoreTest(j) \/ FailRestoreTest(j)
  \/ \E s \in Slugs : Blueprint(s)
  \/ Restart

\* A provisioning call is never abandoned: what it awaits answers, fails or is
\* given up.  Nobody has to restart, to back up or to tear down.
Fairness == \A o \in Orgs : WF_vars(Proceed(o))

Spec == Init /\ [][Next]_vars /\ Fairness

----------------------------------------------------------------------------

\* No two organisations of a console are given one port, however their calls
\* interleave (allocateHttpPort marks it used before anything is awaited).
PortsDisjoint ==
  \A o1, o2 \in Orgs : o1 # o2 /\ port[o1] # None => port[o1] # port[o2]

\* A registered tenant finds its own stack, and no other, at its port, and its
\* env file still says that port: teardown and failures of others included.
OwnStack ==
  \A o \in tenants :
    /\ env[slug[o]] = port[o]
    /\ \A s \in Slugs : stack[s] # None /\ stack[s].port = port[o] => s = slug[o]

\* An organisation shown ready has a tenant, a deployment at its port and, while
\* its stack is up, both enrolment flows with their stages bound; one whose
\* provisioning is reported has an administrator who can accept.
ReadyIsServed ==
  \A o \in Orgs : status[o] = "ready" =>
    /\ o \in tenants /\ deployment[o] # None /\ deployment[o].port = port[o]
    /\ Running(o) => Enrolment \subseteq stack[slug[o]].objects
    /\ Running(o) /\ pc[o] = "done" => "admin" \in stack[slug[o]].objects

\* Every provisioning call ends, if only by giving up.
ProvisioningSettles ==
  \A o \in Orgs : pc[o] # "idle" ~> pc[o] \in {"idle", "done", "failed"}

=============================================================================
