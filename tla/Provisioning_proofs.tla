------------------------ MODULE Provisioning_proofs ------------------------
(***************************************************************************)
(* Proofs about Provisioning, for any number of organisations, names,      *)
(* slugs and restore tests: whatever calls fail, overlap or are forgotten  *)
(* by a restart.                                                           *)
(***************************************************************************)
EXTENDS Provisioning, FiniteSetTheorems, WellFoundedInduction, TLAPS

USE ProvisioningAssumption, NoneAssumption

-----------------------------------------------------------------------------
(* The port that allocateHttpPort finds.                                   *)

LEMMA LeastOf ==
  ASSUME NEW S \in SUBSET Nat, S # {}
  PROVE  \E p \in S : \A q \in S : p <= q
<1>1. PICK p \in S : \A q \in S : <<q, p>> \notin OpToRel(<, Nat)
  BY NatLessThanWellFounded, WFMin
<1>2. \A q \in S : <<q, p>> \in Nat \X Nat
  OBVIOUS
<1>3. \A q \in S : ~ (q < p)
  BY <1>1, <1>2, Zenon DEF OpToRel
<1> QED
  BY <1>3

\* There are more ports than calls, so one is free.
LEMMA FreePort ==
  ASSUME NEW f \in [Orgs -> Ports \union {None}], NEW used \in SUBSET Ports,
         used \subseteq {f[o] : o \in Orgs}
  PROVE  FirstFree(used) \in Ports \ used
<1> DEFINE R == {f[o] : o \in Orgs}
<1>1. f \in Surjection(Orgs, R)
  BY DEF Surjection
<1>2. IsFiniteSet(R) /\ Cardinality(R) <= Cardinality(Orgs)
  BY <1>1, FS_Surjection
<1>3. IsFiniteSet(used) /\ Cardinality(used) <= Cardinality(R)
  BY <1>2, FS_Subset
<1>4. Cardinality(Orgs) \in Nat /\ Cardinality(R) \in Nat /\ Cardinality(used) \in Nat
  BY <1>2, <1>3, FS_CardinalityType
<1>5. Cardinality(Ports) = Cardinality(Orgs) + 1
  <2>1. StartPort \in Int /\ StartPort + Cardinality(Orgs) \in Int
    BY <1>4
  <2> QED
    BY <1>4, <2>1, FS_Interval DEF Ports
<1>6. Ports # used
  <2> HIDE DEF R
  <2> QED
    BY <1>2, <1>3, <1>4, <1>5
<1>7. Ports \subseteq Nat
  BY <1>4 DEF Ports
<1>8. \E p \in Ports \ used : \A q \in Ports \ used : p <= q
  BY <1>6, <1>7, LeastOf
<1> QED
  BY <1>8 DEF FirstFree

-----------------------------------------------------------------------------
(* Types.                                                                  *)

LEMMA StepFacts ==
  /\ Steps = {"allocate", "env", "up", "wait", "require", "identity", "record"} \union Enrolment
  /\ StepAfter["allocate"] = "env"       /\ StepAfter["env"] = "up"
  /\ StepAfter["up"] = "wait"            /\ StepAfter["wait"] = "stages"
  /\ StepAfter["stages"] = "flows"       /\ StepAfter["flows"] = "bindings"
  /\ StepAfter["bindings"] = "require"   /\ StepAfter["require"] = "identity"
  /\ StepAfter["identity"] = "record"    /\ StepAfter["record"] = "done"
BY DEF Steps, StepAfter, Enrolment

Points == {"idle", "done", "failed"} \union Steps

LEMMA GotoType ==
  ASSUME TypeOK, NEW o \in Orgs
  PROVE  /\ pc[o] \in Steps => StepAfter[pc[o]] \in Points
         /\ \A step \in Points : Goto(o, step) => pc' \in [Orgs -> Points]
BY StepFacts DEF TypeOK, Goto, Points, Enrolment

LEMMA SomeRows ==
  /\ None \notin Stack /\ None \notin Deployment /\ None \notin Ports /\ Idle \notin Job
  /\ \A d \in Deployment, p \in Ports : [port |-> p, restoreTest |-> "none"] \in Deployment
<1>1. None \notin Ports
  <2>1. Cardinality(Orgs) \in Nat
    BY FS_CardinalityType
  <2> QED
    BY <2>1 DEF Ports
<1> QED
  BY <1>1 DEF Deployment, Idle, Job

LEMMA TypeInit == Init => TypeOK
BY DEF Init, NewConsole, TypeOK

-----------------------------------------------------------------------------
(* The inductive invariant.                                                *)

\* Env file, backups and compose project are named by the slug, and no two
\* organisations of one console have the same.
OneSlugEach ==
  \A o1, o2 \in Orgs : o1 # o2 /\ slug[o1] # None => slug[o1] # slug[o2]

\* A call and what the console knows of its organisation.
CallsOK ==
  \A o \in Orgs :
    /\ pc[o] = "idle" <=> slug[o] = None
    /\ status[o] = "ready" <=> o \in tenants
    /\ pc[o] \in {"identity", "record", "done"} => o \in tenants
    /\ o \in tenants => pc[o] \in {"identity", "record", "done", "failed"}
    /\ port[o] = None <=> pc[o] \in {"idle", "allocate"}
    /\ o \in tenants => deployment[o] # None /\ deployment[o].port = port[o]

PortsOK == usedPorts = {port[o] : o \in Orgs} \ {None}

\* An organisation whose stack came up, and whose call did not fail before it was
\* registered.
Placed(o) ==
  o \in tenants \/ pc[o] \in {"wait", "stages", "flows", "bindings", "require"}

PlacesOK ==
  \A o \in Orgs :
    /\ pc[o] = "up" \/ Placed(o) => env[slug[o]] = port[o]
    /\ Placed(o) =>
         \A s \in Slugs : stack[s] # None /\ stack[s].port = port[o] => s = slug[o]

\* What was made in a stack that is still up: a call is past what it has seen to.
ObjectsOK ==
  \A o \in Orgs : pc[o] # "idle" /\ stack[slug[o]] # None =>
    /\ pc[o] \in {"flows", "bindings", "require"} => "stages" \in stack[slug[o]].objects
    /\ pc[o] \in {"bindings", "require"} => "flows" \in stack[slug[o]].objects
    /\ pc[o] = "require" => "bindings" \in stack[slug[o]].objects
    /\ o \in tenants => Enrolment \subseteq stack[slug[o]].objects
    /\ pc[o] \in {"record", "done"} => "admin" \in stack[slug[o]].objects

JobsOK ==
  \A j \in Jobs : job[j] # Idle => job[j].org \in tenants

IInv ==
  /\ TypeOK
  /\ PortsDisjoint /\ OneSlugEach
  /\ CallsOK /\ PortsOK /\ PlacesOK /\ ObjectsOK /\ JobsOK

LEMMA ProvisioningInit == Init => IInv
BY TypeInit DEF Init, NewConsole, IInv, PortsDisjoint, OneSlugEach,
   CallsOK, PortsOK, PlacesOK, Placed, ObjectsOK, JobsOK, Idle

LEMMA MakeType ==
  ASSUME TypeOK, NEW o \in Orgs, slug[o] \in Slugs, stack[slug[o]] # None,
         NEW thing \in Enrolment \union {"admin"}, Make(o, thing)
  PROVE  stack' \in [Slugs -> Stack \union {None}]
<1>1. [stack[slug[o]] EXCEPT !.objects = @ \union {thing}] \in Stack
  BY DEF TypeOK, Stack
<1> QED
  BY <1>1 DEF Make, TypeOK

\* What a call of an organisation finds in its row while it is under way.
LEMMA Rows ==
  ASSUME IInv, NEW o \in Orgs, pc[o] # "idle"
  PROVE  /\ slug[o] \in Slugs
         /\ pc[o] # "allocate" => port[o] \in Ports
BY DEF IInv, CallsOK, TypeOK

LEMMA SomeSlug == None \notin Slugs
OBVIOUS

\* The stack of t has one object more, and is otherwise as it was.
Makes(t, thing) ==
  /\ \A u \in Slugs \ {t} : stack'[u] = stack[u]
  /\ stack'[t] # None /\ stack'[t].port = stack[t].port
  /\ stack'[t].objects = stack[t].objects \union {thing}

LEMMA MakesOne ==
  ASSUME TypeOK, NEW o \in Orgs, slug[o] \in Slugs, stack[slug[o]] # None,
         NEW thing \in Enrolment \union {"admin"}, Make(o, thing)
  PROVE  Makes(slug[o], thing)
<1>1. stack[slug[o]] \in Stack /\ [stack[slug[o]] EXCEPT !.objects = @ \union {thing}] \in Stack
  BY DEF TypeOK, Stack
<1>2. None \notin Stack
  BY SomeRows
<1> QED
  BY <1>1, <1>2 DEF Make, Makes, TypeOK, Stack

LEMMA ProvisioningTypeStep == IInv /\ [Next]_vars => TypeOK'
<1> SUFFICES ASSUME IInv, [Next]_vars PROVE TypeOK'
  OBVIOUS
<1> USE DEF IInv
<1>1. CASE UNCHANGED vars
  BY <1>1 DEF vars, console, host, TypeOK
<1>2. ASSUME NEW o \in Orgs, NEW name \in Names, InsertOrganisation(o, name) PROVE TypeOK'
  <2>1. Normal[name] \in Slugs
    OBVIOUS
  <2>2. pc' \in [Orgs -> Points]
    BY <1>2, GotoType, StepFacts DEF InsertOrganisation, Points
  <2> QED
    BY <1>2, <2>1, <2>2 DEF InsertOrganisation, TypeOK, host, Points
<1>3. ASSUME NEW o \in Orgs, Proceed(o) PROVE TypeOK'
  <2>1. CASE AllocateHttpPort(o)
    <3>1. FirstFree(usedPorts) \in Ports
      BY FreePort DEF TypeOK, PortsOK
    <3>2. pc' \in [Orgs -> Points]
      BY <2>1, GotoType, StepFacts DEF AllocateHttpPort, Advance
    <3> QED
      BY <2>1, <3>1, <3>2 DEF AllocateHttpPort, TypeOK, host, Points
  <2>2. CASE WriteTenantEnv(o)
    <3>1. slug[o] \in Slugs /\ port[o] \in Ports
      BY <2>2, Rows DEF WriteTenantEnv
    <3>2. pc' \in [Orgs -> Points]
      BY <2>2, GotoType, StepFacts DEF WriteTenantEnv, Advance
    <3> QED
      BY <2>2, <3>1, <3>2 DEF WriteTenantEnv, TypeOK, Points
  <2>3. CASE ComposeUp(o)
    <3>1. slug[o] \in Slugs /\ env[slug[o]] = port[o] /\ port[o] \in Ports
      BY <2>3, Rows DEF ComposeUp, PlacesOK
    <3>2. pc' \in [Orgs -> Points]
      BY <2>3, GotoType, StepFacts DEF ComposeUp, Advance
    <3>3. [port |-> env[slug[o]], healthy |-> stack[slug[o]] = None,
           objects |-> IF stack[slug[o]] = None THEN {} ELSE stack[slug[o]].objects] \in Stack
      BY <3>1 DEF Stack, TypeOK
    <3> QED
      BY <2>3, <3>1, <3>2, <3>3 DEF ComposeUp, TypeOK, Points
  <2>4. CASE WaitReady(o)
    <3>1. pc' \in [Orgs -> Points]
      BY <2>4, GotoType, StepFacts DEF WaitReady, Advance
    <3> QED
      BY <2>4, <3>1 DEF WaitReady, TypeOK, host, Points
  <2>5. CASE EnsureEnrolment(o)
    <3>1. pc' \in [Orgs -> Points]
      BY <2>5, GotoType, StepFacts DEF EnsureEnrolment, Advance
    <3>2. stack' \in [Slugs -> Stack \union {None}]
      <4>1. slug[o] \in Slugs /\ stack[slug[o]] # None /\ pc[o] \in Enrolment /\ Make(o, pc[o])
        BY <2>5, Rows DEF EnsureEnrolment, Enrolment, Answers
      <4> QED
        BY <4>1, MakeType
    <3> QED
      BY <2>5, <3>1, <3>2 DEF EnsureEnrolment, Make, TypeOK, Points
  <2>6. CASE MarkReady(o)
    <3>1. pc' \in [Orgs -> Points]
      BY <2>6, GotoType, StepFacts DEF MarkReady, Advance
    <3>2. port[o] \in Ports
      BY <2>6, Rows DEF MarkReady
    <3>3. [port |-> port[o], restoreTest |-> "none"] \in Deployment
      BY <3>2 DEF Deployment
    <3> QED
      BY <2>6, <3>1, <3>2, <3>3 DEF MarkReady, TypeOK, host, Points
  <2>7. CASE CreateAdminIdentity(o)
    <3>1. pc' \in [Orgs -> Points]
      BY <2>7, GotoType, StepFacts DEF CreateAdminIdentity, Advance
    <3>2. stack' \in [Slugs -> Stack \union {None}]
      <4>1. slug[o] \in Slugs /\ stack[slug[o]] # None /\ Make(o, "admin")
        BY <2>7, Rows DEF CreateAdminIdentity, Answers
      <4> QED
        BY <4>1, MakeType
    <3> QED
      BY <2>7, <3>1, <3>2 DEF CreateAdminIdentity, Make, TypeOK, Points
  <2>8. CASE RecordProvisioned(o)
    <3>1. pc' \in [Orgs -> Points]
      BY <2>8, GotoType, StepFacts DEF RecordProvisioned, Advance
    <3> QED
      BY <2>8, <3>1 DEF RecordProvisioned, TypeOK, host, Points
  <2>9. CASE Fail(o)
    <3>1. pc' \in [Orgs -> Points]
      BY <2>9, GotoType DEF Fail, Points
    <3> QED
      BY <2>9, <3>1 DEF Fail, TypeOK, host, Points
  <2> QED
    BY <1>3, <2>1, <2>2, <2>3, <2>4, <2>5, <2>6, <2>7, <2>8, <2>9 DEF Proceed
<1>4. ASSUME NEW o \in Orgs, Backup(o) \/ Teardown(o) PROVE TypeOK'
  BY <1>4 DEF Backup, Teardown, Running, TypeOK, console
<1>5. ASSUME NEW j \in Jobs, NEW o \in Orgs, StartRestoreTest(j, o) PROVE TypeOK'
  <2>1. [pc |-> "create", org |-> o] \in Job
    BY DEF Job
  <2>2. slug[o] \in Slugs
    BY <1>5, Rows DEF StartRestoreTest, CallsOK
  <2> QED
    BY <1>5, <2>1, <2>2 DEF StartRestoreTest, TypeOK
<1>6. ASSUME NEW j \in Jobs,
             CreateTestDb(j) \/ LoadDump(j) \/ PassRestoreTest(j) \/ FailRestoreTest(j)
      PROVE  TypeOK'
  <2>1. job[j] \in Job
    BY <1>6 DEF CreateTestDb, LoadDump, PassRestoreTest, FailRestoreTest, TypeOK, Idle
  <2>2. CASE CreateTestDb(j)
    BY <2>1, <2>2 DEF CreateTestDb, TypeOK, Job
  <2>3. CASE LoadDump(j)
    BY <2>1, <2>3 DEF LoadDump, TypeOK, Job
  <2>4. CASE PassRestoreTest(j)
    <3> DEFINE o == job[j].org
    <3>1. o \in tenants /\ o \in Orgs
      BY <2>1, SomeRows DEF JobsOK, Job
    <3>2. deployment[o] \in Deployment
      BY <3>1 DEF CallsOK, TypeOK
    <3>3. [deployment[o] EXCEPT !.restoreTest = "PASS"] \in Deployment
      BY <3>2 DEF Deployment
    <3> QED
      BY <2>4, <3>1, <3>3 DEF PassRestoreTest, TypeOK
  <2>5. CASE FailRestoreTest(j)
    BY <2>5 DEF FailRestoreTest, TypeOK, host
  <2> QED
    BY <1>6, <2>2, <2>3, <2>4, <2>5
<1>7. ASSUME NEW s \in Slugs, Blueprint(s) PROVE TypeOK'
  <2>1. stack[s] \in Stack
    BY <1>7 DEF Blueprint, TypeOK
  <2>2. [stack[s] EXCEPT !.objects = @ \union Enrolment] \in Stack
    BY <2>1 DEF Stack
  <2> QED
    BY <1>7, <2>2 DEF Blueprint, TypeOK, console
<1>8. CASE Restart
  BY <1>8 DEF Restart, NewConsole, TypeOK, host
<1> QED
  BY <1>1, <1>2, <1>3, <1>4, <1>5, <1>6, <1>7, <1>8 DEF Next

-----------------------------------------------------------------------------
(* Every step keeps the invariant.                                         *)

\* A step of the call for o that changes neither rows nor the host keeps whatever
\* is not about where that call is.
LEMMA OnlyPc ==
  ASSUME IInv, TypeOK', NEW o \in Orgs,
         UNCHANGED <<slug, status, port, usedPorts, tenants, deployment, job, host>>,
         \A q \in Orgs \ {o} : pc'[q] = pc[q]
  PROVE  /\ PortsDisjoint' /\ OneSlugEach' /\ PortsOK' /\ JobsOK'
         /\ (/\ pc[o] \notin {"idle", "allocate"} /\ pc'[o] \notin {"idle", "allocate"}
             /\ pc'[o] \in {"identity", "record", "done"} => o \in tenants
             /\ o \in tenants => pc'[o] \in {"identity", "record", "done", "failed"})
            => CallsOK'
BY DEF IInv, PortsDisjoint, OneSlugEach, PortsOK, JobsOK, CallsOK, host

LEMMA ProceedInv ==
  ASSUME IInv, TypeOK', NEW o \in Orgs, Proceed(o)
  PROVE  IInv'
<1> USE DEF IInv
<1> DEFINE s == slug[o]
<1>0. \A q \in Orgs \ {o} : slug[q] = s => s = None
  BY DEF OneSlugEach
<1>1. CASE AllocateHttpPort(o)
  <2> DEFINE p == FirstFree(usedPorts)
  <2>1. p \in Ports \ usedPorts
    BY FreePort DEF TypeOK, PortsOK
  <2>2. /\ \A q \in Orgs : port'[q] = IF q = o THEN p ELSE port[q]
        /\ \A q \in Orgs : pc'[q] = IF q = o THEN "env" ELSE pc[q]
        /\ usedPorts' = usedPorts \union {p} /\ pc[o] = "allocate"
        /\ UNCHANGED <<slug, status, tenants, deployment, job, host>>
    BY <1>1, StepFacts DEF AllocateHttpPort, Advance, Goto, TypeOK
  <2>3. port[o] = None
    BY <2>2 DEF CallsOK
  <2>4. PortsOK' /\ PortsDisjoint'
    <3>1. \A q \in Orgs : port[q] # None => port[q] \in usedPorts
      BY DEF PortsOK
    <3>2. PortsDisjoint'
      BY <2>1, <2>2, <3>1 DEF PortsDisjoint
    <3>3. usedPorts' \subseteq {port'[q] : q \in Orgs} \ {None}
      BY <2>1, <2>2, <2>3, SomeRows DEF PortsOK
    <3>4. {port'[q] : q \in Orgs} \ {None} \subseteq usedPorts'
      BY <2>2, <3>1
    <3> QED
      BY <3>2, <3>3, <3>4 DEF PortsOK
  <2>5. CallsOK'
    BY <2>1, <2>2, SomeRows DEF CallsOK
  <2>6. o \notin tenants
    BY <2>2 DEF CallsOK
  <2>7. PlacesOK'
    BY <2>2, <2>6 DEF PlacesOK, Placed, host
  <2>8. ObjectsOK'
    BY <2>2, <2>6 DEF ObjectsOK, host
  <2> QED
    BY <2>2, <2>4, <2>5, <2>7, <2>8
       DEF OneSlugEach, JobsOK, host
<1>2. CASE WriteTenantEnv(o)
  <2>1. /\ \A q \in Orgs : pc'[q] = IF q = o THEN "up" ELSE pc[q]
        /\ s \in Slugs /\ pc[o] = "env"
        /\ \A t \in Slugs : env'[t] = IF t = s THEN port[o] ELSE env[t]
        /\ UNCHANGED <<slug, status, port, usedPorts, tenants, deployment, job, stack, dumps, testDb>>
    BY <1>2, StepFacts, Rows DEF WriteTenantEnv, Advance, Goto, TypeOK
  <2>2. CallsOK'
    BY <2>1 DEF CallsOK
  <2>3. o \notin tenants
    BY <2>1 DEF CallsOK
  <2>4. PlacesOK'
    <3> SUFFICES ASSUME NEW q \in Orgs
                 PROVE  /\ (pc[q] = "up" \/ Placed(q))' => env'[slug[q]] = port[q]
                        /\ Placed(q)' => \A t \in Slugs :
                             stack[t] # None /\ stack[t].port = port[q] => t = slug[q]
      BY <2>1 DEF PlacesOK
    <3>1. CASE q = o
      BY <2>1, <2>3, <3>1 DEF Placed
    <3>2. CASE q # o
      <4>1. (pc[q] = "up" \/ Placed(q))' => pc[q] = "up" \/ Placed(q)
        BY <2>1, <3>2 DEF Placed
      <4>2. Placed(q)' => Placed(q)
        BY <2>1, <3>2 DEF Placed
      <4>3. pc[q] = "up" \/ Placed(q) => slug[q] \in Slugs /\ slug[q] # s
        BY <1>0, <2>1, <3>2, SomeSlug DEF Placed, CallsOK, TypeOK
      <4> QED
        BY <2>1, <4>1, <4>2, <4>3 DEF PlacesOK
    <3> QED
      BY <3>1, <3>2
  <2>5. ObjectsOK'
    BY <2>1, <2>3 DEF ObjectsOK
  <2> QED
    BY <2>1, <2>2, <2>4, <2>5
       DEF PortsDisjoint, OneSlugEach, PortsOK, JobsOK
<1>3. CASE ComposeUp(o)
  <2>1. /\ \A q \in Orgs : pc'[q] = IF q = o THEN "wait" ELSE pc[q]
        /\ s \in Slugs /\ pc[o] = "up" /\ HostTakes(s, env[s]) /\ env[s] = port[o]
        /\ \A t \in Slugs \ {s} : stack'[t] = stack[t]
        /\ stack'[s].port = port[o]
        /\ UNCHANGED <<slug, status, port, usedPorts, tenants, deployment, job, env, dumps, testDb>>
    BY <1>3, StepFacts, Rows DEF ComposeUp, Advance, Goto, TypeOK, PlacesOK
  <2>2. CallsOK'
    BY <2>1 DEF CallsOK
  <2>3. o \notin tenants /\ port[o] \in Ports
    BY <2>1, Rows DEF CallsOK
  <2>4. PlacesOK'
    <3> SUFFICES ASSUME NEW q \in Orgs
                 PROVE  /\ (pc[q] = "up" \/ Placed(q))' => env[slug[q]] = port[q]
                        /\ Placed(q)' => \A t \in Slugs :
                             stack'[t] # None /\ stack'[t].port = port[q] => t = slug[q]
      BY <2>1 DEF PlacesOK
    <3>1. CASE q = o
      BY <2>1, <3>1 DEF HostTakes
    <3>2. CASE q # o
      <4>1. /\ (pc[q] = "up" \/ Placed(q))' => pc[q] = "up" \/ Placed(q)
            /\ Placed(q)' => Placed(q)
        BY <2>1, <3>2 DEF Placed
      <4>2. port[q] # port[o]
        BY <2>3, <3>2, SomeRows DEF PortsDisjoint
      <4> QED
        BY <2>1, <4>1, <4>2 DEF PlacesOK
    <3> QED
      BY <3>1, <3>2
  <2>5. ObjectsOK'
    <3> SUFFICES ASSUME NEW q \in Orgs, pc'[q] # "idle", q # o
                 PROVE  stack'[slug[q]] = stack[slug[q]] /\ pc'[q] = pc[q]
      BY <2>1, <2>3 DEF ObjectsOK
    <3>1. slug[q] \in Slugs \ {s}
      BY <1>0, <2>1, Rows, SomeSlug
    <3> QED
      BY <2>1, <3>1
  <2> QED
    BY <2>1, <2>2, <2>4, <2>5
       DEF PortsDisjoint, OneSlugEach, PortsOK, JobsOK
<1>4. CASE WaitReady(o)
  <2>1. /\ \A q \in Orgs : pc'[q] = IF q = o THEN "stages" ELSE pc[q]
        /\ pc[o] = "wait"
        /\ UNCHANGED <<slug, status, port, usedPorts, tenants, deployment, job, host>>
    BY <1>4, StepFacts DEF WaitReady, Advance, Goto, TypeOK
  <2>2. o \notin tenants
    BY <2>1 DEF CallsOK
  <2>3. PlacesOK' /\ ObjectsOK'
    BY <2>1, <2>2 DEF PlacesOK, Placed, ObjectsOK, host
  <2> QED
    BY <2>1, <2>2, <2>3, OnlyPc
<1>5. CASE EnsureEnrolment(o)
  <2>1. /\ s \in Slugs /\ stack[s] # None /\ pc[o] \in Enrolment
        /\ \A q \in Orgs : pc'[q] = IF q = o THEN StepAfter[pc[o]] ELSE pc[q]
        /\ UNCHANGED <<slug, status, port, usedPorts, tenants, deployment, job, env, dumps, testDb>>
    BY <1>5, Rows DEF EnsureEnrolment, Make, Advance, Goto, TypeOK, Answers, Enrolment
  <2>2. Makes(s, pc[o])
    BY <1>5, <2>1, MakesOne DEF EnsureEnrolment
  <2>3. o \notin tenants
    BY <2>1 DEF CallsOK, Enrolment
  <2>4. CallsOK'
    BY <2>1, <2>3, StepFacts DEF CallsOK, Enrolment
  <2>5. PlacesOK'
    BY <2>1, <2>2, StepFacts DEF PlacesOK, Placed, Makes, Enrolment
  <2>6. ObjectsOK'
    <3> SUFFICES ASSUME NEW q \in Orgs, pc'[q] # "idle", stack'[slug[q]] # None
                 PROVE  /\ pc'[q] \in {"flows", "bindings", "require"} => "stages" \in stack'[slug[q]].objects
                        /\ pc'[q] \in {"bindings", "require"} => "flows" \in stack'[slug[q]].objects
                        /\ pc'[q] = "require" => "bindings" \in stack'[slug[q]].objects
                        /\ q \in tenants => Enrolment \subseteq stack'[slug[q]].objects
                        /\ pc'[q] \in {"record", "done"} => "admin" \in stack'[slug[q]].objects
      BY <2>1 DEF ObjectsOK
    <3>1. CASE q = o
      BY <2>1, <2>2, <2>3, <3>1, StepFacts DEF ObjectsOK, Makes, Enrolment
    <3>2. CASE q # o
      BY <2>1, <2>2, <3>2, Rows DEF ObjectsOK, Makes
    <3> QED
      BY <3>1, <3>2
  <2> QED
    BY <2>1, <2>4, <2>5, <2>6
       DEF PortsDisjoint, OneSlugEach, PortsOK, JobsOK
<1>6. CASE MarkReady(o)
  <2>1. /\ pc[o] = "require" /\ HasEnrolmentFlows(o)
        /\ \A q \in Orgs : pc'[q] = IF q = o THEN "identity" ELSE pc[q]
        /\ \A q \in Orgs : status'[q] = IF q = o THEN "ready" ELSE status[q]
        /\ \A q \in Orgs : deployment'[q] = IF q = o
             THEN [port |-> port[o], restoreTest |-> "none"] ELSE deployment[q]
        /\ tenants' = tenants \union {o} /\ usedPorts' = usedPorts \union {port[o]}
        /\ UNCHANGED <<slug, port, job, host>>
    BY <1>6, StepFacts DEF MarkReady, Advance, Goto, TypeOK
  <2>2. port[o] \in Ports
    BY <2>1, Rows
  <2>3. PortsOK'
    BY <2>1, <2>2, SomeRows DEF PortsOK
  <2>4. [port |-> port[o], restoreTest |-> "none"] # None
    <3>1. [port |-> port[o], restoreTest |-> "none"] \in Deployment
      BY <2>2 DEF Deployment
    <3> QED
      BY <3>1, SomeRows
  <2>5. CallsOK'
    BY <2>1, <2>2, <2>4 DEF CallsOK
  <2>6. PlacesOK'
    BY <2>1 DEF PlacesOK, Placed, host
  <2>7. ObjectsOK'
    BY <2>1 DEF ObjectsOK, Enrolment, host
  <2> QED
    BY <2>1, <2>3, <2>5, <2>6, <2>7 DEF PortsDisjoint, OneSlugEach, JobsOK, host
<1>7. CASE CreateAdminIdentity(o)
  <2>1. /\ s \in Slugs /\ stack[s] # None /\ pc[o] = "identity"
        /\ \A q \in Orgs : pc'[q] = IF q = o THEN "record" ELSE pc[q]
        /\ UNCHANGED <<slug, status, port, usedPorts, tenants, deployment, job, env, dumps, testDb>>
    BY <1>7, Rows, StepFacts DEF CreateAdminIdentity, Make, Advance, Goto, TypeOK, Answers
  <2>2. Makes(s, "admin")
    BY <1>7, <2>1, MakesOne DEF CreateAdminIdentity
  <2>3. CallsOK'
    BY <2>1 DEF CallsOK
  <2>4. PlacesOK'
    BY <2>1, <2>2 DEF PlacesOK, Placed, Makes
  <2>5. ObjectsOK'
    <3> SUFFICES ASSUME NEW q \in Orgs, pc'[q] # "idle", stack'[slug[q]] # None
                 PROVE  /\ pc'[q] \in {"flows", "bindings", "require"} => "stages" \in stack'[slug[q]].objects
                        /\ pc'[q] \in {"bindings", "require"} => "flows" \in stack'[slug[q]].objects
                        /\ pc'[q] = "require" => "bindings" \in stack'[slug[q]].objects
                        /\ q \in tenants => Enrolment \subseteq stack'[slug[q]].objects
                        /\ pc'[q] \in {"record", "done"} => "admin" \in stack'[slug[q]].objects
      BY <2>1 DEF ObjectsOK
    <3>1. CASE q = o
      BY <2>1, <2>2, <3>1 DEF ObjectsOK, Makes
    <3>2. CASE q # o
      BY <2>1, <2>2, <3>2, Rows DEF ObjectsOK, Makes
    <3> QED
      BY <3>1, <3>2
  <2> QED
    BY <2>1, <2>3, <2>4, <2>5
       DEF PortsDisjoint, OneSlugEach, PortsOK, JobsOK
<1>8. CASE RecordProvisioned(o)
  <2>1. /\ \A q \in Orgs : pc'[q] = IF q = o THEN "done" ELSE pc[q]
        /\ pc[o] = "record"
        /\ UNCHANGED <<slug, status, port, usedPorts, tenants, deployment, job, host>>
    BY <1>8, StepFacts DEF RecordProvisioned, Advance, Goto, TypeOK
  <2>2. o \in tenants
    BY <2>1 DEF CallsOK
  <2>3. PlacesOK' /\ ObjectsOK'
    BY <2>1 DEF PlacesOK, Placed, ObjectsOK, host
  <2> QED
    BY <2>1, <2>2, <2>3, OnlyPc
<1>9. CASE Fail(o)
  <2>1. /\ \A q \in Orgs : pc'[q] = IF q = o THEN "failed" ELSE pc[q]
        /\ pc[o] \notin {"idle", "allocate"}
        /\ UNCHANGED <<slug, status, port, usedPorts, tenants, deployment, job, host>>
    BY <1>9 DEF Fail, GivesUp, Goto, TypeOK, Enrolment
  <2>2. PlacesOK' /\ ObjectsOK'
    BY <2>1 DEF PlacesOK, Placed, ObjectsOK, host
  <2> QED
    BY <2>1, <2>2, OnlyPc
<1> QED
  BY <1>1, <1>2, <1>3, <1>4, <1>5, <1>6, <1>7, <1>8, <1>9 DEF Proceed

LEMMA RestoreInv ==
  ASSUME IInv, TypeOK', NEW j \in Jobs,
         \/ \E o \in Orgs : StartRestoreTest(j, o)
         \/ CreateTestDb(j) \/ LoadDump(j) \/ PassRestoreTest(j) \/ FailRestoreTest(j)
  PROVE  IInv'
<1> USE DEF IInv
<1>1. UNCHANGED <<slug, status, pc, port, usedPorts, tenants, env, stack>>
  BY DEF StartRestoreTest, CreateTestDb, LoadDump, PassRestoreTest, FailRestoreTest, host
<1>2. PortsDisjoint' /\ OneSlugEach' /\ PortsOK' /\ PlacesOK' /\ ObjectsOK'
  BY <1>1 DEF PortsDisjoint, OneSlugEach, PortsOK, PlacesOK, Placed, ObjectsOK
<1>3. ASSUME deployment' = deployment,
             \A k \in Jobs \ {j} : job'[k] = job[k],
             job'[j] = Idle \/ job'[j].org \in tenants
      PROVE  CallsOK' /\ JobsOK'
  BY <1>1, <1>3 DEF CallsOK, JobsOK
<1>4. ASSUME NEW o \in Orgs, StartRestoreTest(j, o)
      PROVE  CallsOK' /\ JobsOK'
  <2>1. /\ job'[j] = [pc |-> "create", org |-> o]
        /\ \A k \in Jobs \ {j} : job'[k] = job[k]
        /\ o \in tenants /\ deployment' = deployment
    BY <1>4 DEF StartRestoreTest, TypeOK
  <2> QED
    BY <1>3, <2>1
<1>5. ASSUME job[j] # Idle PROVE job[j] \in Job /\ job[j].org \in tenants
  BY <1>5 DEF TypeOK, JobsOK
<1>6. CASE CreateTestDb(j)
  <2>1. job[j] # Idle
    BY <1>6 DEF CreateTestDb, Idle
  <2>2. /\ job'[j].pc = "load" /\ job'[j].org = job[j].org
        /\ \A k \in Jobs \ {j} : job'[k] = job[k]
        /\ deployment' = deployment
    BY <1>5, <1>6, <2>1 DEF CreateTestDb, TypeOK, Job
  <2> QED
    BY <1>2, <1>3, <1>5, <2>1, <2>2
<1>7. CASE LoadDump(j)
  <2>1. job[j] # Idle
    BY <1>7 DEF LoadDump, Idle
  <2>2. /\ job'[j].pc = "clean" /\ job'[j].org = job[j].org
        /\ \A k \in Jobs \ {j} : job'[k] = job[k]
        /\ deployment' = deployment
    BY <1>5, <1>7, <2>1 DEF LoadDump, TypeOK, Job
  <2> QED
    BY <1>2, <1>3, <1>5, <2>1, <2>2
<1>8. CASE PassRestoreTest(j)
  <2> DEFINE o == job[j].org
  <2>1. job[j] # Idle
    BY <1>8 DEF PassRestoreTest, Idle
  <2>2. o \in tenants /\ o \in Orgs
    BY <1>5, <2>1 DEF Job
  <2>3. deployment[o] \in Deployment
    BY <2>2 DEF CallsOK, TypeOK
  <2>4. /\ job'[j] = Idle /\ \A k \in Jobs \ {j} : job'[k] = job[k]
        /\ \A q \in Orgs \ {o} : deployment'[q] = deployment[q]
        /\ deployment'[o] = [deployment[o] EXCEPT !.restoreTest = "PASS"]
    BY <1>8, <2>2 DEF PassRestoreTest, TypeOK
  <2>5. deployment'[o] \in Deployment /\ deployment'[o].port = deployment[o].port
    BY <2>3, <2>4 DEF Deployment
  <2>6. CallsOK'
    <3>1. \A q \in Orgs : /\ deployment[q] # None => deployment'[q] # None
                           /\ deployment'[q].port = deployment[q].port
      <4>1. deployment[o] # None /\ deployment'[o] # None
        BY <2>3, <2>5, SomeRows
      <4> QED
        BY <2>4, <2>5, <4>1
    <3>2. \A q \in Orgs :
            q \in tenants => deployment'[q] # None /\ deployment'[q].port = port[q]
      BY <3>1 DEF CallsOK
    <3> HIDE DEF o
    <3> QED
      BY <1>1, <3>2 DEF CallsOK
  <2>7. JobsOK'
    BY <1>1, <2>2, <2>4 DEF JobsOK, Idle, TypeOK
  <2> QED
    BY <1>2, <2>6, <2>7
<1>9. CASE FailRestoreTest(j)
  <2>1. /\ job'[j] = Idle /\ \A k \in Jobs \ {j} : job'[k] = job[k]
        /\ deployment' = deployment
    BY <1>9 DEF FailRestoreTest, TypeOK
  <2> QED
    BY <1>2, <1>3, <2>1 DEF Idle
<1> QED
  BY <1>2, <1>4, <1>6, <1>7, <1>8, <1>9

LEMMA ProvisioningStep == IInv /\ [Next]_vars => IInv'
<1> SUFFICES ASSUME IInv, [Next]_vars PROVE IInv'
  OBVIOUS
<1>0. TypeOK'
  BY ProvisioningTypeStep
<1>1. CASE UNCHANGED vars
  BY <1>0, <1>1 DEF vars, console, host, IInv, PortsDisjoint, OneSlugEach,
     CallsOK, PortsOK, PlacesOK, Placed, ObjectsOK, JobsOK
<1>2. ASSUME NEW o \in Orgs, NEW name \in Names, InsertOrganisation(o, name) PROVE IInv'
  <2> DEFINE s == Normal[name]
  <2>1. /\ s \in Slugs /\ pc[o] = "idle" /\ SlugFree(s)
        /\ \A q \in Orgs : slug'[q] = IF q = o THEN s ELSE slug[q]
        /\ \A q \in Orgs : status'[q] = IF q = o THEN "provisioning" ELSE status[q]
        /\ \A q \in Orgs : pc'[q] = IF q = o THEN "allocate" ELSE pc[q]
        /\ UNCHANGED <<port, usedPorts, tenants, deployment, job, host>>
    BY <1>2 DEF InsertOrganisation, Goto, IInv, TypeOK
  <2>2. o \notin tenants
    BY <2>1 DEF IInv, CallsOK
  <2>3. OneSlugEach'
    BY <2>1 DEF IInv, OneSlugEach, SlugFree
  <2>4. CallsOK'
    BY <2>1, <2>2, SomeSlug DEF IInv, CallsOK
  <2>5. PlacesOK' /\ ObjectsOK'
    BY <2>1, <2>2 DEF IInv, PlacesOK, Placed, ObjectsOK, host
  <2>6. JobsOK'
    <3>1. \A q \in tenants : q \in Orgs /\ q # o /\ slug'[q] = slug[q]
      BY <2>1, <2>2 DEF IInv, TypeOK
    <3> QED
      BY <2>1, <3>1 DEF IInv, JobsOK, host
  <2> QED
    BY <1>0, <2>1, <2>3, <2>4, <2>5, <2>6 DEF IInv, PortsDisjoint, PortsOK
<1>3. ASSUME NEW o \in Orgs, Proceed(o) PROVE IInv'
  BY <1>0, <1>3, ProceedInv
<1>4. ASSUME NEW o \in Orgs, Backup(o) PROVE IInv'
  BY <1>0, <1>4 DEF Backup, console, IInv, PortsDisjoint, OneSlugEach,
     CallsOK, PortsOK, PlacesOK, Placed, ObjectsOK, JobsOK
<1>5. ASSUME NEW o \in Orgs, Teardown(o) PROVE IInv'
  <2>1. /\ UNCHANGED <<console, env>>
        /\ \A s \in Slugs : stack'[s] = IF s = slug[o] THEN None ELSE stack[s]
    BY <1>5 DEF Teardown, IInv, TypeOK
  <2>2. \A q \in Orgs : pc[q] # "idle" => slug[q] \in Slugs
    BY Rows
  <2>3. ObjectsOK'
    BY <2>1, <2>2 DEF IInv, ObjectsOK, console
  <2>4. PlacesOK'
    BY <2>1 DEF IInv, PlacesOK, Placed, console
  <2> QED
    BY <1>0, <2>1, <2>3, <2>4 DEF console, IInv, PortsDisjoint, OneSlugEach,
       CallsOK, PortsOK, JobsOK
<1>6. ASSUME NEW s \in Slugs, Blueprint(s) PROVE IInv'
  <2>1. /\ UNCHANGED <<console, env, dumps>>
        /\ \A t \in Slugs \ {s} : stack'[t] = stack[t]
        /\ stack[s] # None /\ stack'[s].port = stack[s].port
        /\ stack'[s].objects = stack[s].objects \union Enrolment
    <3>1. stack[s] \in Stack
      BY <1>6 DEF Blueprint, IInv, TypeOK
    <3> QED
      BY <1>6, <3>1 DEF Blueprint, IInv, TypeOK, Stack
  <2>2. \A q \in Orgs : pc[q] # "idle" => slug[q] \in Slugs
    BY Rows
  <2>3. ObjectsOK'
    BY <2>1, <2>2 DEF IInv, ObjectsOK, console
  <2>4. PlacesOK'
    BY <2>1 DEF IInv, PlacesOK, Placed, console
  <2> QED
    BY <1>0, <2>1, <2>3, <2>4 DEF console, IInv, PortsDisjoint, OneSlugEach,
       CallsOK, PortsOK, JobsOK
<1>7. CASE Restart
  BY <1>0, <1>7 DEF Restart, NewConsole, IInv, PortsDisjoint, OneSlugEach,
     CallsOK, PortsOK, PlacesOK, Placed, ObjectsOK, JobsOK, Idle
<1> QED
  BY <1>1, <1>2, <1>3, <1>4, <1>5, <1>6, <1>7, RestoreInv, <1>0 DEF Next

LEMMA ProvisioningInvariant == Spec => []IInv
BY ProvisioningInit, ProvisioningStep, PTL DEF Spec

-----------------------------------------------------------------------------
(* The theorems.                                                           *)

\* Every variable keeps its type; in particular there is always a port to give.
THEOREM ProvisioningTypes == Spec => []TypeOK
BY ProvisioningInvariant, PTL DEF IInv

\* No two organisations are given one port, however their calls overlap
\* (allocateHttpPort).
THEOREM NoSharedPort == Spec => []PortsDisjoint
BY ProvisioningInvariant, PTL DEF IInv

\* A registered tenant has the stack at its port to itself, although the host still
\* runs what was started before a restart.
THEOREM TenantHasItsStack == Spec => []OwnStack
<1>1. IInv => OwnStack
  BY DEF IInv, OwnStack, PlacesOK, Placed, TypeOK
<1> QED
  BY <1>1, ProvisioningInvariant, PTL

\* An organisation shown as ready has its tenant and its deployment, and the flows and
\* stages to enrol while its stack is up.  Its administrator is there once the call has
\* ended well, and may be missing for good when it failed after MarkReady
\* (provisionOrganisation, requireEnrolmentFlow).
THEOREM ReadyMeansServed == Spec => []ReadyIsServed
<1>1. IInv => ReadyIsServed
  BY DEF IInv, ReadyIsServed, CallsOK, ObjectsOK, Running
<1> QED
  BY <1>1, ProvisioningInvariant, PTL

=============================================================================
