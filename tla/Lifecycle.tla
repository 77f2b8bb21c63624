------------------------------ MODULE Lifecycle ------------------------------
(***************************************************************************)
(* The life of an identity and of its sessions: the handlers of            *)
(* packages/control-plane that move an identity (administrators, inbound   *)
(* SCIM, an accepted invitation, a password login) over the identity       *)
(* engine of packages/authentik.                                           *)
(*                                                                         *)
(* A call is a process p; its steps are the awaits of the code:            *)
(*     look     getUser, transition()                    -> "write"        *)
(*     write    updateUser                               -> "audit"        *)
(*     audit    record(): store, sink, webhooks          -> "revoke"       *)
(*     revoke   revokeAllSessions (HTTP: list a page, then delete one by   *)
(*              one; a session that is gone already ends the handler)      *)
(*     session  createSession, the end of a password login                 *)
(* Engine is "memory" (MemoryAuthentikClient) or "http" (authentik behind  *)
(* HttpAuthentikClient).  Yields says whether other calls may run between  *)
(* look and the end of the audit copy: never in the console over the       *)
(* memory engine, whose awaits all resolve in one turn of the event loop.  *)
(***************************************************************************)
EXTENDS IdentityStates, Naturals, FiniteSets

CONSTANTS
  Users, Sessions,   \* Sessions bounds the number of sign-ins
  Procs,             \* calls in flight at once
  Engine,
  PageSize,          \* sessions in an answer of authentik's list
  Yields,
  MayFail            \* the audit sink may throw; over HTTP, any request

ASSUME LifecycleAssumption ==
  /\ Engine \in {"memory", "http"} /\ Yields \in BOOLEAN /\ MayFail \in BOOLEAN
  /\ PageSize \in Nat \ {0}
  /\ Users \intersect {"unused", "gone"} = {}

VARIABLES
  user,         \* the engine's record: blakid_state and is_active
  session,      \* whose each session is; "unused" before, "gone" after
  invitations,  \* users with an unexpired invitation token
  procs

vars == <<user, session, invitations, procs>>

----------------------------------------------------------------------------
AdminOps == {"activate", "suspend", "lock", "terminate", "purge"}
Ops == AdminOps \union ScimOps \union {"accept", "login"}

Target(op) == CASE op = "activate"  -> "ACTIVE"    \* activateUser, restoreUser
                [] op = "suspend"   -> "SUSPENDED"
                [] op = "lock"      -> "LOCKED"
                [] op = "terminate" -> "ARCHIVED"
                [] OTHER            -> "DELETED"   \* purgeUser

Record == [state : UserStates \union {"NONE"}, isActive : BOOLEAN]

Idle == [pc |-> "idle"]

\* to: the state being written.  before: history, the sessions alive at the
\* write.  left: what listSessions returned and is not deleted yet.  whole:
\* history, that list was all there was.
Call == [pc : {"look", "write", "audit", "revoke", "delete", "session"}, op : Ops,
         uid : Users, to : UserStates, before : SUBSET Sessions, left : SUBSET Sessions,
         whole : BOOLEAN]

TypeOK ==
  /\ user \in [Users -> Record]
  /\ session \in [Sessions -> Users \union {"unused", "gone"}]
  /\ invitations \subseteq Users
  /\ procs \in [Procs -> Call \union {Idle}]

Init ==
  /\ user = [u \in Users |-> [state |-> "NONE", isActive |-> FALSE]]
  /\ session = [s \in Sessions |-> "unused"]
  /\ invitations = {}
  /\ procs = [p \in Procs |-> Idle]

SessionsOf(u) == {s \in Sessions : session[s] = u}

\* Nobody else is inside an uninterrupted stretch.
Turn(p) == Yields \/ \A q \in Procs \ {p} : procs[q].pc \notin {"look", "write", "audit"}
Quiet == Yields \/ \A p \in Procs : procs[p].pc \notin {"look", "write", "audit"}

At(p, pc) == procs[p].pc = pc /\ Turn(p)

Goto(p, pc) == procs' = [procs EXCEPT ![p].pc = pc]
Return(p)   == procs' = [procs EXCEPT ![p] = Idle]

Begin(p, pc, op, u, to) ==
  procs' = [procs EXCEPT ![p] = [pc |-> pc, op |-> op, uid |-> u, to |-> to,
                                 before |-> {}, left |-> {}, whole |-> TRUE]]

----------------------------------------------------------------------------
(* How a call begins.                                                      *)

\* inviteUser, inviteOrganisationAdmin (the one that hands out a token),
\* createServiceIdentity, and a SCIM POST without active.
CreateUser(u, state, token) ==
  /\ user[u].state = "NONE" /\ Quiet
  /\ token => state = "INVITED"
  /\ user' = [user EXCEPT ![u] = [state |-> state, isActive |-> TRUE]]
  /\ invitations' = IF token THEN invitations \union {u} ELSE invitations
  /\ UNCHANGED <<session, procs>>

\* purgeUser reads the identity once more than the others.
AdminCall(p, op, u) ==
  /\ At(p, "idle") /\ user[u].state # "NONE"
  /\ op = "purge" => user[u].state = "ARCHIVED"
  /\ Begin(p, "look", op, u, Target(op))
  /\ UNCHANGED <<user, session, invitations>>

\* applyScimUser, for an identity the directory has: the state it saw here
\* decides what it asks setState for.
ScimCall(p, op, u) ==
  LET seen == user[u].state
  IN /\ At(p, "idle") /\ seen # "NONE" /\ ScimWrites(seen, op)
     /\ Begin(p, "look", op, u, NextStateFromScim(seen, op))
     /\ UNCHANGED <<user, session, invitations>>

\* ... and for one it has not: create, then setState.
ScimCreate(p, op, u) ==
  /\ At(p, "idle") /\ user[u].state = "NONE" /\ op # "scim_delete"
  /\ user' = [user EXCEPT ![u] = [state |-> "INVITED", isActive |-> TRUE]]
  /\ Begin(p, "look", op, u, NextStateFromScim("INVITED", op))
  /\ UNCHANGED <<session, invitations>>

\* acceptInvitation goes straight to updateUser with the state it saw.  It
\* sets acceptedAt and never reads it: a token works until it expires.
AcceptInvitation(p, u) ==
  LET seen == user[u].state
  IN /\ At(p, "idle") /\ u \in invitations /\ seen # "NONE"
     /\ Begin(p, "write", "accept", u, IF seen = "INVITED" THEN "ACTIVE" ELSE seen)
     /\ UNCHANGED <<user, session, invitations>>

\* loginWithPassword: authenticatePassword activates an invited identity.
Authenticate(p, u) ==
  /\ Engine = "memory"
  /\ At(p, "idle") /\ user[u].isActive /\ user[u].state \in Live
  /\ user' = [user EXCEPT ![u].state = "ACTIVE"]
  /\ Begin(p, "audit", "login", u, "ACTIVE")
  /\ UNCHANGED <<session, invitations>>

----------------------------------------------------------------------------
(* The steps of a call.                                                    *)

\* getUser and transition(); a transition that is not allowed throws.
Look(p) ==
  LET c == procs[p]
  IN /\ At(p, "look")
     /\ IF CanTransition(user[c.uid].state, c.to) THEN Goto(p, "write") ELSE Return(p)
     /\ UNCHANGED <<user, session, invitations>>

\* Fault: the engine writes whatever it is told.
EngineAccepts_Anything(current, to) == TRUE

\* The memory engine checks the transition again; authentik takes anything.
EngineAccepts(current, to) ==
  Engine = "http" \/ to = current \/ CanTransition(current, to)

\* The flag the engine ends with.  The memory engine derives it from the
\* state; over HTTP it is what the caller sent, TRUE from acceptInvitation.
ActiveFlag(op, to) ==
  to \in Live \/ (Engine = "http" /\ op = "accept")

\* Fault: SCIM revokes for an archiving only.
AfterWrite_ArchiveOnly(op, to) ==
  CASE op \in AdminOps -> "audit"
    [] op \in ScimOps /\ to = "ARCHIVED" -> "revoke"
    [] OTHER -> "idle"

\* What follows updateUser: accept returns; setState records and SCIM revokes
\* before it records (a record with nothing after it is left out).
AfterWrite(op, to) ==
  CASE op \in AdminOps -> "audit"
    [] op \in ScimOps /\ to \in {"SUSPENDED", "ARCHIVED"} -> "revoke"
    [] OTHER -> "idle"

Write(p) ==
  LET c == procs[p]
      next == AfterWrite(c.op, c.to)
  IN /\ At(p, "write")
     /\ EngineAccepts(user[c.uid].state, c.to)
     /\ user' = [user EXCEPT ![c.uid] =
                   [state |-> c.to, isActive |-> ActiveFlag(c.op, c.to)]]
     /\ procs' = [procs EXCEPT ![p] =
          IF next = "idle" THEN Idle
          ELSE [c EXCEPT !.pc = next, !.before = SessionsOf(c.uid)]]
     /\ UNCHANGED <<session, invitations>>

WriteRefused(p) ==
  /\ At(p, "write") /\ ~EngineAccepts(user[procs[p].uid].state, procs[p].to)
  /\ Return(p)
  /\ UNCHANGED <<user, session, invitations>>

\* Fault: locking forgets the sessions.
Audit_LockKeeps(p) ==
  /\ At(p, "audit")
  /\ CASE procs[p].op \in {"suspend", "terminate"} -> Goto(p, "revoke")
       [] procs[p].op = "login"                   -> Goto(p, "session")
       [] OTHER                                   -> Return(p)
  /\ UNCHANGED <<user, session, invitations>>

\* Only what suspend, lock, terminate and login do after record() matters.
Audit(p) ==
  /\ At(p, "audit")
  /\ CASE procs[p].op \in {"suspend", "lock", "terminate"} -> Goto(p, "revoke")
       [] procs[p].op = "login"                           -> Goto(p, "session")
       [] OTHER                                           -> Return(p)
  /\ UNCHANGED <<user, session, invitations>>

End(ended) == session' = [s \in Sessions |-> IF s \in ended THEN "gone" ELSE session[s]]

RevokeAllSessions(p) ==
  /\ Engine = "memory" /\ At(p, "revoke")
  /\ End(SessionsOf(procs[p].uid))
  /\ Return(p)
  /\ UNCHANGED <<user, invitations>>

\* The page authentik answers with, which of them it does not say.
Pages(all) ==
  IF Cardinality(all) <= PageSize THEN {all}
  ELSE {page \in SUBSET all : Cardinality(page) = PageSize}

\* Fault: only the first session of the answer is kept.
ListSessions_FirstOnly(p) ==
  LET all == SessionsOf(procs[p].uid)
  IN /\ Engine = "http" /\ At(p, "revoke")
     /\ procs' = [procs EXCEPT ![p].pc = "delete", ![p].whole = (Pages(all) = {all}),
                               ![p].left = {s \in all : s = CHOOSE t \in all : TRUE}]
     /\ UNCHANGED <<user, session, invitations>>

\* One request, of which the first page is read.
ListSessions(p) ==
  LET all == SessionsOf(procs[p].uid)
  IN /\ Engine = "http" /\ At(p, "revoke")
     /\ \E page \in Pages(all) :
          procs' = [procs EXCEPT ![p].pc = "delete", ![p].left = page,
                                 ![p].whole = (Pages(all) = {all})]
     /\ UNCHANGED <<user, session, invitations>>

DeleteSession(p, s) ==
  /\ Engine = "http" /\ At(p, "delete") /\ s \in procs[p].left /\ session[s] # "gone"
  /\ End({s})
  /\ procs' = [procs EXCEPT ![p].left = @ \ {s}]
  /\ UNCHANGED <<user, invitations>>

\* Somebody else ended it: authentik answers 404, request() throws, and what
\* is left of the list stays.
DeleteRefused(p, s) ==
  /\ Engine = "http" /\ At(p, "delete") /\ s \in procs[p].left /\ session[s] = "gone"
  /\ Return(p)
  /\ UNCHANGED <<user, session, invitations>>

AllDeleted(p) ==
  /\ Engine = "http" /\ At(p, "delete") /\ procs[p].left = {}
  /\ Return(p)
  /\ UNCHANGED <<user, session, invitations>>

MaySignIn(u) == user[u].isActive /\ user[u].state = "ACTIVE"

\* Fault: the session is put down to the call, not to the identity.
CreateSession_ByCall(p, s) ==
  /\ At(p, "session") /\ MaySignIn(procs[p].uid) /\ session[s] = "unused"
  /\ session' = [session EXCEPT ![s] = p]
  /\ Return(p)
  /\ UNCHANGED <<user, invitations>>

\* createSession looks at the identity again: webhooks went out in between.
CreateSession(p, s) ==
  /\ At(p, "session") /\ MaySignIn(procs[p].uid) /\ session[s] = "unused"
  /\ session' = [session EXCEPT ![s] = procs[p].uid]
  /\ Return(p)
  /\ UNCHANGED <<user, invitations>>

\* The bound: with every session used, the login gives up.
CreateSessionRefused(p) ==
  /\ At(p, "session")
  /\ ~MaySignIn(procs[p].uid) \/ \A s \in Sessions : session[s] # "unused"
  /\ Return(p)
  /\ UNCHANGED <<user, session, invitations>>

\* The audit sink throws, or over HTTP a request is lost, before or after it
\* took effect.  The handler ends where it stands.
Fail(p) ==
  /\ MayFail
  /\ procs[p].pc \in IF Engine = "http"
                       THEN {"look", "write", "audit", "revoke", "delete"} ELSE {"audit"}
  /\ Return(p)
  /\ UNCHANGED <<user, session, invitations>>

----------------------------------------------------------------------------
(* Calls of one step, and the world outside.                               *)

\* revokeSession; the memory engine's revokeSessions is a series of these.
RevokeSession(s) ==
  /\ session[s] \in Users /\ Quiet
  /\ End({s})
  /\ UNCHANGED <<user, invitations, procs>>

\* Sign-in inside authentik, which knows is_active and not blakid_state.
EngineLogin(u, s) ==
  /\ Engine = "http" /\ user[u].isActive /\ session[s] = "unused"
  /\ session' = [session EXCEPT ![s] = u]
  /\ UNCHANGED <<user, invitations, procs>>

InvitationExpires(u) ==
  /\ u \in invitations
  /\ invitations' = invitations \ {u}
  /\ UNCHANGED <<user, session, procs>>

----------------------------------------------------------------------------
Start(p) == \E u \in Users :
  \/ \E op \in AdminOps : AdminCall(p, op, u)
  \/ \E op \in ScimOps : ScimCall(p, op, u) \/ ScimCreate(p, op, u)
  \/ AcceptInvitation(p, u) \/ Authenticate(p, u)

Continue(p) ==
  \/ Look(p) \/ Write(p) \/ WriteRefused(p) \/ Audit(p)
  \/ RevokeAllSessions(p) \/ ListSessions(p) \/ AllDeleted(p)
  \/ CreateSessionRefused(p)
  \/ \E s \in Sessions : DeleteSession(p, s) \/ DeleteRefused(p, s) \/ CreateSession(p, s)

Outside ==
  \/ \E u \in Users : \/ \E state \in Live, token \in BOOLEAN : CreateUser(u, state, token)
                      \/ InvitationExpires(u)
                      \/ \E s \in Sessions : EngineLogin(u, s)
  \/ \E s \in Sessions : RevokeSession(s)

Next == Outside \/ \E p \in Procs : Start(p) \/ Continue(p) \/ Fail(p)

\* The event loop resumes, in the order they settle, all handlers whose await
\* has settled, however often others run in between; every await settles,
\* because fetch gives up on a silent peer.
Fairness == \A p \in Procs : SF_vars(Continue(p))

Spec == Init /\ [][Next]_vars /\ Fairness

----------------------------------------------------------------------------
(* Properties.                                                             *)

\* The operations that promise to end the sessions of an identity.
Barring == {"suspend", "lock", "terminate"} \union ScimOps

\* An identity that is not active has no session left, unless the handler that
\* stopped it is still on its way to revoke (suspendUser, lockUser,
\* terminateUser, handleInboundScim, against logins that straddle them).
\* mcp/src/index.ts:41: "Suspend an identity and revoke sessions".
InactiveHasNoSession ==
  \A u \in Users :
    user[u].state # "ACTIVE" /\ SessionsOf(u) # {} =>
      \E p \in Procs : procs[p].pc \in {"audit", "revoke"} /\ procs[p].op \in Barring
                      /\ procs[p].uid = u

\* ... and that handler gets there: a stopped identity ends up without sessions,
\* or active again.
InactiveSettles ==
  \A u \in Users :
    user[u].state \in Barred ~> (SessionsOf(u) = {} \/ user[u].state = "ACTIVE")

Stops(p) ==
  /\ procs[p].pc \in {"audit", "revoke", "delete"} /\ procs[p].op \in Barring
  /\ procs[p].to \in {"SUSPENDED", "LOCKED", "ARCHIVED"}

\* A call that stops an identity leaves a session that was alive when it wrote
\* the state for one of two reasons only: there were more than authentik lists
\* at once, or another call ended one of those listed before it did
\* (HttpAuthentikClient.revokeAllSessions).  What starts meanwhile is no reason.
SweepComplete ==
  [][\A p \in Procs : Stops(p) /\ procs'[p] = Idle =>
       \/ \A s \in procs[p].before : session'[s] = "gone"
       \/ ~procs[p].whole
       \/ \E s \in procs[p].left : session[s] = "gone"]_vars

\* The promise of the lifecycle, kept by the memory engine even when calls
\* interleave at every await and any of them may fail.
Policy == INSTANCE IdentityPolicy WITH
  state <- [u \in Users |-> user[u].state], owner <- session

PolicySpec == Policy!Spec

----------------------------------------------------------------------------
(* The inductive invariant behind PolicySpec for the memory engine: no call *)
(* brings an identity back to INVITED, and one that is to be deleted left   *)
(* INVITED behind before the call began.  Without it the recheck of the     *)
(* engine would not do, for ALLOWED has an edge from INVITED to DELETED.    *)

PendingOK(c, users) ==
  c.pc \in {"look", "write"} =>
    /\ c.to # "INVITED" /\ users[c.uid].state # "NONE"
    /\ c.to = "DELETED" => users[c.uid].state # "INVITED"

IInv == TypeOK /\ \A p \in Procs : PendingOK(procs[p], user)
=============================================================================
