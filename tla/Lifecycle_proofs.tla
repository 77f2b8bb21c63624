-------------------------- MODULE Lifecycle_proofs --------------------------
(***************************************************************************)
(* For any number of identities, sessions and calls in flight: the types   *)
(* of Lifecycle, and that the memory engine keeps IdentityPolicy.          *)
(***************************************************************************)
EXTENDS Lifecycle, TLAPS

\* What a new call looks like, and what a step does to one.
LEMMA CallTypes ==
  ASSUME NEW p \in Procs, NEW u \in Users, NEW op \in Ops, NEW to \in UserStates,
         NEW pc \in {"look", "write", "audit"}, TypeOK, Begin(p, pc, op, u, to)
  PROVE  procs' \in [Procs -> Call \union {Idle}]
<1>1. [pc |-> pc, op |-> op, uid |-> u, to |-> to, before |-> {}, left |-> {},
      whole |-> TRUE] \in Call
  BY DEF Call
<1> QED BY <1>1 DEF Begin, TypeOK

LEMMA GotoTypes ==
  ASSUME NEW p \in Procs, TypeOK, procs[p].pc # "idle",
         NEW pc \in {"look", "write", "audit", "revoke", "delete", "session"},
         Goto(p, pc)
  PROVE  procs' \in [Procs -> Call \union {Idle}]
<1>1. procs[p] \in Call
  BY DEF TypeOK, Idle
<1>2. [procs[p] EXCEPT !.pc = pc] \in Call
  BY <1>1 DEF Call
<1> QED BY <1>2 DEF Goto, TypeOK

LEMMA ReturnTypes ==
  ASSUME NEW p \in Procs, TypeOK, Return(p)
  PROVE  procs' \in [Procs -> Call \union {Idle}]
BY DEF Return, TypeOK

LEMMA Busy ==
  ASSUME NEW p \in Procs, TypeOK, procs[p].pc # "idle"
  PROVE  /\ procs[p] \in Call /\ procs[p].uid \in Users /\ procs[p].to \in UserStates
         /\ procs[p].op \in Ops
BY DEF TypeOK, Idle, Call

LEMMA ScimTarget ==
  ASSUME NEW op \in ScimOps, NEW seen \in UserStates
  PROVE  NextStateFromScim(seen, op) \in UserStates
BY DEF NextStateFromScim, ScimOps, UserStates

\* What a sweep goes on with: a page of the sessions there are, all of them if
\* the answer was whole.
LEMMA Listed ==
  ASSUME NEW p \in Procs, TypeOK, ListSessions(p)
  PROVE  /\ procs' = [procs EXCEPT ![p] = procs'[p]] /\ procs'[p] \in Call
         /\ procs'[p].pc = "delete" /\ procs'[p].left \subseteq SessionsOf(procs[p].uid)
         /\ procs'[p].before = procs[p].before /\ procs'[p].uid = procs[p].uid
         /\ procs[p].pc = "revoke"
         /\ procs'[p].whole => procs'[p].left = SessionsOf(procs[p].uid)
<1> DEFINE c == procs[p]
           all == SessionsOf(c.uid)
           next(page) == [c EXCEPT !.pc = "delete", !.left = page, !.whole = (Pages(all) = {all})]
<1>1. c \in Call /\ c.pc = "revoke"
  BY Busy DEF ListSessions, At
<1>2. PICK page \in Pages(all) : procs' = [procs EXCEPT ![p] = next(page)]
  BY DEF ListSessions
<1>3. page \subseteq all /\ all \subseteq Sessions
  BY DEF Pages, SessionsOf
<1>4. /\ next(page) \in Call /\ next(page).pc = "delete" /\ next(page).left = page
      /\ next(page).before = c.before /\ next(page).uid = c.uid
      /\ next(page).whole = (Pages(all) = {all})
  BY <1>1, <1>3 DEF Call
<1>5. procs'[p] = next(page)
  BY <1>2 DEF TypeOK
<1> HIDE DEF next
<1> QED
  BY <1>1, <1>2, <1>3, <1>4, <1>5

\* Every step keeps the types.
LEMMA TypeStep ==
  ASSUME LifecycleAssumption, TypeOK, [Next]_vars
  PROVE  TypeOK'
<1>a. CASE UNCHANGED vars
  BY <1>a DEF vars, TypeOK
<1>b. CASE Outside
  <2>1. ASSUME NEW u \in Users, NEW state \in Live, NEW token \in BOOLEAN,
               CreateUser(u, state, token)
        PROVE  TypeOK'
    <3>1. [state |-> state, isActive |-> TRUE] \in Record
      BY DEF Record, Live, UserStates
    <3> QED BY <2>1, <3>1 DEF CreateUser, TypeOK
  <2>2. ASSUME NEW u \in Users, InvitationExpires(u) PROVE  TypeOK'
    BY <2>2 DEF InvitationExpires, TypeOK
  <2>3. ASSUME NEW u \in Users, NEW s \in Sessions, EngineLogin(u, s) PROVE TypeOK'
    BY <2>3 DEF EngineLogin, TypeOK
  <2>4. ASSUME NEW s \in Sessions, RevokeSession(s) PROVE TypeOK'
    BY <2>4 DEF RevokeSession, End, TypeOK
  <2> QED BY <1>b, <2>1, <2>2, <2>3, <2>4 DEF Outside
<1>c. ASSUME NEW p \in Procs, Start(p) PROVE TypeOK'
  <2>1. ASSUME NEW u \in Users, NEW op \in AdminOps, AdminCall(p, op, u) PROVE TypeOK'
    <3>1. op \in Ops /\ Target(op) \in UserStates
      BY DEF Ops, Target, UserStates
    <3> QED BY <2>1, <3>1, CallTypes DEF AdminCall, TypeOK
  <2>2. ASSUME NEW u \in Users, NEW op \in ScimOps, ScimCall(p, op, u) PROVE TypeOK'
    <3>1. user[u].state \in UserStates /\ op \in Ops
      BY <2>2 DEF ScimCall, TypeOK, Record, Ops
    <3> QED BY <2>2, <3>1, CallTypes, ScimTarget DEF ScimCall, TypeOK
  <2>3. ASSUME NEW u \in Users, NEW op \in ScimOps, ScimCreate(p, op, u) PROVE TypeOK'
    <3>1. /\ [state |-> "INVITED", isActive |-> TRUE] \in Record
          /\ "INVITED" \in UserStates /\ op \in Ops
      BY DEF Record, UserStates, Ops
    <3> QED BY <2>3, <3>1, CallTypes, ScimTarget DEF ScimCreate, TypeOK
  <2>4. ASSUME NEW u \in Users, Authenticate(p, u) PROVE TypeOK'
    <3>1. [user[u] EXCEPT !.state = "ACTIVE"] \in Record
      BY DEF TypeOK, Record, UserStates
    <3>2. "ACTIVE" \in UserStates /\ "login" \in Ops
      BY DEF UserStates, Ops
    <3> QED BY <2>4, <3>1, <3>2, CallTypes DEF Authenticate, TypeOK
  <2>5. ASSUME NEW u \in Users, AcceptInvitation(p, u) PROVE TypeOK'
    <3> DEFINE to == IF user[u].state = "INVITED" THEN "ACTIVE" ELSE user[u].state
    <3>1. to \in UserStates /\ "accept" \in Ops
      BY <2>5 DEF AcceptInvitation, TypeOK, Record, UserStates, Ops
    <3>2. Begin(p, "write", "accept", u, to)
      BY <2>5 DEF AcceptInvitation
    <3> HIDE DEF to
    <3> QED BY <2>5, <3>1, <3>2, CallTypes DEF AcceptInvitation, TypeOK
  <2> QED BY <1>c, <2>1, <2>2, <2>3, <2>4, <2>5 DEF Start
<1>d. ASSUME NEW p \in Procs, Continue(p) \/ Fail(p) PROVE TypeOK'
  <2>1. CASE Look(p)
    BY <2>1, GotoTypes, ReturnTypes DEF Look, At, TypeOK
  <2>2. CASE Write(p)
    <3> DEFINE c == procs[p]
               next == AfterWrite(c.op, c.to)
               call == [c EXCEPT !.pc = next, !.before = SessionsOf(c.uid)]
    <3>1. c \in Call /\ c.to \in UserStates
      BY <2>2, Busy DEF Write, At
    <3>f. ActiveFlag(c.op, c.to) \in BOOLEAN
      BY Zenon DEF ActiveFlag
    <3>2. [state |-> c.to, isActive |-> ActiveFlag(c.op, c.to)] \in Record
      BY <3>1, <3>f DEF Record
    <3>3. next \in {"audit", "revoke", "idle"}
      BY DEF AfterWrite
    <3>4. next # "idle" => call \in Call
      BY <3>1, <3>3 DEF Call, SessionsOf
    <3>5. procs' = [procs EXCEPT ![p] = IF next = "idle" THEN Idle ELSE call]
      BY <2>2 DEF Write
    <3>6. user' = [user EXCEPT ![c.uid] =
                     [state |-> c.to, isActive |-> ActiveFlag(c.op, c.to)]]
      BY <2>2 DEF Write
    <3>7. UNCHANGED <<session, invitations>>
      BY <2>2 DEF Write, TypeOK
    <3> HIDE DEF c, next, call
    <3>8. procs' \in [Procs -> Call \union {Idle}]
      BY <3>4, <3>5 DEF TypeOK
    <3>9. user' \in [Users -> Record]
      BY <3>2, <3>6 DEF TypeOK
    <3> QED BY <3>7, <3>8, <3>9 DEF TypeOK
  <2>3. CASE Audit(p)
    BY <2>3, GotoTypes, ReturnTypes DEF Audit, At, TypeOK
  <2>4. CASE RevokeAllSessions(p)
    BY <2>4, ReturnTypes DEF RevokeAllSessions, End, TypeOK
  <2>5. CASE ListSessions(p)
    <3>1. procs' \in [Procs -> Call \union {Idle}]
      BY <2>5, Listed DEF TypeOK
    <3> QED BY <2>5, <3>1 DEF ListSessions, TypeOK
  <2>6. ASSUME NEW s \in Sessions, DeleteSession(p, s) PROVE TypeOK'
    <3>1. procs[p] \in Call
      BY <2>6, Busy DEF DeleteSession, At
    <3>2. [procs[p] EXCEPT !.left = @ \ {s}] \in Call
      BY <3>1 DEF Call
    <3> QED BY <2>6, <3>2 DEF DeleteSession, End, TypeOK
  <2>7. ASSUME NEW s \in Sessions, CreateSession(p, s) PROVE TypeOK'
    <3>1. procs[p].uid \in Users
      BY <2>7, Busy DEF CreateSession, At
    <3> QED BY <2>7, <3>1, ReturnTypes DEF CreateSession, TypeOK
  <2>8. CASE WriteRefused(p) \/ AllDeleted(p) \/ CreateSessionRefused(p) \/ Fail(p)
              \/ \E s \in Sessions : DeleteRefused(p, s)
    BY <2>8, ReturnTypes
       DEF WriteRefused, AllDeleted, CreateSessionRefused, Fail, DeleteRefused, TypeOK
  <2> QED BY <1>d, <2>1, <2>2, <2>3, <2>4, <2>5, <2>6, <2>7, <2>8 DEF Continue
<1> QED BY <1>a, <1>b, <1>c, <1>d DEF Next

\* Types are kept whatever the engine, the interleaving and the failures.
THEOREM LifecycleTypes == Spec => []TypeOK
<1> USE LifecycleAssumption
<1>1. Init => TypeOK
  BY DEF Init, TypeOK, Record, Idle
<1>2. TypeOK /\ [Next]_vars => TypeOK'
  BY TypeStep
<1> QED BY <1>1, <1>2, PTL DEF Spec

----------------------------------------------------------------------------
(* The memory engine.                                                      *)

\* No edge of the lifecycle leads back to its beginning.
LEMMA EdgesForward ==
  ASSUME NEW from \in UserStates, NEW to, CanTransition(from, to)
  PROVE  to # "INVITED" /\ to # "NONE"
BY DEF CanTransition, ALLOWED, UserStates

\* No step brings an identity back to NONE or INVITED.
Onward(u) ==
  /\ user[u].state # "NONE" => user'[u].state # "NONE"
  /\ user[u].state \notin {"NONE", "INVITED"} => user'[u].state # "INVITED"

\* A step of p that moves identities onward disturbs no other call.
LEMMA OthersPending ==
  ASSUME IInv, NEW p \in Procs, \A u \in Users : Onward(u),
         \A q \in Procs \ {p} : procs'[q] = procs[q],
         PendingOK(procs'[p], user')
  PROVE  \A q \in Procs : PendingOK(procs'[q], user')
<1> SUFFICES ASSUME NEW q \in Procs \ {p}, procs[q].pc \in {"look", "write"}
             PROVE  PendingOK(procs[q], user')
  BY DEF PendingOK
<1>1. procs[q].uid \in Users
  BY Busy DEF IInv
<1>2. PendingOK(procs[q], user) /\ Onward(procs[q].uid)
  BY <1>1 DEF IInv
<1> QED BY <1>2 DEF PendingOK, Onward

\* What the memory engine's updateUser may do with a state that was allowed
\* by an earlier read.
LEMMA WriteMoves ==
  ASSUME Engine = "memory", IInv, NEW p \in Procs, Write(p)
  PROVE  LET u  == procs[p].uid
             to == procs[p].to
         IN /\ u \in Users
            /\ \A v \in Users : user'[v].state = IF v = u THEN to ELSE user[v].state
            /\ user[u].state \in UserStates
            /\ to = user[u].state \/ CanTransition(user[u].state, to)
            /\ to \in UserStates \ {"INVITED"}
            /\ to = "DELETED" => user[u].state # "INVITED"
<1> DEFINE c == procs[p]
<1>1. c \in Call /\ c.uid \in Users /\ c.to \in UserStates /\ c.pc = "write"
  BY Busy DEF Write, At, IInv
<1>2. /\ user[c.uid] \in Record /\ user[c.uid].state # "NONE" /\ c.to # "INVITED"
      /\ c.to = "DELETED" => user[c.uid].state # "INVITED"
  BY <1>1 DEF PendingOK, IInv, TypeOK
<1>3. user[c.uid].state \in UserStates
  BY <1>2 DEF Record
<1>4. c.to = user[c.uid].state \/ CanTransition(user[c.uid].state, c.to)
  BY DEF Write, EngineAccepts
<1>5. user' = [user EXCEPT ![c.uid] =
                 [state |-> c.to, isActive |-> ActiveFlag(c.op, c.to)]]
  BY DEF Write
<1> HIDE DEF c
<1>6. \A v \in Users : user'[v].state = IF v = c.uid THEN c.to ELSE user[v].state
  BY <1>1, <1>5 DEF IInv, TypeOK
<1> QED BY <1>1, <1>2, <1>3, <1>4, <1>6 DEF c

\* The strengthening is inductive for the memory engine.
LEMMA PendingStep ==
  ASSUME LifecycleAssumption, Engine = "memory", IInv, [Next]_vars
  PROVE  \A p \in Procs : PendingOK(procs'[p], user')
<1> USE DEF IInv
<1>a. CASE UNCHANGED vars
  BY <1>a DEF vars
<1>b. CASE Outside
  <2>1. \A u \in Users : Onward(u)
    BY <1>b DEF Outside, CreateUser, InvitationExpires, EngineLogin,
                RevokeSession, Onward, TypeOK
  <2>2. UNCHANGED procs
    BY <1>b DEF Outside, CreateUser, InvitationExpires, EngineLogin,
                RevokeSession
  <2> SUFFICES ASSUME NEW p \in Procs, procs[p].pc \in {"look", "write"}
               PROVE  PendingOK(procs[p], user')
    BY <2>2 DEF PendingOK
  <2>3. procs[p].uid \in Users
    BY Busy
  <2> QED BY <2>1, <2>3 DEF PendingOK, Onward
<1>c. ASSUME NEW p \in Procs, Start(p) PROVE \A q \in Procs : PendingOK(procs'[q], user')
  <2>1. ASSUME NEW u \in Users, NEW op \in AdminOps, AdminCall(p, op, u)
        PROVE  PendingOK(procs'[p], user')
    BY <2>1 DEF AdminCall, Begin, PendingOK, Target, TypeOK, AdminOps
  <2>2. ASSUME NEW u \in Users, NEW op \in ScimOps, ScimCall(p, op, u)
        PROVE  PendingOK(procs'[p], user')
    <3>1. user[u].state \in UserStates
      BY <2>2 DEF ScimCall, TypeOK, Record
    <3>2. /\ NextStateFromScim(user[u].state, op) # "INVITED"
          /\ NextStateFromScim(user[u].state, op) = "DELETED" =>
                user[u].state = "DELETED"
      BY <2>2, <3>1 DEF NextStateFromScim, ScimOps, UserStates
    <3> QED BY <2>2, <3>2 DEF ScimCall, Begin, PendingOK, TypeOK
  <2>3. ASSUME NEW u \in Users, NEW op \in ScimOps, ScimCreate(p, op, u)
        PROVE  PendingOK(procs'[p], user')
    BY <2>3 DEF ScimCreate, Begin, PendingOK, TypeOK, NextStateFromScim, ScimOps
  <2>4. ASSUME NEW u \in Users, AcceptInvitation(p, u) PROVE PendingOK(procs'[p], user')
    BY <2>4 DEF AcceptInvitation, Begin, PendingOK, TypeOK
  <2>5. ASSUME NEW u \in Users, Authenticate(p, u) PROVE PendingOK(procs'[p], user')
    BY <2>5 DEF Authenticate, Begin, PendingOK, TypeOK
  <2>6. \A u \in Users : Onward(u)
    BY <1>c DEF Start, AdminCall, ScimCall, ScimCreate, AcceptInvitation, Authenticate,
                Onward, TypeOK, Record, Live
  <2>7. \A q \in Procs \ {p} : procs'[q] = procs[q]
    BY <1>c DEF Start, AdminCall, ScimCall, ScimCreate, AcceptInvitation, Authenticate,
                Begin, TypeOK
  <2>8. PendingOK(procs'[p], user')
    BY <1>c, <2>1, <2>2, <2>3, <2>4, <2>5 DEF Start
  <2> QED BY <2>6, <2>7, <2>8, OthersPending
<1>d. ASSUME NEW p \in Procs, Continue(p) \/ Fail(p)
      PROVE  \A q \in Procs : PendingOK(procs'[q], user')
  <2>1. \A u \in Users : Onward(u)
    <3>1. CASE Write(p)
      BY <3>1, WriteMoves, EdgesForward DEF Onward
    <3>2. CASE UNCHANGED user
      BY <3>2 DEF Onward
    <3> QED BY <1>d, <3>1, <3>2
          DEF Continue, Look, WriteRefused, Audit, RevokeAllSessions, ListSessions,
              AllDeleted, CreateSessionRefused, DeleteSession, DeleteRefused, CreateSession, Fail
  <2>2. \A q \in Procs \ {p} : procs'[q] = procs[q]
    BY <1>d DEF Continue, Look, Write, WriteRefused, Audit, RevokeAllSessions,
              ListSessions, AllDeleted, CreateSessionRefused, DeleteSession, DeleteRefused,
              CreateSession, Fail, Goto, Return, TypeOK
  <2>3. PendingOK(procs'[p], user')
    <3>1. CASE Look(p)
      <4>1. procs[p] \in Call /\ procs[p].pc = "look" /\ UNCHANGED user
        BY <3>1, Busy DEF Look, At
      <4>2. procs' = [procs EXCEPT ![p].pc = "write"] \/ procs' = [procs EXCEPT ![p] = Idle]
        BY <3>1 DEF Look, Goto, Return
      <4>3. CASE procs' = [procs EXCEPT ![p] = Idle]
        BY <4>3 DEF PendingOK, Idle, TypeOK
      <4>4. CASE procs' = [procs EXCEPT ![p].pc = "write"]
        <5>1. procs'[p].to = procs[p].to /\ procs'[p].uid = procs[p].uid
          BY <4>1, <4>4 DEF TypeOK, Call
        <5>2. PendingOK(procs[p], user)
          OBVIOUS
        <5> QED BY <4>1, <5>1, <5>2 DEF PendingOK
      <4> QED BY <4>2, <4>3, <4>4
    <3>2. CASE Write(p)
      <4>1. procs[p] \in Call
        BY <3>2, Busy DEF Write, At
      <4>2. procs'[p].pc \in {"idle", "audit", "revoke"}
        BY <3>2, <4>1 DEF Write, AfterWrite, Idle, TypeOK, Call
      <4> QED BY <4>2 DEF PendingOK
    <3>3. CASE Audit(p) \/ WriteRefused(p) \/ RevokeAllSessions(p) \/ AllDeleted(p)
               \/ CreateSessionRefused(p) \/ Fail(p) \/ ListSessions(p)
               \/ \E s \in Sessions :
                    DeleteSession(p, s) \/ DeleteRefused(p, s) \/ CreateSession(p, s)
      <4> DEFINE Rests == procs'[p].pc \in {"idle", "revoke", "session", "delete"}
      <4> SUFFICES Rests
        BY DEF PendingOK
      <4>1. CASE Return(p)
        BY <4>1 DEF Return, Idle, TypeOK
      <4>2. CASE Audit(p) /\ ~Return(p)
        <5>1. procs[p] \in Call
          BY <4>2, Busy DEF Audit, At
        <5>2. Goto(p, "revoke") \/ Goto(p, "session")
          BY <4>2 DEF Audit
        <5> QED BY <5>1, <5>2 DEF Goto, TypeOK, Call
      <4>3. CASE ListSessions(p)
        BY <4>3, Listed
      <4>4. ASSUME NEW s \in Sessions, DeleteSession(p, s) PROVE Rests
        <5>1. procs[p] \in Call /\ procs[p].pc = "delete"
          BY <4>4, Busy DEF DeleteSession, At
        <5>2. procs'[p] = [procs[p] EXCEPT !.left = @ \ {s}]
          BY <4>4 DEF DeleteSession, TypeOK
        <5> QED BY <5>1, <5>2 DEF Call
      <4> HIDE DEF Rests
      <4> QED BY <3>3, <4>1, <4>2, <4>3, <4>4
            DEF WriteRefused, RevokeAllSessions, AllDeleted, CreateSessionRefused, Fail,
                DeleteRefused, CreateSession
    <3> QED BY <1>d, <3>1, <3>2, <3>3 DEF Continue
  <2> QED BY <2>1, <2>2, <2>3, OthersPending
<1> QED BY <1>a, <1>b, <1>c, <1>d DEF Next

----------------------------------------------------------------------------
(* Refinement: a step that changes the state of one identity is a move of  *)
(* the policy, and the other steps leave it alone or touch sessions only.  *)

LEMMA SameStates ==
  ASSUME \A v \in Users : user'[v].state = user[v].state, UNCHANGED session
  PROVE  UNCHANGED Policy!vars
BY DEF Policy!vars

LEMMA OneMoves ==
  ASSUME NEW u \in Users, NEW from, NEW to, user[u].state \in from, UNCHANGED session,
         \A v \in Users : user'[v].state = IF v = u THEN to ELSE user[v].state
  PROVE  Policy!Move(u, from, to)
<1> DEFINE state == [v \in Users |-> user[v].state]
<1>1. state' = [state EXCEPT ![u] = to]
  OBVIOUS
<1> QED BY <1>1 DEF Policy!Move

\* Every edge of ALLOWED is one of the policy's but INVITED to DELETED.
LEMMA EdgeIsMove ==
  ASSUME NEW u \in Users, NEW to \in UserStates, user[u].state \in UserStates,
         CanTransition(user[u].state, to), UNCHANGED session,
         to = "DELETED" => user[u].state # "INVITED",
         \A v \in Users : user'[v].state = IF v = u THEN to ELSE user[v].state
  PROVE  Policy!Next
<1> DEFINE from == user[u].state
<1>1. CASE to = "ACTIVE"
  <2>1. from \in {"NONE", "INVITED", "SUSPENDED", "LOCKED", "ARCHIVED"}
    BY <1>1 DEF CanTransition, ALLOWED, UserStates
  <2> QED BY <1>1, <2>1, OneMoves DEF Policy!Next, Policy!Activate
<1>2. CASE to = "SUSPENDED"
  <2>1. from \in {"ACTIVE", "LOCKED"}
    BY <1>2 DEF CanTransition, ALLOWED, UserStates
  <2> QED BY <1>2, <2>1, OneMoves DEF Policy!Next, Policy!Suspend
<1>3. CASE to = "LOCKED"
  <2>1. from \in {"ACTIVE", "SUSPENDED"}
    BY <1>3 DEF CanTransition, ALLOWED, UserStates
  <2> QED BY <1>3, <2>1, OneMoves DEF Policy!Next, Policy!Lock
<1>4. CASE to = "ARCHIVED"
  <2>1. from \in {"INVITED", "ACTIVE", "SUSPENDED", "LOCKED"}
    BY <1>4 DEF CanTransition, ALLOWED, UserStates
  <2> QED BY <1>4, <2>1, OneMoves DEF Policy!Next, Policy!Archive
<1>5. CASE to = "DELETED"
  <2>1. from \in {"ARCHIVED"}
    BY <1>5 DEF CanTransition, ALLOWED, UserStates
  <2> QED BY <1>5, <2>1, OneMoves DEF Policy!Next, Policy!Delete
<1>6. to # "INVITED"
  BY EdgesForward
<1> QED BY <1>1, <1>2, <1>3, <1>4, <1>5, <1>6 DEF UserStates

LEMMA SessionsEnd ==
  ASSUME NEW u \in Users, NEW S \in SUBSET SessionsOf(u), End(S), UNCHANGED user
  PROVE  Policy!Next
BY DEF End, SessionsOf, Policy!Next, Policy!Revoke

LEMMA SessionBegins ==
  ASSUME NEW u \in Users, NEW s \in Sessions, user[u].state = "ACTIVE",
         session[s] = "unused", session' = [session EXCEPT ![s] = u], UNCHANGED user
  PROVE  Policy!Next
BY DEF Policy!Next, Policy!SignIn

\* A step of the memory engine is a step of the policy, or none.
LEMMA PolicyStep ==
  ASSUME LifecycleAssumption, Engine = "memory", IInv, [Next]_vars
  PROVE  [Policy!Next]_(Policy!vars)
<1> USE DEF IInv
<1>a. CASE UNCHANGED user /\ UNCHANGED session
  BY <1>a, SameStates
<1>b. CASE Outside
  <2>1. ASSUME NEW u \in Users, NEW state \in Live, NEW token \in BOOLEAN,
               CreateUser(u, state, token)
        PROVE  Policy!Next
    <3>1. \A v \in Users : user'[v].state = IF v = u THEN state ELSE user[v].state
      BY <2>1 DEF CreateUser, TypeOK
    <3>2. UNCHANGED session /\ user[u].state = "NONE"
      BY <2>1 DEF CreateUser
    <3>3. CASE state = "INVITED"
      BY <3>1, <3>2, <3>3, OneMoves DEF Policy!Next, Policy!Invite
    <3>4. CASE state = "ACTIVE"
      BY <3>1, <3>2, <3>4, OneMoves DEF Policy!Next, Policy!Activate
    <3> QED BY <3>3, <3>4 DEF Live
  <2>2. ASSUME NEW s \in Sessions, RevokeSession(s) PROVE Policy!Next
    <3>1. session[s] \in Users /\ {s} \in SUBSET SessionsOf(session[s])
      BY <2>2 DEF RevokeSession, SessionsOf
    <3> QED BY <2>2, <3>1, SessionsEnd DEF RevokeSession
  <2>3. ASSUME NEW u \in Users, InvitationExpires(u) PROVE  UNCHANGED user /\ UNCHANGED session
    BY <2>3 DEF InvitationExpires
  <2>4. ASSUME NEW u \in Users, NEW s \in Sessions PROVE ~EngineLogin(u, s)
    BY DEF EngineLogin
  <2> QED BY <1>a, <1>b, <2>1, <2>2, <2>3, <2>4 DEF Outside
<1>c. ASSUME NEW p \in Procs, Start(p) PROVE [Policy!Next]_(Policy!vars)
  <2>1. ASSUME NEW u \in Users, NEW op \in ScimOps, ScimCreate(p, op, u)
        PROVE  Policy!Next
    <3>1. \A v \in Users : user'[v].state = IF v = u THEN "INVITED" ELSE user[v].state
      BY <2>1 DEF ScimCreate, TypeOK
    <3> QED BY <2>1, <3>1, OneMoves DEF ScimCreate, Policy!Next, Policy!Invite
  <2>2. ASSUME NEW u \in Users, Authenticate(p, u) PROVE [Policy!Next]_(Policy!vars)
    <3>1. /\ \A v \in Users : user'[v].state = IF v = u THEN "ACTIVE" ELSE user[v].state
          /\ UNCHANGED session /\ user[u].state \in {"INVITED", "ACTIVE"}
      BY <2>2 DEF Authenticate, Live, TypeOK, Record
    <3>2. CASE user[u].state = "ACTIVE"
      BY <3>1, <3>2, SameStates
    <3>3. CASE user[u].state = "INVITED"
      BY <3>1, <3>3, OneMoves DEF Policy!Next, Policy!Activate
    <3> QED BY <3>1, <3>2, <3>3
  <2> QED BY <1>a, <1>c, <2>1, <2>2 DEF Start, AdminCall, ScimCall, AcceptInvitation
<1>d. ASSUME NEW p \in Procs, Continue(p) \/ Fail(p) PROVE [Policy!Next]_(Policy!vars)
  <2>1. CASE Write(p)
    <3> DEFINE u  == procs[p].uid
               to == procs[p].to
    <3>1. UNCHANGED session
      BY <2>1 DEF Write
    <3>2. CASE to = user[u].state
      BY <2>1, <3>1, <3>2, WriteMoves, SameStates
    <3>3. CASE to # user[u].state
      BY <2>1, <3>1, <3>3, WriteMoves, EdgeIsMove
    <3> QED BY <3>2, <3>3
  <2>2. CASE RevokeAllSessions(p)
    <3>1. procs[p].uid \in Users
      BY <2>2, Busy DEF RevokeAllSessions, At
    <3> QED BY <2>2, <3>1, SessionsEnd DEF RevokeAllSessions
  <2>3. ASSUME NEW s \in Sessions, CreateSession(p, s) PROVE Policy!Next
    <3>1. procs[p].uid \in Users
      BY <2>3, Busy DEF CreateSession, At
    <3> QED BY <2>3, <3>1, SessionBegins DEF CreateSession, MaySignIn
  <2>4. ASSUME NEW s \in Sessions PROVE ~DeleteSession(p, s) /\ ~DeleteRefused(p, s)
    BY DEF DeleteSession, DeleteRefused
  <2> QED BY <1>a, <1>d, <2>1, <2>2, <2>3, <2>4
        DEF Continue, Look, WriteRefused, Audit, ListSessions, AllDeleted,
            CreateSessionRefused, Fail
<1> QED BY <1>a, <1>b, <1>c, <1>d DEF Next, vars

\* The memory engine never shows an identity outside IdentityPolicy, for any
\* number of calls, interleaved at every await, any of which may fail.
THEOREM MemoryKeepsPolicy ==
  ASSUME Engine = "memory"
  PROVE  Spec => PolicySpec
<1> USE LifecycleAssumption
<1>1. Init => IInv /\ Policy!Init
  <2> SUFFICES ASSUME Init PROVE IInv /\ Policy!Init
    OBVIOUS
  <2>1. TypeOK
    BY DEF Init, TypeOK, Record, Idle
  <2>2. \A p \in Procs : PendingOK(procs[p], user)
    BY DEF Init, PendingOK, Idle
  <2>3. Policy!Init
    BY DEF Init, Policy!Init
  <2> QED BY <2>1, <2>2, <2>3 DEF IInv
<1>2. IInv /\ [Next]_vars => IInv'
  <2> SUFFICES ASSUME IInv, [Next]_vars PROVE IInv'
    OBVIOUS
  <2>1. TypeOK'
    BY TypeStep DEF IInv
  <2>2. \A p \in Procs : PendingOK(procs'[p], user')
    BY PendingStep
  <2> QED BY <2>1, <2>2 DEF IInv
<1>3. IInv /\ [Next]_vars => [Policy!Next]_(Policy!vars)
  BY PolicyStep
<1> QED BY <1>1, <1>2, <1>3, PTL DEF Spec, PolicySpec, Policy!Spec

----------------------------------------------------------------------------
(* The sweep: a session alive at the write is still the identity's, or gone *)
(* for good; and in a deletion it is gone or on the list that was read, if  *)
(* that list was whole.                                                    *)

SweptOK(c, sess) ==
  /\ c.pc = "audit" => c.op \notin ScimOps
  /\ c.pc \in {"audit", "revoke", "delete"} =>
       \A s \in c.before : sess[s] \in {c.uid, "gone"}
  /\ c.pc = "delete" /\ c.whole => \A s \in c.before : s \in c.left \/ sess[s] = "gone"

SweepInv == TypeOK /\ \A p \in Procs : SweptOK(procs[p], session)

\* Whose a session is changes once, and then it ends.
Ages == \A s \in Sessions : \/ session'[s] \in {session[s], "gone"}
                            \/ session[s] = "unused"

LEMMA SessionsAge == ASSUME TypeOK, [Next]_vars PROVE Ages
<1>1. CASE UNCHANGED session
  BY <1>1 DEF Ages
<1>2. ASSUME NEW ended, End(ended) PROVE Ages
  BY <1>2 DEF End, Ages
<1>3. ASSUME NEW u, NEW s \in Sessions, session[s] = "unused",
             session' = [session EXCEPT ![s] = u]
      PROVE  Ages
  BY <1>3 DEF Ages, TypeOK
<1>4. CASE Outside
  BY <1>1, <1>2, <1>3, <1>4
     DEF Outside, CreateUser, InvitationExpires, EngineLogin, RevokeSession
<1>5. ASSUME NEW p \in Procs, Start(p) PROVE Ages
  BY <1>1, <1>5 DEF Start, AdminCall, ScimCall, ScimCreate, AcceptInvitation, Authenticate
<1>6. ASSUME NEW p \in Procs, Continue(p) \/ Fail(p) PROVE Ages
  BY <1>1, <1>2, <1>3, <1>6
     DEF Continue, Look, Write, WriteRefused, Audit, RevokeAllSessions, ListSessions,
         AllDeleted, CreateSessionRefused, DeleteSession, DeleteRefused, CreateSession, Fail
<1> QED
  BY <1>1, <1>4, <1>5, <1>6 DEF Next, vars

\* What another handler is about to sweep, it can still sweep.
LEMMA StaysSwept ==
  ASSUME LifecycleAssumption, Ages, NEW c \in Call, SweptOK(c, session)
  PROVE  SweptOK(c, session')
<1>1. c.before \subseteq Sessions /\ c.uid # "unused"
  BY DEF Call, LifecycleAssumption
<1> QED
  BY <1>1 DEF SweptOK, Ages

LEMMA OthersSwept ==
  ASSUME LifecycleAssumption, SweepInv, Ages, NEW p \in Procs,
         \A q \in Procs \ {p} : procs'[q] = procs[q], SweptOK(procs'[p], session')
  PROVE  \A q \in Procs : SweptOK(procs'[q], session')
<1> SUFFICES ASSUME NEW q \in Procs \ {p} PROVE SweptOK(procs[q], session')
  OBVIOUS
<1>1. CASE procs[q] \in Call
  BY <1>1, StaysSwept DEF SweepInv
<1>2. CASE procs[q] = Idle
  BY <1>2 DEF Idle, SweptOK
<1> QED
  BY <1>1, <1>2 DEF SweepInv, TypeOK

\* A step of a call touches no other call.
LEMMA OneCall ==
  ASSUME TypeOK, NEW p \in Procs, Start(p) \/ Continue(p) \/ Fail(p)
  PROVE  \A q \in Procs \ {p} : procs'[q] = procs[q]
BY DEF Start, AdminCall, ScimCall, ScimCreate, AcceptInvitation, Authenticate, Begin,
       Continue, Look, Write, WriteRefused, Audit, RevokeAllSessions, ListSessions,
       AllDeleted, CreateSessionRefused, DeleteSession, DeleteRefused, CreateSession, Fail, Goto,
       Return, TypeOK

LEMMA SweepStep ==
  ASSUME LifecycleAssumption, SweepInv, [Next]_vars
  PROVE  SweepInv'
<1> USE DEF SweepInv
<1>1. TypeOK' /\ Ages
  BY TypeStep, SessionsAge
<1>2. CASE UNCHANGED <<procs, session>>
  BY <1>1, <1>2
<1>3. CASE Outside
  <2>1. UNCHANGED procs
    BY <1>3 DEF Outside, CreateUser, InvitationExpires, EngineLogin, RevokeSession
  <2>2. ASSUME NEW q \in Procs PROVE SweptOK(procs[q], session')
    <3>1. CASE procs[q] \in Call
      BY <1>1, <3>1, StaysSwept
    <3>2. CASE procs[q] = Idle
      BY <3>2 DEF Idle, SweptOK
    <3> QED
      BY <3>1, <3>2 DEF TypeOK
  <2> QED
    BY <1>1, <2>1, <2>2
<1>4. ASSUME NEW p \in Procs, Start(p) PROVE SweptOK(procs'[p], session')
  BY <1>4 DEF Start, AdminCall, ScimCall, ScimCreate, AcceptInvitation, Authenticate, Begin,
              TypeOK, SweptOK, ScimOps
<1>5. ASSUME NEW p \in Procs, Continue(p) \/ Fail(p) PROVE SweptOK(procs'[p], session')
  <2> DEFINE c == procs[p]
  <2>1. CASE Return(p)
    BY <2>1 DEF Return, Idle, TypeOK, SweptOK
  <2>2. CASE c \in Call /\ ~Return(p)
    <3>1. SweptOK(c, session')
      BY <1>1, <2>2, StaysSwept
    <3>2. CASE Look(p) \/ Audit(p)
      <4>1. Goto(p, "write") \/ Goto(p, "session") \/ (c.pc = "audit" /\ Goto(p, "revoke"))
        BY <2>2, <3>2 DEF Look, Audit, At
      <4>2. /\ procs'[p].pc \in {"write", "session"} \/ (c.pc = "audit" /\ procs'[p].pc = "revoke")
            /\ procs'[p].before = c.before /\ procs'[p].uid = c.uid
        BY <2>2, <4>1 DEF Goto, TypeOK, Call
      <4> QED
        BY <3>1, <4>2 DEF SweptOK
    <3>3. CASE Write(p)
      <4> DEFINE next == AfterWrite(c.op, c.to)
                 call == [c EXCEPT !.pc = next, !.before = SessionsOf(c.uid)]
      <4>1. /\ call.pc = next /\ call.before = SessionsOf(c.uid) /\ call.uid = c.uid
            /\ call.op = c.op
        BY <2>2 DEF Call
      <4>2. procs'[p] = IF next = "idle" THEN Idle ELSE call
        BY <3>3 DEF Write, TypeOK
      <4>3. UNCHANGED session
        BY <3>3 DEF Write
      <4>4. next \in {"idle", "audit", "revoke"} /\ (next = "audit" => c.op \notin ScimOps)
        BY DEF AfterWrite, AdminOps, ScimOps
      <4> HIDE DEF call, next
      <4>5. CASE next = "idle"
        BY <4>2, <4>5 DEF Idle, SweptOK
      <4>6. CASE next # "idle"
        BY <4>1, <4>2, <4>3, <4>4, <4>6 DEF SessionsOf, SweptOK
      <4> QED
        BY <4>5, <4>6
    <3>4. CASE ListSessions(p)
      <4>1. /\ procs'[p].pc = "delete" /\ procs'[p].before = c.before
            /\ procs'[p].uid = c.uid /\ c.pc = "revoke"
            /\ procs'[p].whole => procs'[p].left = SessionsOf(c.uid)
            /\ UNCHANGED session
        BY <3>4, Listed DEF ListSessions
      <4>2. c.before \subseteq Sessions
        BY <2>2 DEF Call
      <4> QED
        BY <3>1, <4>1, <4>2 DEF SweptOK, SessionsOf
    <3>5. ASSUME NEW s \in Sessions, DeleteSession(p, s) PROVE SweptOK(procs'[p], session')
      <4>1. /\ procs'[p].pc = "delete" /\ procs'[p].left = c.left \ {s}
            /\ procs'[p].before = c.before /\ procs'[p].uid = c.uid /\ c.pc = "delete"
            /\ procs'[p].whole = c.whole
        BY <2>2, <3>5 DEF DeleteSession, At, TypeOK, Call
      <4>2. session'[s] = "gone"
        BY <3>5 DEF DeleteSession, End
      <4> QED
        BY <3>1, <4>1, <4>2 DEF SweptOK
    <3> QED
      BY <1>5, <2>2, <3>2, <3>3, <3>4, <3>5
         DEF Continue, WriteRefused, RevokeAllSessions, AllDeleted, CreateSessionRefused,
             DeleteRefused, CreateSession, Fail
  <2>3. c \in Call
    BY <1>5, Busy
       DEF Continue, Look, Write, WriteRefused, Audit, RevokeAllSessions, ListSessions,
           AllDeleted, CreateSessionRefused, DeleteSession, DeleteRefused, CreateSession, Fail, At
  <2> QED
    BY <2>1, <2>2, <2>3
<1> QED
  BY <1>1, <1>2, <1>3, <1>4, <1>5, OneCall, OthersSwept DEF Next, vars

\* A call that bars an identity leaves a session that was alive at the write only
\* if there were more than one answer lists or another call ended a listed one
\* first, over either engine, as long as no request is lost.
THEOREM SweepsAreComplete ==
  ASSUME ~MayFail
  PROVE  Spec => SweepComplete
<1> USE LifecycleAssumption
<1>1. Init => SweepInv
  BY DEF Init, SweepInv, TypeOK, Record, Idle, SweptOK
<1>2. SweepInv /\ [Next]_vars => SweepInv'
  BY SweepStep
<1> DEFINE Swept == \A p \in Procs : Stops(p) /\ procs'[p] = Idle =>
             \/ \A s \in procs[p].before : session'[s] = "gone"
             \/ ~procs[p].whole
             \/ \E s \in procs[p].left : session[s] = "gone"
<1>3. SweepInv /\ [Next]_vars => [Swept]_vars
  <2> SUFFICES ASSUME SweepInv, Next, NEW p \in Procs,
                      procs[p].pc \in {"audit", "revoke", "delete"}, procs[p].op \in Barring,
                      procs'[p] = Idle, procs[p].whole,
                      \A t \in procs[p].left : session[t] # "gone", NEW s \in procs[p].before
               PROVE  session'[s] = "gone"
    BY DEF Stops
  <2> DEFINE c == procs[p]
  <2>1. c \in Call /\ SweptOK(c, session)
    BY Busy DEF SweepInv
  <2>2. s \in Sessions /\ s \in c.before
    BY <2>1 DEF Call
  <2>3. procs' # procs
    BY DEF Idle
  <2>4. ~Outside
    BY <2>3 DEF Outside, CreateUser, InvitationExpires, EngineLogin, RevokeSession
  <2>5. PICK q \in Procs : Start(q) \/ Continue(q)
    BY <2>4 DEF Next, Fail
  <2>6. q = p
    BY <2>5, OneCall DEF SweepInv, Idle
  <2>7. Continue(p)
    BY <2>5, <2>6 DEF Start, AdminCall, ScimCall, ScimCreate, AcceptInvitation,
                      Authenticate, At
  <2>8. CASE RevokeAllSessions(p)
    <3>1. session' = [t \in Sessions |-> IF t \in SessionsOf(c.uid) THEN "gone" ELSE session[t]]
      BY <2>8 DEF RevokeAllSessions, End
    <3>2. session[s] \in {c.uid, "gone"}
      BY <2>1, <2>2 DEF SweptOK
    <3> QED
      BY <2>2, <3>1, <3>2 DEF SessionsOf
  <2>9. CASE AllDeleted(p)
    BY <2>1, <2>2, <2>9 DEF AllDeleted, At, SweptOK
  <2>10. CASE Audit(p)
    <3>1. c.pc = "audit" /\ c.op \in {"suspend", "lock", "terminate"}
      BY <2>1, <2>10 DEF Audit, At, SweptOK, Barring
    <3>2. Goto(p, "revoke")
      BY <2>10, <3>1 DEF Audit
    <3>3. procs'[p].pc = "revoke"
      BY <2>1, <3>2 DEF Goto, Call, SweepInv, TypeOK
    <3> QED
      BY <3>3 DEF Idle
  <2>11. CASE ListSessions(p) \/ \E t \in Sessions : DeleteSession(p, t)
    <3>1. ListSessions(p) => procs'[p].pc = "delete"
      BY Listed DEF SweepInv
    <3>2. ASSUME NEW t \in Sessions, DeleteSession(p, t) PROVE procs'[p].pc = "delete"
      <4>1. c.pc = "delete" /\ procs'[p] = [c EXCEPT !.left = @ \ {t}]
        BY <3>2 DEF DeleteSession, At, SweepInv, TypeOK
      <4> QED
        BY <2>1, <4>1 DEF Call
    <3> QED
      BY <2>11, <3>1, <3>2 DEF Idle
  <2> QED
    BY <2>7, <2>8, <2>9, <2>10, <2>11
       DEF Continue, DeleteRefused, Look, Write, WriteRefused, CreateSessionRefused, CreateSession, At
<1> QED
  BY <1>1, <1>2, <1>3, PTL DEF Spec, SweepComplete


----------------------------------------------------------------------------
(* No session without a handler on its way.  What a call writes goes with  *)
(* what it was called for: every way out of ACTIVE is a handler that goes  *)
(* on to revoke.  An invitation is the exception: it may write back a      *)
(* state that bars, and does no harm only while nobody runs in between.    *)

ShapeOK(c, users) ==
  /\ c.pc = "audit" => c.op \notin ScimOps
  /\ c.pc \in {"look", "write"} =>
       /\ c.op # "login"
       /\ c.op \in AdminOps => c.to = Target(c.op)
       /\ c.op \in ScimOps => c.to # "LOCKED"
       /\ c.op = "accept" => c.to \in {"ACTIVE", users[c.uid].state}

\* A handler that stopped u and has yet to revoke.
OnTheWay(c, u) == c.pc \in {"audit", "revoke"} /\ c.op \in Barring /\ c.uid = u

ShippedInv ==
  /\ IInv /\ \A p \in Procs : ShapeOK(procs[p], user)
  /\ InactiveHasNoSession

\* Nobody writes a state while another call is between its look and its write.
LEMMA StatesRest ==
  ASSUME ~Yields, NEW p \in Procs, Start(p) \/ Continue(p) \/ Fail(p),
         NEW q \in Procs \ {p}, procs[q].pc \in {"look", "write"}
  PROVE  UNCHANGED user
<1>1. ~Turn(p)
  BY DEF Turn
<1> QED
  BY <1>1 DEF Start, AdminCall, ScimCall, ScimCreate, AcceptInvitation, Authenticate,
       Continue, Look, Write, WriteRefused, Audit, RevokeAllSessions, ListSessions,
       AllDeleted, CreateSessionRefused, DeleteSession, DeleteRefused, CreateSession, Fail, At

LEMMA ShapeStep ==
  ASSUME LifecycleAssumption, ~Yields, IInv, \A p \in Procs : ShapeOK(procs[p], user),
         [Next]_vars
  PROVE  \A p \in Procs : ShapeOK(procs'[p], user')
<1> USE DEF IInv
<1>1. CASE UNCHANGED <<procs, user>>
  BY <1>1
<1>2. CASE Outside
  <2>1. UNCHANGED procs
    BY <1>2 DEF Outside, CreateUser, InvitationExpires, EngineLogin, RevokeSession
  <2>2. \A u \in Users : user[u].state # "NONE" => user'[u].state = user[u].state
    BY <1>2 DEF Outside, CreateUser, InvitationExpires, EngineLogin, RevokeSession, TypeOK
  <2> SUFFICES ASSUME NEW p \in Procs, procs[p].pc \in {"look", "write"}
               PROVE  ShapeOK(procs[p], user')
    BY <2>1 DEF ShapeOK
  <2>3. procs[p].uid \in Users /\ PendingOK(procs[p], user) /\ ShapeOK(procs[p], user)
    BY Busy
  <2>4. user'[procs[p].uid].state = user[procs[p].uid].state
    BY <2>2, <2>3 DEF PendingOK
  <2> QED
    BY <2>3, <2>4 DEF ShapeOK
<1>3. ASSUME NEW p \in Procs, Start(p) \/ Continue(p) \/ Fail(p),
             ShapeOK(procs'[p], user')
      PROVE  \A q \in Procs : ShapeOK(procs'[q], user')
  <2> SUFFICES ASSUME NEW q \in Procs \ {p} PROVE ShapeOK(procs'[q], user')
    BY <1>3
  <2>1. procs'[q] = procs[q] /\ ShapeOK(procs[q], user)
    BY <1>3, OneCall
  <2>2. CASE procs[q].pc \in {"look", "write"}
    BY <1>3, <2>1, <2>2, StatesRest
  <2>3. CASE procs[q].pc \notin {"look", "write"}
    BY <2>1, <2>3 DEF ShapeOK
  <2> QED
    BY <2>2, <2>3
<1>4. ASSUME NEW p \in Procs, Start(p) PROVE ShapeOK(procs'[p], user')
  <2>1. ASSUME NEW u \in Users, NEW op \in AdminOps, AdminCall(p, op, u)
        PROVE  ShapeOK(procs'[p], user')
    BY <2>1 DEF AdminCall, Begin, TypeOK, ShapeOK, AdminOps, ScimOps
  <2>2. ASSUME NEW u \in Users, NEW op \in ScimOps, ScimCall(p, op, u)
        PROVE  ShapeOK(procs'[p], user')
    <3>1. user[u].state \in UserStates
      BY <2>2 DEF ScimCall, TypeOK, Record
    <3>2. NextStateFromScim(user[u].state, op) # "LOCKED"
      BY <2>2, <3>1 DEF ScimCall, ScimWrites, NextStateFromScim, ScimOps, UserStates
    <3> QED
      BY <2>2, <3>2 DEF ScimCall, Begin, TypeOK, ShapeOK, AdminOps, ScimOps
  <2>3. ASSUME NEW u \in Users, NEW op \in ScimOps, ScimCreate(p, op, u)
        PROVE  ShapeOK(procs'[p], user')
    <3>1. NextStateFromScim("INVITED", op) # "LOCKED"
      BY DEF NextStateFromScim, ScimOps
    <3> QED
      BY <2>3, <3>1 DEF ScimCreate, Begin, TypeOK, ShapeOK, AdminOps, ScimOps
  <2>4. ASSUME NEW u \in Users, AcceptInvitation(p, u) PROVE ShapeOK(procs'[p], user')
    BY <2>4 DEF AcceptInvitation, Begin, TypeOK, ShapeOK, AdminOps, ScimOps
  <2>5. ASSUME NEW u \in Users, Authenticate(p, u) PROVE ShapeOK(procs'[p], user')
    BY <2>5 DEF Authenticate, Begin, TypeOK, ShapeOK, ScimOps
  <2> QED
    BY <1>4, <2>1, <2>2, <2>3, <2>4, <2>5 DEF Start
<1>5. ASSUME NEW p \in Procs, Continue(p) \/ Fail(p) PROVE ShapeOK(procs'[p], user')
  <2> DEFINE c == procs[p]
  <2>1. c \in Call
    BY <1>5, Busy
       DEF Continue, Look, Write, WriteRefused, Audit, RevokeAllSessions, ListSessions,
           AllDeleted, CreateSessionRefused, DeleteSession, DeleteRefused, CreateSession, Fail, At
  <2>2. CASE Return(p)
    BY <2>2 DEF Return, Idle, TypeOK, ShapeOK
  <2>3. CASE Look(p) /\ ~Return(p)
    <3>1. c.pc = "look" /\ Goto(p, "write") /\ UNCHANGED user
      BY <2>3 DEF Look, At
    <3>2. /\ procs'[p].pc = "write" /\ procs'[p].op = c.op /\ procs'[p].to = c.to
          /\ procs'[p].uid = c.uid
      BY <2>1, <3>1 DEF Goto, TypeOK, Call
    <3>3. ShapeOK(c, user)
      OBVIOUS
    <3> QED
      BY <3>1, <3>2, <3>3 DEF ShapeOK
  <2>4. CASE Write(p)
    <3> DEFINE next == AfterWrite(c.op, c.to)
               call == [c EXCEPT !.pc = next, !.before = SessionsOf(c.uid)]
    <3>1. call.pc = next /\ call.op = c.op
      BY <2>1 DEF Call
    <3>2. procs'[p] = IF next = "idle" THEN Idle ELSE call
      BY <2>4 DEF Write, TypeOK
    <3>3. next \in {"idle", "audit", "revoke"} /\ (next = "audit" => c.op \notin ScimOps)
      BY DEF AfterWrite, AdminOps, ScimOps
    <3> HIDE DEF call, next
    <3> QED
      BY <3>1, <3>2, <3>3 DEF Idle, ShapeOK
  <2>5. CASE (Audit(p) \/ ListSessions(p) \/ \E s \in Sessions : DeleteSession(p, s))
             /\ ~Return(p)
    <3>1. Audit(p) => Goto(p, "revoke") \/ Goto(p, "session")
      BY <2>5 DEF Audit
    <3>2. Audit(p) => procs'[p].pc \in {"revoke", "session"}
      BY <2>1, <3>1 DEF Goto, TypeOK, Call
    <3>3. ListSessions(p) => procs'[p].pc = "delete"
      BY Listed
    <3>4. ASSUME NEW s \in Sessions, DeleteSession(p, s) PROVE procs'[p].pc = "delete"
      <4>1. c.pc = "delete" /\ procs'[p] = [c EXCEPT !.left = @ \ {s}]
        BY <3>4 DEF DeleteSession, At, TypeOK
      <4> QED
        BY <2>1, <4>1 DEF Call
    <3> QED
      BY <2>5, <3>2, <3>3, <3>4 DEF ShapeOK
  <2> QED
    BY <1>5, <2>2, <2>3, <2>4, <2>5
       DEF Continue, WriteRefused, RevokeAllSessions, AllDeleted, CreateSessionRefused,
           DeleteRefused, CreateSession, Fail
<1> QED
  BY <1>1, <1>2, <1>3, <1>4, <1>5 DEF Next, vars

\* Whoever takes an identity out of ACTIVE goes on to revoke its sessions.
LEMMA WriteBars ==
  ASSUME Engine = "memory", IInv, NEW p \in Procs, ShapeOK(procs[p], user), Write(p),
         user[procs[p].uid].state = "ACTIVE", procs[p].to # "ACTIVE"
  PROVE  OnTheWay(procs'[p], procs[p].uid)
<1> DEFINE c == procs[p]
           next == AfterWrite(c.op, c.to)
           call == [c EXCEPT !.pc = next, !.before = SessionsOf(c.uid)]
<1>1. c \in Call /\ c.op \in Ops /\ c.pc = "write"
  BY Busy DEF Write, At, IInv
<1>2. c.to \in {"SUSPENDED", "LOCKED", "ARCHIVED"}
  BY WriteMoves DEF CanTransition, ALLOWED
<1>3. c.op \in Barring /\ next \in {"audit", "revoke"}
  <2>1. CASE c.op \in AdminOps
    <3>1. c.to = Target(c.op)
      BY <1>1, <2>1 DEF ShapeOK
    <3> QED
      BY <1>2, <2>1, <3>1 DEF Target, AdminOps, Barring, AfterWrite
  <2>2. CASE c.op \in ScimOps
    <3>1. c.to # "LOCKED"
      BY <1>1, <2>2 DEF ShapeOK
    <3> QED
      BY <1>2, <2>2, <3>1 DEF ScimOps, AdminOps, Barring, AfterWrite
  <2>3. CASE c.op \in {"accept", "login"}
    BY <1>1, <2>3 DEF ShapeOK
  <2> QED
    BY <1>1, <2>1, <2>2, <2>3 DEF Ops
<1>4. /\ call.pc = next /\ call.op = c.op /\ call.uid = c.uid
  BY <1>1 DEF Call
<1>5. procs'[p] = call
  BY <1>3 DEF Write, IInv, TypeOK
<1> HIDE DEF call, next
<1> QED
  BY <1>3, <1>4, <1>5 DEF OnTheWay

\* Over the memory engine a session begins for an active identity only.
LEMMA SessionsBegin ==
  ASSUME LifecycleAssumption, Engine = "memory", IInv, Next, NEW u \in Users, NEW s \in Sessions,
         session'[s] = u, session[s] # u
  PROVE  user'[u].state = "ACTIVE"
<1> USE DEF IInv
<1>1. u # "gone" /\ session' # session
  BY DEF LifecycleAssumption
<1>2. \A ended : ~End(ended)
  BY <1>1 DEF End
<1>3. PICK p \in Procs : \E t \in Sessions : CreateSession(p, t)
  BY <1>1, <1>2
     DEF Next, Outside, CreateUser, InvitationExpires, EngineLogin, RevokeSession,
         Start, AdminCall, ScimCall, ScimCreate, AcceptInvitation, Authenticate,
         Continue, Look, Write, WriteRefused, Audit, RevokeAllSessions, ListSessions,
         AllDeleted, CreateSessionRefused, DeleteSession, DeleteRefused, Fail
<1>4. PICK t \in Sessions : CreateSession(p, t)
  BY <1>3
<1>5. UNCHANGED user /\ session' = [session EXCEPT ![t] = procs[p].uid]
      /\ user[procs[p].uid].state = "ACTIVE"
  BY <1>4 DEF CreateSession, MaySignIn
<1>6. u = procs[p].uid
  BY <1>5 DEF TypeOK
<1> QED
  BY <1>5, <1>6

\* Only a write takes an identity out of ACTIVE.
LEMMA LeavesActive ==
  ASSUME IInv, Next, NEW u \in Users, user[u].state = "ACTIVE", user'[u].state # "ACTIVE"
  PROVE  \E p \in Procs : Write(p) /\ procs[p].uid = u /\ procs[p].to # "ACTIVE"
<1> USE DEF IInv
<1>1. user' # user
  OBVIOUS
<1>2. ~Outside
  BY <1>1 DEF Outside, CreateUser, InvitationExpires, EngineLogin, RevokeSession, TypeOK
<1>3. ASSUME NEW p \in Procs, Start(p) PROVE FALSE
  BY <1>1, <1>3
     DEF Start, AdminCall, ScimCall, ScimCreate, AcceptInvitation, Authenticate, TypeOK, Record
<1>4. PICK p \in Procs : Write(p)
  BY <1>1, <1>2, <1>3
     DEF Next, Continue, Look, WriteRefused, Audit, RevokeAllSessions, ListSessions,
         AllDeleted, CreateSessionRefused, DeleteSession, DeleteRefused, CreateSession, Fail
<1>5. user' = [user EXCEPT ![procs[p].uid] =
                 [state |-> procs[p].to, isActive |-> ActiveFlag(procs[p].op, procs[p].to)]]
  BY <1>4 DEF Write
<1>6. procs[p].uid = u /\ procs[p].to # "ACTIVE"
  BY <1>5 DEF TypeOK
<1> QED
  BY <1>4, <1>6

\* A handler on its way stays on its way, until its revocation has run.
LEMMA OnItsWay ==
  ASSUME Engine = "memory", ~MayFail, ShippedInv, Next, NEW u \in Users,
         NEW q \in Procs, OnTheWay(procs[q], u)
  PROVE  OnTheWay(procs'[q], u) \/ SessionsOf(u)' = {}
<1> USE DEF ShippedInv, IInv
<1>1. CASE procs'[q] = procs[q]
  BY <1>1
<1>2. CASE procs'[q] # procs[q]
  <2>1. ~Outside
    BY <1>2 DEF Outside, CreateUser, InvitationExpires, EngineLogin, RevokeSession
  <2>2. Start(q) \/ Continue(q)
    BY <1>2, <2>1, OneCall DEF Next, Fail
  <2>3. Audit(q) \/ RevokeAllSessions(q)
    BY <2>2 DEF OnTheWay, Start, AdminCall, ScimCall, ScimCreate, AcceptInvitation,
                Authenticate, Continue, Look, Write, WriteRefused, ListSessions, AllDeleted,
                CreateSessionRefused, DeleteSession, DeleteRefused, CreateSession, At
  <2>4. CASE Audit(q)
    <3>1. procs[q] \in Call /\ procs[q].pc = "audit" /\ ShapeOK(procs[q], user)
      BY <2>4, Busy DEF Audit, At
    <3>2. procs[q].op \in {"suspend", "lock", "terminate"}
      BY <3>1 DEF ShapeOK, OnTheWay, Barring
    <3>3. Goto(q, "revoke")
      BY <2>4, <3>2 DEF Audit
    <3>4. procs'[q].pc = "revoke" /\ procs'[q].op = procs[q].op /\ procs'[q].uid = procs[q].uid
      BY <3>1, <3>3 DEF Goto, TypeOK, Call
    <3> QED
      BY <3>4 DEF OnTheWay
  <2>5. CASE RevokeAllSessions(q)
    BY <2>5, LifecycleAssumption DEF RevokeAllSessions, End, SessionsOf, OnTheWay, LifecycleAssumption
  <2> QED
    BY <2>3, <2>4, <2>5
<1> QED
  BY <1>1, <1>2

LEMMA ShippedStep ==
  ASSUME LifecycleAssumption, Engine = "memory", ~Yields, ~MayFail, ShippedInv, [Next]_vars
  PROVE  ShippedInv'
<1>1. IInv'
  BY TypeStep, PendingStep DEF ShippedInv, IInv
<1>2. \A p \in Procs : ShapeOK(procs'[p], user')
  BY ShapeStep DEF ShippedInv
<1>3. InactiveHasNoSession'
  <2>1. CASE UNCHANGED vars
    BY <2>1 DEF vars, ShippedInv, InactiveHasNoSession, SessionsOf
  <2>2. CASE Next
    <3> SUFFICES ASSUME NEW u \in Users, user'[u].state # "ACTIVE", SessionsOf(u)' # {}
                 PROVE  \E p \in Procs : OnTheWay(procs'[p], u)
      BY DEF InactiveHasNoSession, OnTheWay
    <3>1. SessionsOf(u) # {}
      BY <2>2, SessionsBegin DEF SessionsOf, ShippedInv
    <3>2. CASE user[u].state = "ACTIVE"
      BY <2>2, <3>2, LeavesActive, WriteBars DEF ShippedInv
    <3>3. CASE user[u].state # "ACTIVE"
      <4>1. PICK q \in Procs : OnTheWay(procs[q], u)
        BY <3>1, <3>3 DEF ShippedInv, InactiveHasNoSession, OnTheWay
      <4> QED
        BY <2>2, <4>1, OnItsWay
    <3> QED
      BY <3>2, <3>3
  <2> QED
    BY <2>1, <2>2
<1> QED
  BY <1>1, <1>2, <1>3 DEF ShippedInv

\* Over the memory engine as the console runs it, an identity that is not active has no
\* session unless the handler that stopped it is still to revoke, for any number of
\* identities, logins and handlers that overlap while webhooks are out.
THEOREM NoSessionWhenBarred ==
  ASSUME Engine = "memory", ~Yields, ~MayFail
  PROVE  Spec => []InactiveHasNoSession
<1> USE LifecycleAssumption
<1>1. Init => ShippedInv
  <2> SUFFICES ASSUME Init PROVE ShippedInv
    OBVIOUS
  <2>1. TypeOK
    BY DEF Init, TypeOK, Record, Idle
  <2>2. \A p \in Procs : PendingOK(procs[p], user) /\ ShapeOK(procs[p], user)
    BY DEF Init, PendingOK, ShapeOK, Idle
  <2>3. InactiveHasNoSession
    BY DEF Init, InactiveHasNoSession, SessionsOf, LifecycleAssumption
  <2> QED
    BY <2>1, <2>2, <2>3 DEF ShippedInv, IInv
<1>2. ShippedInv /\ [Next]_vars => ShippedInv'
  BY ShippedStep
<1>3. ShippedInv => InactiveHasNoSession
  BY DEF ShippedInv
<1> QED
  BY <1>1, <1>2, <1>3, PTL DEF Spec

=============================================================================
