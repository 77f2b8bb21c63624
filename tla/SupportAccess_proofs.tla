------------------------ MODULE SupportAccess_proofs ------------------------
(***************************************************************************)
(* Proofs about SupportAccess, for any people, requests, handlers and      *)
(* store.                                                                  *)
(***************************************************************************)
EXTENDS SupportAccess, Authz_proofs

USE SupportAssumption

-----------------------------------------------------------------------------
(* Types.                                                                  *)

LEMMA RowTypes ==
  /\ Absent \notin Request
  /\ Idle \notin Call
  /\ NoGrant \notin Grant
BY DEF Absent, Request, Idle, Call, NoGrant, Grant, SUPPORT_STATUSES

LEMMA BaseType == \A p \in People : Base(p) \in Principal
BY DEF Base, Principal

LEMMA CallersType == ASSUME TypeOK PROVE Callers \subseteq Principal
BY BaseType DEF TypeOK, Callers

\* A handler that is not idle holds a call.
LEMMA Busy ==
  ASSUME TypeOK, NEW p \in Procs, procs[p].pc \in {"commit", "audit", "dispatch"}
  PROVE  procs[p] \in Call /\ procs[p] # Idle
BY DEF TypeOK, Idle

LEMMA PutType ==
  ASSUME TypeOK, NEW p \in Procs, procs[p] \in Call,
         NEW row \in Request, NEW pc \in {"idle", "audit"}, Put(p, row, pc)
  PROVE  /\ support' \in [Requests -> Request \union {Absent}]
         /\ procs' \in [Procs -> Call \union {Idle}]
<1>1. procs[p].rid \in Requests
  BY DEF Call
<1>2. [procs[p] EXCEPT !.pc = "audit"] \in Call
  BY DEF Call
<1> QED
  BY <1>1, <1>2 DEF Put, TypeOK

LEMMA TypeInit == Init => TypeOK
BY DEF Init, TypeOK

LEMMA TypeStep == TypeOK /\ [Next]_vars => TypeOK'
<1> SUFFICES ASSUME TypeOK, [Next]_vars PROVE TypeOK'
  OBVIOUS
<1>1. CASE UNCHANGED vars
  BY <1>1 DEF vars, TypeOK
<1>2. CASE ClockTick
  BY <1>2 DEF ClockTick, TypeOK
<1>3. ASSUME NEW p \in Procs, Handler(p) PROVE TypeOK'
  <2>1. ASSUME NEW caller \in Callers, NEW r \in Requests, NEW org \in Orgs,
               NEW scopes \in ScopeChoices, NEW breakGlass \in BOOLEAN,
               RequestSupportAccess(p, caller, r, org, scopes, breakGlass)
        PROVE  TypeOK'
    <3> DEFINE row == NewRequest(caller, org, scopes, breakGlass)
    <3>1. caller \in Principal /\ caller.actorId \in People
      BY CallersType DEF Principal
    <3>2. row \in Request
      BY <3>1 DEF NewRequest, Request, Person, SUPPORT_STATUSES
    <3>3. NewCall("audit", "request", caller, r, row, FALSE) \in Call
      BY <3>1, <3>2 DEF NewCall, Call, Ops
    <3> QED
      BY <2>1, <3>2, <3>3 DEF RequestSupportAccess, TypeOK
  <2>2. ASSUME NEW op \in Ops \ {"request"}, NEW caller \in Callers,
               NEW r \in Requests, NEW notes \in BOOLEAN,
               Load(p, op, caller, r, notes)
        PROVE  TypeOK'
    <3>1. support[r] \in Request
      BY <2>2 DEF Load, TypeOK
    <3>2. NewCall("commit", op, caller, r, support[r], notes) \in Call
      BY <3>1, CallersType DEF NewCall, Call
    <3> QED
      BY <2>2, <3>2 DEF Load, TypeOK
  <2>3. ASSUME NEW row \in Request, NEW pc \in {"idle", "audit"},
               procs[p] \in Call, Put(p, row, pc), approvals' \subseteq Approval
        PROVE  TypeOK'
    BY <2>3, PutType DEF TypeOK, Put
  <2>4. CASE procs[p].pc = "commit" /\ procs[p] \in Call
    <3> DEFINE c == procs[p]
    <3>1. /\ c \in Call /\ c.seen \in Request /\ c.caller \in Principal
          /\ c.caller.actorId \in People /\ c.rid \in Requests
      BY <2>4 DEF Call, Principal
    <3>2. CASE FirstApproval(p)
      <4>1. [c.seen EXCEPT !.status = "pending_second",
                           !.firstApproverId = c.caller.actorId] \in Request
        BY <3>1 DEF Request, Person, SUPPORT_STATUSES
      <4> QED
        BY <2>3, <3>1, <3>2, <4>1 DEF FirstApproval, TypeOK
    <3>3. CASE FinalApproval(p)
      <4>0. now + TTL \in Nat
        BY DEF TypeOK
      <4>1. [c.seen EXCEPT !.status = "approved", !.approvedBy = c.caller.actorId,
                           !.expiresAt = now + TTL] \in Request
        BY <3>1, <4>0 DEF Request, Person, SUPPORT_STATUSES
      <4>2. [request |-> c.rid, first |-> c.seen.firstApproverId,
             second |-> c.caller.actorId, at |-> now] \in Approval
        BY <3>1 DEF Approval, TypeOK, Request
      <4>3. approvals' \subseteq Approval
        BY <3>3, <4>2 DEF FinalApproval, TypeOK
      <4> QED
        BY <2>3, <3>1, <3>3, <4>1, <4>3 DEF FinalApproval
    <3>4. CASE DenySupportAccess(p)
      <4>1. [c.seen EXCEPT !.status = "denied",
                           !.approvedBy = c.caller.actorId] \in Request
        BY <3>1 DEF Request, Person, SUPPORT_STATUSES
      <4> QED
        BY <2>3, <3>1, <3>4, <4>1 DEF DenySupportAccess, TypeOK
    <3>5. ASSUME NEW s \in SUPPORT_STATUSES
          PROVE  [c.seen EXCEPT !.status = s] \in Request
      BY <3>1 DEF Request
    <3>6. {"active", "ended", "reviewed", "expired"} \subseteq SUPPORT_STATUSES
      BY DEF SUPPORT_STATUSES
    <3>7. CASE StartSupportAccess(p)
      BY <2>3, <3>1, <3>5, <3>6, <3>7 DEF StartSupportAccess, TypeOK
    <3>8. CASE EndSupportAccess(p)
      BY <2>3, <3>1, <3>5, <3>6, <3>8 DEF EndSupportAccess, TypeOK
    <3>9. CASE ReviewSupportAccess(p)
      BY <2>3, <3>1, <3>5, <3>6, <3>9 DEF ReviewSupportAccess, TypeOK
    <3>10. CASE TickSupportExpiry(p)
      BY <2>3, <3>1, <3>5, <3>6, <3>10 DEF TickSupportExpiry, TypeOK
    <3>11. CASE Refuse(p)
      BY <3>11 DEF Refuse, TypeOK
    <3> QED
      BY <2>1, <2>2, <2>4, <3>2, <3>3, <3>4, <3>7, <3>8, <3>9, <3>10, <3>11,
         <1>3 DEF Handler, Record, Respond
  <2>5. CASE Record(p)
    <3>1. procs[p] \in Call
      BY <2>5, Busy DEF Record
    <3>2. [procs[p] EXCEPT !.pc = "dispatch"] \in Call
      BY <3>1 DEF Call
    <3>3. [action |-> EventOf(procs[p].op), request |-> procs[p].rid] \in Event
      BY <3>1 DEF Call, Event, EventOf
    <3> QED
      BY <2>5, <3>2, <3>3 DEF Record, TypeOK
  <2>6. CASE Respond(p)
    <3> DEFINE c == procs[p]
    <3>1. c \in Call
      BY <2>6, Busy DEF Respond
    <3>2. GrantFor(c) \in Grant
      BY <3>1 DEF GrantFor, Grant, Call, Request
    <3>3. [c.caller EXCEPT !.supportGrant = GrantFor(c)] \in Principal
      BY <3>1, <3>2 DEF Call, Principal
    <3> QED
      BY <2>6, <3>3 DEF Respond, TypeOK
  <2> QED
    BY <1>3, <2>1, <2>2, <2>4, <2>5, <2>6, Busy
       DEF Handler, FirstApproval, FinalApproval, DenySupportAccess, At,
           StartSupportAccess, EndSupportAccess, ReviewSupportAccess,
           TickSupportExpiry, Refuse
<1> QED
  BY <1>1, <1>2, <1>3 DEF Next

\* Every variable keeps its type: rows, calls in flight, grants and events are
\* well formed in every reachable state of every instance.
THEOREM SupportTypes == Spec => []TypeOK
BY TypeInit, TypeStep, PTL DEF Spec

-----------------------------------------------------------------------------
(* The inductive invariant.                                                *)

LEMMA SupportIInvInit == Init => IInv
BY TypeInit DEF Init, IInv, RowsOK, CallsOK, IssuedOK, ApprovalsOK

\* A step may rewrite rows, but not who asked, where and for what; approvals
\* are only added and time does not go back.
Monotone ==
  /\ \A r \in Requests : support[r] # Absent =>
       support'[r] # Absent /\ SameRequest(support'[r], support[r])
  /\ approvals \subseteq approvals'
  /\ now <= now'

\* Facts about the request behind a row survive such a step.
LEMMA Persist ==
  ASSUME TypeOK, TypeOK', Monotone
  PROVE  /\ \A r \in Requests, row \in Request :
              RowOK(row, r, approvals) => RowOK(row, r, approvals')
         /\ \A pr \in Principal :
              CallerOK(pr, support, approvals) => CallerOK(pr, support', approvals')
         /\ \A c \in Call :
              CallOK(c, support, approvals) => CallOK(c, support', approvals')
         /\ \A a \in approvals :
              ApprovalOK(a, support, now) => ApprovalOK(a, support', now')
<1>1. \A r, e : Backed(r, e, approvals) => Backed(r, e, approvals')
  BY DEF Backed, Monotone
<1>2. \A r \in Requests, row \in Request :
        RowOK(row, r, approvals) => RowOK(row, r, approvals')
  BY <1>1 DEF RowOK
<1>3. \A pr \in Principal :
        CallerOK(pr, support, approvals) => CallerOK(pr, support', approvals')
  <2> SUFFICES ASSUME NEW pr \in Principal, CallerOK(pr, support, approvals),
                      pr.supportGrant # NoGrant
               PROVE  CallerOK(pr, support', approvals')
    BY DEF CallerOK
  <2>1. pr.supportGrant.requestId \in Requests
    BY DEF Principal, Grant
  <2> QED
    BY <1>1, <2>1 DEF CallerOK, Monotone, SameRequest
<1>4. \A c \in Call :
        CallOK(c, support, approvals) => CallOK(c, support', approvals')
  <2> SUFFICES ASSUME NEW c \in Call, CallOK(c, support, approvals)
               PROVE  CallOK(c, support', approvals')
    OBVIOUS
  <2>1. c.rid \in Requests /\ c.seen \in Request /\ c.caller \in Principal
    BY DEF Call
  <2> QED
    BY <1>2, <1>3, <2>1 DEF CallOK, Monotone, SameRequest
<1>5. \A a \in approvals :
        ApprovalOK(a, support, now) => ApprovalOK(a, support', now')
  <2> SUFFICES ASSUME NEW a \in approvals, ApprovalOK(a, support, now)
               PROVE  ApprovalOK(a, support', now')
    OBVIOUS
  <2>1. a.request \in Requests /\ a.at \in Nat /\ now \in Nat /\ now' \in Nat
    BY DEF TypeOK, Approval
  <2> QED
    BY <2>1 DEF ApprovalOK, Monotone, SameRequest
<1> QED
  BY <1>2, <1>3, <1>4, <1>5

\* Every caller in the system is one a session or a grant accounts for.
LEMMA KnownCallers ==
  ASSUME IInv
  PROVE  \A pr \in Callers : pr \in Principal /\ CallerOK(pr, support, approvals)
BY CallersType DEF IInv, Callers, IssuedOK, CallerOK, Base

\* The scopes of a known caller's grant are support scopes.
LEMMA GrantScopes ==
  ASSUME IInv, NEW pr \in Principal, CallerOK(pr, support, approvals)
  PROVE  pr.supportGrant.scopes \subseteq ALLOWED_SUPPORT_SCOPES
<1>1. CASE pr.supportGrant = NoGrant
  BY <1>1 DEF NoGrant
<1>2. CASE pr.supportGrant # NoGrant
  <2>1. pr.supportGrant.requestId \in Requests
    BY <1>2 DEF Principal, Grant
  <2> QED
    BY <1>2, <2>1 DEF IInv, RowsOK, RowOK, CallerOK
<1> QED
  BY <1>1, <1>2

\* Only an operator passes the check of requestSupportAccess.
LEMMA RequesterIsOperator ==
  ASSUME IInv, NEW pr \in Principal, CallerOK(pr, support, approvals),
         Authorized(pr, "support.request", None, now)
  PROVE  RoleOf[pr.actorId] = Operator
<1>1. "support.request" \notin pr.supportGrant.scopes
  BY GrantScopes DEF ALLOWED_SUPPORT_SCOPES
<1>2. pr.role \in MATRIX("support.request")
  BY <1>1, ByRole
<1> QED
  BY <1>2 DEF MATRIX, PLATFORM_ONLY, CallerOK

\* Whoever passes the check of the approving handlers decides for the
\* organisation by their own role: a support grant never lends that power.
LEMMA ApproverDecides ==
  ASSUME IInv, NEW pr \in Principal, CallerOK(pr, support, approvals), NEW org \in Orgs,
         Authorized(pr, "support.approve", org, now)
  PROVE  Decides(pr.actorId, org)
<1>1. "support.approve" \notin pr.supportGrant.scopes
  BY GrantScopes DEF ALLOWED_SUPPORT_SCOPES
<1>2. pr.role \in MATRIX("support.approve") /\ MayTouch(pr, org, now)
  BY <1>1, ByRole DEF PLATFORM_ONLY
<1>3. pr.role # Operator
  BY <1>2, OperatorHoldsNone DEF TenantPermissions
<1>4. pr.supportGrant = NoGrant
  <2> SUFFICES ASSUME pr.supportGrant # NoGrant PROVE FALSE
    OBVIOUS
  <2>1. pr.supportGrant.requestId \in Requests
    BY DEF Principal, Grant
  <2> QED
    BY <1>3, <2>1 DEF IInv, RowsOK, RowOK, CallerOK
<1>5. pr.organisationId = org
  BY <1>2, <1>4 DEF MayTouch, NoGrant
<1> QED
  BY <1>2, <1>5 DEF Decides, CallerOK, Principal

\* What a step must show: it is monotone and what it adds is well founded.
LEMMA Combine ==
  ASSUME IInv, TypeOK', Monotone,
         \A r \in Requests : support'[r] # support[r] => RowOK(support'[r], r, approvals'),
         \A p \in Procs : procs'[p] # procs[p] /\ procs'[p] # Idle
                            => CallOK(procs'[p], support', approvals'),
         \A pr \in issued' \ issued : CallerOK(pr, support', approvals'),
         \A a \in approvals' \ approvals : ApprovalOK(a, support', now')
  PROVE  IInv'
<1> USE DEF IInv
<1>1. RowsOK'
  <2> SUFFICES ASSUME NEW r \in Requests, support'[r] # Absent
               PROVE  RowOK(support'[r], r, approvals')
    BY DEF RowsOK
  <2>1. support[r] # Absent => support[r] \in Request
    BY DEF TypeOK
  <2> QED
    BY <2>1, Persist DEF RowsOK
<1>2. CallsOK'
  <2> SUFFICES ASSUME NEW p \in Procs, procs'[p] # Idle
               PROVE  CallOK(procs'[p], support', approvals')
    BY DEF CallsOK
  <2>1. procs[p] # Idle => procs[p] \in Call
    BY DEF TypeOK
  <2> QED
    BY <2>1, Persist DEF CallsOK
<1>3. IssuedOK'
  BY Persist DEF IssuedOK, TypeOK
<1>4. ApprovalsOK'
  BY Persist DEF ApprovalsOK
<1> QED
  BY <1>1, <1>2, <1>3, <1>4

\* The second half of a handler: the row it writes describes the request it
\* loaded, so overwriting even a newer row keeps the invariant.
LEMMA PutInv ==
  ASSUME IInv, TypeOK', NEW p \in Procs, procs[p] \in Call, procs[p] # Idle,
         NEW row \in Request, NEW pc \in {"idle", "audit"},
         Put(p, row, pc), SameRequest(row, procs[p].seen),
         approvals \subseteq approvals',
         RowOK(row, procs[p].rid, approvals'),
         \A a \in approvals' \ approvals : ApprovalOK(a, support', now'),
         procs[p].op = "start" =>
           /\ procs[p].seen.requester = procs[p].caller.actorId
           /\ procs[p].seen.expiresAt # 0
  PROVE  IInv'
<1> DEFINE c == procs[p]
<1>1. CallOK(c, support, approvals) /\ c.rid \in Requests /\ c.caller \in Principal /\ c.seen \in Request
  BY DEF IInv, CallsOK, Call
<1>2. Monotone
  <2>1. \A r \in Requests : support'[r] = IF r = c.rid THEN row ELSE support[r]
    BY <1>1 DEF Put, IInv, TypeOK
  <2>2. row # Absent
    BY RowTypes
  <2>3. now <= now'
    BY DEF Put, IInv, TypeOK
  <2> QED
    BY <1>1, <2>1, <2>2, <2>3 DEF Monotone, SameRequest, CallOK
<1>3. \A r \in Requests : support'[r] # support[r] => RowOK(support'[r], r, approvals')
  BY <1>1 DEF Put, IInv, TypeOK
<1>4. CallOK(c, support', approvals')
  BY <1>1, <1>2, Persist DEF IInv
<1>5. ASSUME NEW q \in Procs, procs'[q] # procs[q], procs'[q] # Idle
      PROVE  CallOK(procs'[q], support', approvals')
  <2>1. procs'[q] = [c EXCEPT !.pc = "audit"] /\ c \in Call
    BY <1>5 DEF Put, IInv, TypeOK
  <2>2. /\ procs'[q].rid = c.rid /\ procs'[q].seen = c.seen
        /\ procs'[q].caller = c.caller /\ procs'[q].op = c.op
        /\ procs'[q].pc = "audit"
    BY <2>1 DEF Call
  <2> QED
    BY <1>4, <2>2 DEF CallOK
<1>6. issued' = issued
  BY DEF Put
<1> QED
  BY <1>2, <1>3, <1>5, <1>6, Combine

LEMMA SupportIInvStep == IInv /\ [Next]_vars => IInv'
<1> SUFFICES ASSUME IInv, [Next]_vars PROVE IInv'
  OBVIOUS
<1>1. TypeOK /\ TypeOK'
  BY TypeStep DEF IInv
<1>2. CASE UNCHANGED vars
  BY <1>2 DEF vars, IInv, TypeOK, RowsOK, CallsOK, IssuedOK, ApprovalsOK
\* A step that leaves rows, calls and approvals alone.
<1>3. CASE ClockTick
  <2>1. Monotone
    BY <1>1, <1>3 DEF ClockTick, Monotone, SameRequest, TypeOK
  <2> QED
    BY <1>1, <1>3, <2>1, Combine DEF ClockTick
<1>4. ASSUME NEW p \in Procs, Handler(p) PROVE IInv'
  <2> DEFINE c == procs[p]
  <2>1. ASSUME NEW caller \in Callers, NEW r \in Requests, NEW org \in Orgs,
               NEW scopes \in ScopeChoices, NEW breakGlass \in BOOLEAN,
               RequestSupportAccess(p, caller, r, org, scopes, breakGlass)
        PROVE  IInv'
    <3> DEFINE row == NewRequest(caller, org, scopes, breakGlass)
               call == NewCall("audit", "request", caller, r, row, FALSE)
    <3>1. caller \in Principal /\ CallerOK(caller, support, approvals)
      BY KnownCallers
    <3>2. RoleOf[caller.actorId] = Operator
      BY <2>1, <3>1, RequesterIsOperator DEF RequestSupportAccess
    <3>3. RowOK(row, r, approvals')
      BY <2>1, <3>2 DEF RequestSupportAccess, RowOK, NewRequest
    <3>4. \A q \in Requests : support'[q] = IF q = r THEN row ELSE support[q]
      BY <1>1, <2>1 DEF RequestSupportAccess, TypeOK
    <3>5. support[r] = Absent /\ row # Absent
      BY <2>1 DEF RequestSupportAccess, NewRequest, Absent
    <3>6. Monotone
      BY <1>1, <2>1, <3>4, <3>5
         DEF RequestSupportAccess, Monotone, SameRequest, TypeOK
    <3>7. CallOK(call, support', approvals')
      <4>1. CallerOK(caller, support', approvals')
        BY <1>1, <3>1, <3>6, Persist
      <4>2. /\ call.rid = r /\ call.seen = row /\ call.caller = caller
            /\ call.op = "request" /\ call.pc = "audit"
        BY DEF NewCall
      <4> HIDE DEF call, row
      <4> QED
        BY <3>3, <3>4, <3>5, <4>1, <4>2 DEF CallOK, SameRequest
    <3>8. \A q \in Procs : procs'[q] = IF q = p THEN call ELSE procs[q]
      BY <1>1, <2>1 DEF RequestSupportAccess, TypeOK
    <3>9. issued' = issued /\ approvals' = approvals
      BY <2>1 DEF RequestSupportAccess
    <3> HIDE DEF call, row
    <3> QED
      BY <1>1, <3>3, <3>4, <3>6, <3>7, <3>8, <3>9, Combine
  <2>2. ASSUME NEW op \in Ops \ {"request"}, NEW caller \in Callers,
               NEW r \in Requests, NEW notes \in BOOLEAN,
               Load(p, op, caller, r, notes)
        PROVE  IInv'
    <3> DEFINE call == NewCall("commit", op, caller, r, support[r], notes)
    <3>1. CallerOK(caller, support, approvals)
      BY KnownCallers
    <3>2. support[r] # Absent /\ RowOK(support[r], r, approvals)
      BY <2>2 DEF Load, IInv, RowsOK
    <3>3. /\ call.rid = r /\ call.seen = support[r] /\ call.caller = caller
          /\ call.pc = "commit"
      BY DEF NewCall
    <3>4. \A q \in Procs : procs'[q] = IF q = p THEN call ELSE procs[q]
      BY <1>1, <2>2 DEF Load, TypeOK
    <3>5. UNCHANGED <<now, support, issued, approvals>>
      BY <2>2 DEF Load
    <3> HIDE DEF call
    <3>6. CallOK(call, support', approvals')
      BY <3>1, <3>2, <3>3, <3>5 DEF CallOK, SameRequest
    <3>7. Monotone
      BY <1>1, <3>5 DEF Monotone, SameRequest, TypeOK
    <3> QED
      BY <1>1, <3>4, <3>5, <3>6, <3>7, Combine
  <2>3. ASSUME c.pc = "commit", c \in Call, c # Idle,
               \/ FirstApproval(p) \/ FinalApproval(p) \/ DenySupportAccess(p)
               \/ StartSupportAccess(p) \/ EndSupportAccess(p)
               \/ ReviewSupportAccess(p) \/ TickSupportExpiry(p) \/ Refuse(p)
        PROVE  IInv'
    <3>1. /\ CallOK(c, support, approvals) /\ c.rid \in Requests
          /\ c.seen \in Request /\ c.caller \in Principal
          /\ c.seen.org \in Orgs /\ c.caller.actorId \in People
      BY <2>3 DEF IInv, CallsOK, Call, Request, Principal
    <3>2. CanApprove(c) => Decides(c.caller.actorId, c.seen.org)
      BY <3>1, ApproverDecides DEF CanApprove, CallOK
    \* Changing the status to anything but pending_second.
    <3>3. ASSUME NEW s \in SUPPORT_STATUSES \ {"pending_second"},
                 NEW pc \in {"idle", "audit"},
                 Put(p, [c.seen EXCEPT !.status = s], pc), approvals' = approvals,
                 c.op = "start" => StartOK(c)
          PROVE  IInv'
      <4> DEFINE row == [c.seen EXCEPT !.status = s]
      <4>1. row \in Request /\ SameRequest(row, c.seen)
        BY <3>1 DEF Request, SameRequest
      <4>2. RowOK(row, c.rid, approvals')
        BY <3>1, <3>3 DEF Request, RowOK, CallOK
      <4>3. c.op = "start" => c.seen.requester = c.caller.actorId
                              /\ c.seen.expiresAt # 0
        BY <1>1, <3>1, <3>3 DEF StartOK, TypeOK, Request
      <4> HIDE DEF row
      <4> QED
        BY <1>1, <2>3, <3>3, <4>1, <4>2, <4>3, PutInv DEF row
    <3>4. CASE FirstApproval(p)
      <4> DEFINE row == [c.seen EXCEPT !.status = "pending_second",
                                       !.firstApproverId = c.caller.actorId]
      <4>1. row \in Request /\ SameRequest(row, c.seen)
        BY <3>1 DEF Request, Person, SUPPORT_STATUSES, SameRequest
      <4>2. Decides(c.caller.actorId, c.seen.org)
        BY <3>2, <3>4 DEF FirstApproval, ApproveOK
      <4>3. RowOK(row, c.rid, approvals')
        BY <3>1, <3>4, <4>2 DEF FirstApproval, Request, RowOK, CallOK
      <4>4. Put(p, row, "audit") /\ approvals' = approvals /\ c.op = "approve"
        BY <3>4 DEF FirstApproval, At
      <4> HIDE DEF row
      <4> QED
        BY <1>1, <2>3, <4>1, <4>3, <4>4, PutInv
    <3>5. CASE FinalApproval(p)
      <4> DEFINE row == [c.seen EXCEPT !.status = "approved",
                                       !.approvedBy = c.caller.actorId,
                                       !.expiresAt = now + TTL]
                 a == [request |-> c.rid, first |-> c.seen.firstApproverId,
                       second |-> c.caller.actorId, at |-> now]
      <4>0. now \in Nat /\ now + TTL \in Nat
        BY <1>1 DEF TypeOK
      <4>1. row \in Request /\ SameRequest(row, c.seen)
        BY <3>1, <4>0 DEF Request, Person, SUPPORT_STATUSES, SameRequest
      <4>2. approvals' = approvals \union {a}
        BY <3>5 DEF FinalApproval
      <4>3. /\ a \in approvals' /\ a.request = c.rid /\ a.at = now
            /\ a.first = c.seen.firstApproverId /\ a.second = c.caller.actorId
        BY <4>2
      <4> HIDE DEF a
      <4>31. Backed(c.rid, now + TTL, approvals')
        BY <4>3 DEF Backed
      <4>4. RowOK(row, c.rid, approvals')
        BY <3>1, <4>31 DEF Request, RowOK, CallOK
      <4>5. Decides(c.caller.actorId, c.seen.org)
        BY <3>2, <3>5 DEF FinalApproval, ApproveOK
      <4>6. c.seen.breakGlass => /\ c.seen.firstApproverId # c.caller.actorId
                                 /\ Decides(c.seen.firstApproverId, c.seen.org)
        BY <3>1, <3>5 DEF FinalApproval, ApproveOK, NeedsSecond, CallOK, RowOK
      <4>7. support'[c.rid] = row /\ now' = now
        BY <1>1, <3>1, <3>5 DEF FinalApproval, Put, TypeOK
      <4>8. ApprovalOK(a, support', now')
        BY <4>0, <4>1, <4>3, <4>5, <4>6, <4>7, RowTypes
           DEF ApprovalOK, SameRequest
      <4>9. Put(p, row, "audit") /\ c.op = "approve"
        BY <3>5 DEF FinalApproval, At
      <4> HIDE DEF row, a
      <4> QED
        BY <1>1, <2>3, <4>1, <4>2, <4>4, <4>8, <4>9, PutInv
    <3>6. CASE DenySupportAccess(p)
      <4> DEFINE row == [c.seen EXCEPT !.status = "denied",
                                       !.approvedBy = c.caller.actorId]
      <4>1. row \in Request /\ SameRequest(row, c.seen)
        BY <3>1 DEF Request, Person, SUPPORT_STATUSES, SameRequest
      <4>2. RowOK(row, c.rid, approvals')
        BY <3>1, <3>6 DEF DenySupportAccess, Request, RowOK, CallOK
      <4>3. Put(p, row, "audit") /\ approvals' = approvals /\ c.op = "deny"
        BY <3>6 DEF DenySupportAccess, At
      <4> HIDE DEF row
      <4> QED
        BY <1>1, <2>3, <4>1, <4>2, <4>3, PutInv
    <3>7. {"active", "ended", "reviewed", "expired"}
            \subseteq SUPPORT_STATUSES \ {"pending_second"}
      BY DEF SUPPORT_STATUSES
    <3>8. CASE StartSupportAccess(p)
      BY <3>3, <3>7, <3>8 DEF StartSupportAccess, At
    <3>9. CASE EndSupportAccess(p)
      BY <3>3, <3>7, <3>9 DEF EndSupportAccess, At
    <3>10. CASE ReviewSupportAccess(p)
      BY <3>3, <3>7, <3>10 DEF ReviewSupportAccess, At
    <3>11. CASE TickSupportExpiry(p)
      BY <3>3, <3>7, <3>11 DEF TickSupportExpiry, At
    <3>12. CASE Refuse(p)
      <4>1. Monotone
        BY <1>1, <3>12 DEF Refuse, Monotone, SameRequest, TypeOK
      <4> QED
        BY <1>1, <3>12, <4>1, Combine DEF Refuse, TypeOK
    <3> QED
      BY <2>3, <3>4, <3>5, <3>6, <3>8, <3>9, <3>10, <3>11, <3>12
  <2>4. ASSUME c \in Call, c # Idle, c.pc \in {"audit", "dispatch"},
               Record(p) \/ Respond(p)
        PROVE  IInv'
    <3>1. /\ CallOK(c, support, approvals) /\ c.rid \in Requests
          /\ c.seen \in Request /\ c.caller \in Principal
      BY <2>4 DEF IInv, CallsOK, Call
    <3>2. UNCHANGED <<now, support, approvals>>
      BY <2>4 DEF Record, Respond
    <3>3. Monotone
      BY <1>1, <3>2 DEF Monotone, SameRequest, TypeOK
    <3>4. \A q \in Procs : procs'[q] # procs[q] /\ procs'[q] # Idle =>
            /\ procs'[q] = [c EXCEPT !.pc = "dispatch"]
            /\ c.pc = "audit" /\ c.op = "start"
      BY <1>1, <2>4 DEF Record, Respond, TypeOK
    <3>5. ASSUME c.pc = "audit", c.op = "start"
          PROVE  CallOK([c EXCEPT !.pc = "dispatch"], support', approvals')
      <4> DEFINE d == [c EXCEPT !.pc = "dispatch"]
      <4>1. d.rid = c.rid /\ d.seen = c.seen /\ d.caller = c.caller /\ d.op = c.op
        BY <2>4 DEF Call
      <4> HIDE DEF d
      <4>2. CallOK(d, support, approvals)
        BY <3>1, <3>5, <4>1 DEF CallOK
      <4> QED
        BY <3>2, <4>2 DEF d
    <3>6. CASE Record(p)
      BY <1>1, <3>2, <3>3, <3>4, <3>5, <3>6, Combine DEF Record
    <3>7. CASE Respond(p)
      <4> DEFINE pr == [c.caller EXCEPT !.supportGrant = GrantFor(c)]
      <4>1. /\ c.seen.requester = c.caller.actorId /\ c.seen.expiresAt # 0
            /\ c.caller.role = RoleOf[c.caller.actorId]
            /\ c.caller.organisationId = OrgOf[c.caller.actorId]
        BY <3>1, <3>7 DEF Respond, CallOK, CallerOK
      <4>2. Backed(c.rid, c.seen.expiresAt, approvals)
        BY <3>1, <4>1 DEF CallOK, RowOK
      <4>3. /\ pr.supportGrant = GrantFor(c) /\ pr.role = c.caller.role
            /\ pr.actorId = c.caller.actorId
            /\ pr.organisationId = c.caller.organisationId
        BY <3>1 DEF Principal
      <4>31. /\ pr.supportGrant.requestId = c.rid
             /\ pr.supportGrant.organisationId = c.seen.org
             /\ pr.supportGrant.scopes = c.seen.scopes
             /\ pr.supportGrant.expiresAt = c.seen.expiresAt
        BY <4>3 DEF GrantFor
      <4> HIDE DEF pr
      <4>4. CallerOK(pr, support', approvals')
        BY <3>1, <3>2, <4>1, <4>2, <4>3, <4>31 DEF CallerOK, CallOK, SameRequest
      <4>5. issued' = issued \union {pr}
        BY <3>7 DEF Respond, pr
      <4>6. support' = support /\ approvals' = approvals
        BY <3>2
      <4> QED
        BY <1>1, <3>3, <3>4, <3>7, <4>4, <4>5, <4>6, Combine DEF Respond
    <3> QED
      BY <2>4, <3>6, <3>7
  <2> QED
    BY <1>1, <1>4, <2>1, <2>2, <2>3, <2>4, Busy
       DEF Handler, FirstApproval, FinalApproval, DenySupportAccess, At,
           StartSupportAccess, EndSupportAccess, ReviewSupportAccess,
           TickSupportExpiry, Refuse, Record, Respond
<1> QED
  BY <1>2, <1>3, <1>4 DEF Next

LEMMA SupportInvariant == Spec => []IInv
BY SupportIInvInit, SupportIInvStep, PTL DEF Spec

\* Support-access abuse (threat-model.md): whatever the interleaving of the
\* handlers, an operator is authorised for a tenant permission only within the
\* TTL of an approval of that operator's own request, for that organisation and
\* that scope, by someone whose own role lets them decide it.
THEOREM AccessNeedsApproval == Spec => []AccessIsBacked
<1>1. IInv => AccessIsBacked
  <2> SUFFICES ASSUME IInv,
                      NEW pr \in Callers, pr.role = Operator,
                      NEW org \in Orgs, NEW permission \in TenantPermissions,
                      Authorized(pr, permission, org, now)
               PROVE  \E a \in approvals :
                        /\ a.at <= now /\ now < a.at + TTL
                        /\ Decides(a.second, org)
                        /\ support[a.request].org = org
                        /\ support[a.request].requester = pr.actorId
                        /\ permission \in support[a.request].scopes
    BY DEF AccessIsBacked
  <2>1. pr \in Principal /\ CallerOK(pr, support, approvals)
    BY KnownCallers
  <2>2. org # None /\ pr.organisationId = None
    BY <2>1 DEF CallerOK, Principal
  <2>3. /\ now < pr.supportGrant.expiresAt
        /\ pr.supportGrant.organisationId = org
        /\ permission \in pr.supportGrant.scopes
    BY <2>2, OperatorReach
  <2>4. pr.supportGrant # NoGrant
    BY <2>2, <2>3 DEF NoGrant
  <2>5. PICK a \in approvals : /\ a.request = pr.supportGrant.requestId
                               /\ pr.supportGrant.expiresAt = a.at + TTL
    BY <2>1, <2>4 DEF CallerOK, Backed
  <2>6. ApprovalOK(a, support, now)
    BY DEF IInv, ApprovalsOK
  <2> QED
    BY <2>1, <2>3, <2>4, <2>5, <2>6 DEF CallerOK, ApprovalOK
<1> QED
  BY <1>1, SupportInvariant, PTL

\* No interleaving of handlers over stale rows opens a break-glass request
\* without two different people of the organisation.
THEOREM BreakGlassNeedsTwo == Spec => []BreakGlassTwoPeople
<1>1. IInv => BreakGlassTwoPeople
  BY DEF IInv, ApprovalsOK, ApprovalOK, BreakGlassTwoPeople
<1> QED
  BY <1>1, SupportInvariant, PTL

-----------------------------------------------------------------------------
(* The trail.  A handler writes its event after its row, and another may   *)
(* have loaded the row in between: the event of a status is in the store   *)
(* or in the hands of a handler that is about to write it.                 *)

EventsOf(status) ==
  {"requested"}
  \union (IF status \in {"pending_second", "approved", "active", "ended", "expired"}
            THEN {"approved"} ELSE {})
  \union (IF status = "denied" THEN {"denied"} ELSE {})
  \union (IF status = "active" THEN {"started"} ELSE {})
  \union (IF status = "ended" THEN {"ended"} ELSE {})

Writing(p, r, action) ==
  procs[p].pc = "audit" /\ procs[p].rid = r /\ EventOf(procs[p].op) = action

Covered(r, action) ==
  [action |-> action, request |-> r] \in audit \/ \E p \in Procs : Writing(p, r, action)

RowsCovered ==
  \A r \in Requests : support[r] # Absent =>
    \A action \in EventsOf(support[r].status) : Covered(r, action)

\* Of the row a handler has loaded, too: it may write back what it says.
LoadedCovered ==
  \A p \in Procs, r \in Requests : procs[p].pc = "commit" /\ procs[p].rid = r =>
    \A action \in EventsOf(procs[p].seen.status) : Covered(r, action)

TrailInv == TypeOK /\ RowsCovered /\ LoadedCovered

LEMMA TrailInit == Init => TrailInv
BY TypeInit DEF Init, TrailInv, RowsCovered, LoadedCovered, Idle

\* No event is lost: a handler leaves "audit" only by writing its event.
LEMMA StaysCovered ==
  ASSUME NEW p \in Procs, \A q \in Procs \ {p} : procs'[q] = procs[q], audit \subseteq audit',
         procs[p].pc = "audit" =>
           [action |-> EventOf(procs[p].op), request |-> procs[p].rid] \in audit',
         NEW r \in Requests, NEW action, Covered(r, action)
  PROVE  Covered(r, action)'
<1>1. CASE [action |-> action, request |-> r] \in audit
  BY <1>1 DEF Covered
<1>2. ASSUME NEW q \in Procs, Writing(q, r, action) PROVE Covered(r, action)'
  <2>1. CASE q = p
    BY <1>2, <2>1 DEF Writing, Covered
  <2>2. CASE q # p
    BY <1>2, <2>2 DEF Writing, Covered
  <2> QED
    BY <2>1, <2>2
<1> QED
  BY <1>1, <1>2 DEF Covered

\* A row is written that calls for no event but those of the row that was loaded and
\* the one its handler goes on to write.
LEMMA PutCovered ==
  ASSUME TrailInv, TypeOK', NEW p \in Procs, procs[p] \in Call, procs[p].pc = "commit",
         NEW row \in Request, NEW pc \in {"idle", "audit"}, Put(p, row, pc),
         \A action \in EventsOf(row.status) :
           \/ action \in EventsOf(procs[p].seen.status)
           \/ pc = "audit" /\ action = EventOf(procs[p].op)
  PROVE  TrailInv'
<1> DEFINE c == procs[p]
<1>1. c.rid \in Requests
  BY DEF Call
<1>2. /\ \A q \in Procs \ {p} : procs'[q] = procs[q]
      /\ procs'[p] = IF pc = "idle" THEN Idle ELSE [c EXCEPT !.pc = "audit"]
      /\ \A r \in Requests : support'[r] = IF r = c.rid THEN row ELSE support[r]
      /\ audit' = audit
  BY <1>1 DEF Put, TrailInv, TypeOK
<1>3. \A r \in Requests : \A action : Covered(r, action) => Covered(r, action)'
  BY <1>2, StaysCovered
<1>4. pc = "audit" => Covered(c.rid, EventOf(c.op))'
  <2> SUFFICES ASSUME pc = "audit" PROVE Writing(p, c.rid, EventOf(c.op))'
    BY DEF Covered
  <2>1. procs'[p] = [c EXCEPT !.pc = "audit"]
    BY <1>2
  <2>2. procs'[p].pc = "audit" /\ procs'[p].rid = c.rid /\ procs'[p].op = c.op
    BY <2>1 DEF Call
  <2> QED
    BY <2>2 DEF Writing
<1>5. RowsCovered'
  BY <1>1, <1>2, <1>3, <1>4 DEF RowsCovered, TrailInv, LoadedCovered
<1>6. procs'[p].pc # "commit"
  BY <1>2 DEF Idle, Call
<1>7. LoadedCovered'
  BY <1>2, <1>3, <1>6 DEF TrailInv, LoadedCovered
<1> QED
  BY <1>5, <1>7 DEF TrailInv

\* A step that writes no row.
LEMMA OnlyCalls ==
  ASSUME TrailInv, TypeOK', UNCHANGED support, NEW p \in Procs,
         \A q \in Procs \ {p} : procs'[q] = procs[q], audit \subseteq audit',
         procs[p].pc = "audit" =>
           [action |-> EventOf(procs[p].op), request |-> procs[p].rid] \in audit',
         procs'[p].pc = "commit" =>
           /\ procs'[p].rid \in Requests /\ support[procs'[p].rid] # Absent
           /\ procs'[p].seen = support[procs'[p].rid]
  PROVE  TrailInv'
<1>1. \A r \in Requests : \A action : Covered(r, action) => Covered(r, action)'
  BY StaysCovered
<1>2. RowsCovered'
  BY <1>1 DEF TrailInv, RowsCovered
<1>3. LoadedCovered'
  <2> SUFFICES ASSUME NEW q \in Procs, NEW r \in Requests, procs'[q].pc = "commit",
                      procs'[q].rid = r, NEW action \in EventsOf(procs'[q].seen.status)
               PROVE  Covered(r, action)'
    BY DEF LoadedCovered
  <2>1. CASE q = p
    BY <1>1, <2>1 DEF TrailInv, RowsCovered
  <2>2. CASE q # p
    BY <1>1, <2>2 DEF TrailInv, LoadedCovered
  <2> QED
    BY <2>1, <2>2
<1> QED
  BY <1>2, <1>3 DEF TrailInv

LEMMA TrailStep == TrailInv /\ [Next]_vars => TrailInv'
<1> SUFFICES ASSUME TrailInv, [Next]_vars PROVE TrailInv'
  OBVIOUS
<1>1. TypeOK /\ TypeOK'
  BY TypeStep DEF TrailInv
<1>2. CASE UNCHANGED <<support, procs, audit>>
  BY <1>1, <1>2 DEF TrailInv, RowsCovered, LoadedCovered, Covered, Writing
<1>3. ASSUME NEW p \in Procs, Handler(p) PROVE TrailInv'
  <2> DEFINE c == procs[p]
  <2>1. ASSUME NEW caller \in Callers, NEW r \in Requests, NEW org \in Orgs,
               NEW scopes \in ScopeChoices, NEW breakGlass \in BOOLEAN,
               RequestSupportAccess(p, caller, r, org, scopes, breakGlass)
        PROVE  TrailInv'
    <3> DEFINE row == NewRequest(caller, org, scopes, breakGlass)
               call == NewCall("audit", "request", caller, r, row, FALSE)
    <3>1. row.status = "requested"
      BY DEF NewRequest
    <3>2. call.pc = "audit" /\ call.rid = r /\ EventOf(call.op) = "requested"
      BY DEF NewCall, EventOf
    <3>3. /\ \A q \in Procs : procs'[q] = IF q = p THEN call ELSE procs[q]
          /\ \A q \in Requests : support'[q] = IF q = r THEN row ELSE support[q]
          /\ audit' = audit /\ procs[p].pc = "idle"
      BY <1>1, <2>1 DEF RequestSupportAccess, TypeOK, Idle
    <3> HIDE DEF row, call
    <3>4. \A q \in Requests : \A action : Covered(q, action) => Covered(q, action)'
      BY <3>3, StaysCovered
    <3>5. Covered(r, "requested")'
      BY <3>2, <3>3 DEF Covered, Writing
    <3>6. RowsCovered'
      BY <3>1, <3>3, <3>4, <3>5 DEF TrailInv, RowsCovered, EventsOf
    <3>7. LoadedCovered'
      BY <3>2, <3>3, <3>4 DEF TrailInv, LoadedCovered
    <3> QED
      BY <1>1, <3>6, <3>7 DEF TrailInv
  <2>2. ASSUME NEW op \in Ops \ {"request"}, NEW caller \in Callers,
               NEW r \in Requests, NEW notes \in BOOLEAN,
               Load(p, op, caller, r, notes)
        PROVE  TrailInv'
    <3> DEFINE call == NewCall("commit", op, caller, r, support[r], notes)
    <3>1. call.rid = r /\ call.seen = support[r]
      BY DEF NewCall
    <3>2. /\ \A q \in Procs : procs'[q] = IF q = p THEN call ELSE procs[q]
          /\ UNCHANGED <<support, audit>> /\ support[r] # Absent /\ procs[p].pc = "idle"
      BY <1>1, <2>2 DEF Load, TypeOK, Idle
    <3> HIDE DEF call
    <3> QED
      BY <1>1, <3>1, <3>2, OnlyCalls
  <2>3. ASSUME c.pc = "commit", c \in Call,
               \/ FirstApproval(p) \/ FinalApproval(p) \/ DenySupportAccess(p)
               \/ StartSupportAccess(p) \/ EndSupportAccess(p)
               \/ ReviewSupportAccess(p) \/ TickSupportExpiry(p)
        PROVE  TrailInv'
    <3>1. c.seen \in Request /\ c.seen.status \in SUPPORT_STATUSES
          /\ c.caller.actorId \in People
      BY <2>3 DEF Call, Request, Principal
    <3>2. ASSUME NEW row, NEW pc \in {"idle", "audit"}, Put(p, row, pc), row # Absent,
                 \A action \in EventsOf(row.status) :
                   \/ action \in EventsOf(c.seen.status)
                   \/ pc = "audit" /\ action = EventOf(c.op)
          PROVE  TrailInv'
      <4>1. c.rid \in Requests
        BY <2>3 DEF Call
      <4>2. support'[c.rid] = row
        BY <1>1, <3>2, <4>1 DEF Put, TypeOK
      <4>3. row \in Request
        BY <1>1, <3>2, <4>1, <4>2 DEF TypeOK
      <4> QED
        BY <1>1, <2>3, <3>2, <4>3, PutCovered
    <3>3. CASE FirstApproval(p)
      <4> DEFINE row == [c.seen EXCEPT !.status = "pending_second",
                                       !.firstApproverId = c.caller.actorId]
      <4>1. row.status = "pending_second" /\ c.op = "approve" /\ Put(p, row, "audit")
        BY <3>1, <3>3 DEF FirstApproval, At, Request
      <4> HIDE DEF row
      <4> QED
        BY <3>2, <4>1 DEF EventsOf, EventOf, Absent
    <3>4. CASE FinalApproval(p)
      <4> DEFINE row == [c.seen EXCEPT !.status = "approved",
                                       !.approvedBy = c.caller.actorId,
                                       !.expiresAt = now + TTL]
      <4>1. row.status = "approved" /\ c.op = "approve" /\ Put(p, row, "audit")
        BY <3>1, <3>4 DEF FinalApproval, At, Request
      <4> HIDE DEF row
      <4> QED
        BY <3>2, <4>1 DEF EventsOf, EventOf, Absent
    <3>5. CASE DenySupportAccess(p)
      <4> DEFINE row == [c.seen EXCEPT !.status = "denied",
                                       !.approvedBy = c.caller.actorId]
      <4>1. row.status = "denied" /\ c.op = "deny" /\ Put(p, row, "audit")
        BY <3>1, <3>5 DEF DenySupportAccess, At, Request
      <4> HIDE DEF row
      <4> QED
        BY <3>2, <4>1 DEF EventsOf, EventOf, Absent
    <3>6. CASE StartSupportAccess(p)
      <4> DEFINE row == [c.seen EXCEPT !.status = "active"]
      <4>1. row.status = "active" /\ c.op = "start" /\ c.seen.status = "approved"
            /\ Put(p, row, "audit")
        BY <3>1, <3>6 DEF StartSupportAccess, StartOK, At, Request
      <4> HIDE DEF row
      <4> QED
        BY <3>2, <4>1 DEF EventsOf, EventOf, Absent
    <3>7. CASE EndSupportAccess(p)
      <4> DEFINE row == [c.seen EXCEPT !.status = IF c.seen.breakGlass THEN "reviewed"
                                                                       ELSE "ended"]
      <4>1. row.status \in {"reviewed", "ended"} /\ c.op = "end" /\ Put(p, row, "audit")
            /\ c.seen.status \in {"active", "approved"}
        BY <3>1, <3>7 DEF EndSupportAccess, EndOK, At, Request
      <4> HIDE DEF row
      <4> QED
        BY <3>2, <4>1 DEF EventsOf, EventOf, Absent
    <3>8. CASE ReviewSupportAccess(p)
      <4> DEFINE row == [c.seen EXCEPT !.status = "reviewed"]
      <4>1. row.status = "reviewed" /\ Put(p, row, "idle")
        BY <3>1, <3>8 DEF ReviewSupportAccess, Request
      <4> HIDE DEF row
      <4> QED
        BY <3>2, <4>1 DEF EventsOf, Absent
    <3>9. CASE TickSupportExpiry(p)
      <4> DEFINE row == [c.seen EXCEPT !.status = "expired"]
      <4>1. row.status = "expired" /\ c.seen.status \in {"active", "approved"}
            /\ Put(p, row, "idle")
        BY <3>1, <3>9 DEF TickSupportExpiry, TickOK, Request
      <4> HIDE DEF row
      <4> QED
        BY <3>2, <4>1 DEF EventsOf, Absent
    <3> QED
      BY <2>3, <3>3, <3>4, <3>5, <3>6, <3>7, <3>8, <3>9
  <2>4. CASE Refuse(p)
    <3>1. /\ \A q \in Procs \ {p} : procs'[q] = procs[q]
          /\ procs'[p].pc = "idle" /\ procs[p].pc = "commit"
          /\ UNCHANGED <<support, audit>>
      BY <1>1, <2>4 DEF Refuse, TypeOK, Idle
    <3> QED
      BY <1>1, <3>1, OnlyCalls
  <2>5. CASE Record(p)
    <3>1. c \in Call
      BY <1>1, <2>5, Busy DEF Record
    <3>2. /\ procs'[p] \in {Idle, [c EXCEPT !.pc = "dispatch"]}
          /\ \A q \in Procs \ {p} : procs'[q] = procs[q]
          /\ audit' = audit \union {[action |-> EventOf(c.op), request |-> c.rid]}
          /\ UNCHANGED support
      BY <1>1, <2>5 DEF Record, TypeOK
    <3>3. procs'[p].pc # "commit"
      BY <3>1, <3>2 DEF Idle, Call
    <3> QED
      BY <1>1, <3>2, <3>3, OnlyCalls
  <2>6. CASE Respond(p)
    <3>1. /\ \A q \in Procs \ {p} : procs'[q] = procs[q]
          /\ procs'[p].pc = "idle" /\ procs[p].pc = "dispatch"
          /\ UNCHANGED <<support, audit>>
      BY <1>1, <2>6 DEF Respond, TypeOK, Idle
    <3> QED
      BY <1>1, <3>1, OnlyCalls
  <2> QED
    BY <1>1, <1>3, <2>1, <2>2, <2>3, <2>4, <2>5, <2>6, Busy
       DEF Handler, FirstApproval, FinalApproval, DenySupportAccess, At,
           StartSupportAccess, EndSupportAccess, ReviewSupportAccess,
           TickSupportExpiry
<1> QED
  BY <1>2, <1>3 DEF Next, ClockTick, vars

\* Every decision is in the audit store once nobody is writing about the request, over
\* any store and any interleaving, whether or not the sink throws (record()).
THEOREM DecisionsLeaveATrail == Spec => []DecisionsAudited
<1>1. TrailInv => DecisionsAudited
  <2> SUFFICES ASSUME TrailInv, NEW r \in Requests, support[r] # Absent,
                      \A p \in Procs : procs[p].pc = "audit" => procs[p].rid # r
               PROVE  \A action \in EventsOf(support[r].status) :
                        \E e \in audit : e.request = r /\ e.action = action
    <3>1. \A r \in Requests : support[r] = Absent => support[r].status = "absent"
      BY DEF Absent
    <3> QED
      BY <3>1 DEF DecisionsAudited, EventsOf
  <2>1. TAKE action \in EventsOf(support[r].status)
  <2>2. [action |-> action, request |-> r] \in audit
    BY DEF TrailInv, RowsCovered, Covered, Writing
  <2> QED
    BY <2>2
<1>2. Spec => []TrailInv
  BY TrailInit, TrailStep, PTL DEF Spec
<1> QED
  BY <1>1, <1>2, PTL

-----------------------------------------------------------------------------
(* The store the console ships.  When it does not yield, one handler at a  *)
(* time is between its read and its write, so what it loaded is what is    *)
(* there, and a request only moves on.                                     *)

Inside(p) == procs[p].pc \in {"commit", "audit"}

\* The phases of a request that was opened, and of one whose session was entered.
Used == {"active", "ended", "expired", "reviewed"}
Opened == Used \union {"approved"}

\* Who has signed a row, by its status.
Signed(row) ==
  /\ row.status \in {"absent", "requested", "pending_second"} => row.approvedBy = None
  /\ row.status \in {"absent", "requested"} => row.firstApproverId = None
  /\ row.status = "pending_second" => row.breakGlass /\ row.firstApproverId # None

Alone == \A p, q \in Procs : Inside(p) /\ Inside(q) => p = q

Fresh == \A p \in Procs, r \in Requests :
           procs[p].pc = "commit" /\ procs[p].rid = r => procs[p].seen = support[r]

RowsSigned == \A r \in Requests : Signed(support[r])

ApprovedOpened == \A a \in approvals : support[a.request].status \in Opened

\* A handler that has started a session goes on to hand out the grant.
Started(c) == c.pc = "dispatch" \/ (c.pc = "audit" /\ c.op = "start")

StartedUsed ==
  \A p \in Procs, r \in Requests :
    Started(procs[p]) /\ procs[p].rid = r => support[r].status \in Used

GrantedUsed ==
  \A pr \in issued : /\ pr.supportGrant.requestId \in Requests
                     /\ support[pr.supportGrant.requestId].status \in Used

SerialInv ==
  /\ TypeOK /\ Alone /\ Fresh /\ RowsSigned
  /\ ApprovedOpened /\ StartedUsed /\ GrantedUsed

LEMMA SerialInit == Init => SerialInv
BY TypeInit
   DEF Init, SerialInv, Alone, Fresh, Inside, RowsSigned, Signed, ApprovedOpened, StartedUsed,
       Started, GrantedUsed, Idle, Absent

\* Rows that move on leave what was concluded from them true.
LEMMA MovesOn ==
  ASSUME SerialInv, TypeOK',
         \A r \in Requests :
           /\ support[r].status \in Opened => support'[r].status \in Opened
           /\ support[r].status \in Used => support'[r].status \in Used,
         \A a \in approvals' \ approvals : support'[a.request].status \in Opened,
         \A pr \in issued' \ issued :
           /\ pr.supportGrant.requestId \in Requests
           /\ support'[pr.supportGrant.requestId].status \in Used
  PROVE  ApprovedOpened' /\ GrantedUsed'
<1>1. ApprovedOpened'
  <2> SUFFICES ASSUME NEW a \in approvals' PROVE support'[a.request].status \in Opened
    BY DEF ApprovedOpened
  <2>1. a \in approvals => a.request \in Requests
    BY DEF SerialInv, TypeOK, Approval
  <2> QED
    BY <2>1 DEF SerialInv, ApprovedOpened
<1>2. GrantedUsed'
  BY DEF SerialInv, GrantedUsed
<1> QED
  BY <1>1, <1>2

\* The one handler that is inside writes a row that moves its request on.
LEMMA PutSerial ==
  ASSUME SerialInv, TypeOK', NEW p \in Procs, procs[p] \in Call, procs[p].pc = "commit",
         NEW row \in Request, NEW pc \in {"idle", "audit"}, Put(p, row, pc), Signed(row),
         procs[p].seen.status \in Opened => row.status \in Opened,
         procs[p].seen.status \in Used => row.status \in Used,
         procs[p].op = "start" => row.status \in Used,
         \A a \in approvals' \ approvals :
           a.request = procs[p].rid /\ row.status \in Opened
  PROVE  SerialInv'
<1> DEFINE c == procs[p]
<1>1. c.rid \in Requests
  BY DEF Call
<1>2. /\ \A q \in Procs \ {p} : procs'[q] = procs[q]
      /\ procs'[p] = IF pc = "idle" THEN Idle ELSE [c EXCEPT !.pc = "audit"]
      /\ \A r \in Requests : support'[r] = IF r = c.rid THEN row ELSE support[r]
      /\ issued' = issued
  BY <1>1 DEF Put, SerialInv, TypeOK
<1>3. /\ procs'[p].pc \in {"idle", "audit"}
      /\ procs'[p].pc = "audit" => procs'[p].rid = c.rid /\ procs'[p].op = c.op
  BY <1>2 DEF Idle, Call
<1>4. support[c.rid] = c.seen
  BY <1>1 DEF SerialInv, Fresh
<1>5. Alone'
  BY <1>2, <1>3 DEF SerialInv, Alone, Inside
<1>6. Fresh'
  <2> SUFFICES ASSUME NEW q \in Procs, procs'[q].pc = "commit" PROVE FALSE
    BY DEF Fresh
  <2>1. q # p
    BY <1>3
  <2>2. procs[q].pc = "commit"
    BY <1>2, <2>1
  <2> QED
    BY <2>1, <2>2 DEF SerialInv, Alone, Inside
<1>7. RowsSigned'
  BY <1>2 DEF SerialInv, RowsSigned
<1>8. ASSUME NEW r \in Requests
      PROVE  /\ support[r].status \in Opened => support'[r].status \in Opened
             /\ support[r].status \in Used => support'[r].status \in Used
  BY <1>2, <1>4
<1>9. StartedUsed'
  <2> SUFFICES ASSUME NEW q \in Procs, NEW r \in Requests, Started(procs'[q]),
                      procs'[q].rid = r
               PROVE  support'[r].status \in Used
    BY DEF StartedUsed
  <2>1. CASE q = p
    BY <1>2, <1>3, <2>1 DEF Started
  <2>2. CASE q # p
    BY <1>2, <1>8, <2>2 DEF SerialInv, StartedUsed
  <2> QED
    BY <2>1, <2>2
<1>10. ApprovedOpened' /\ GrantedUsed'
  BY <1>1, <1>2, <1>8, MovesOn
<1> QED
  BY <1>5, <1>6, <1>7, <1>9, <1>10 DEF SerialInv

LEMMA SerialStep ==
  ASSUME ~StoreYields, SerialInv, [Next]_vars
  PROVE  SerialInv'
<1>1. TypeOK /\ TypeOK'
  BY TypeStep DEF SerialInv
<1>2. CASE UNCHANGED <<support, procs, issued, approvals>>
  BY <1>1, <1>2 DEF SerialInv, Alone, Inside, Fresh, RowsSigned, ApprovedOpened, StartedUsed,
                    GrantedUsed
<1>3. ASSUME NEW p \in Procs, Handler(p) PROVE SerialInv'
  <2> DEFINE c == procs[p]
  <2>1. ASSUME NEW caller \in Callers, NEW r \in Requests, NEW org \in Orgs,
               NEW scopes \in ScopeChoices, NEW breakGlass \in BOOLEAN,
               RequestSupportAccess(p, caller, r, org, scopes, breakGlass)
        PROVE  SerialInv'
    <3> DEFINE row == NewRequest(caller, org, scopes, breakGlass)
               call == NewCall("audit", "request", caller, r, row, FALSE)
    <3>1. Signed(row)
      BY DEF NewRequest, Signed
    <3>2. call.pc = "audit" /\ call.op = "request"
      BY DEF NewCall
    <3>3. /\ \A q \in Procs : procs'[q] = IF q = p THEN call ELSE procs[q]
          /\ \A q \in Requests : support'[q] = IF q = r THEN row ELSE support[q]
          /\ UNCHANGED <<issued, approvals>> /\ support[r].status = "absent"
          /\ \A q \in Procs : ~Inside(q)
      BY <1>1, <2>1 DEF RequestSupportAccess, TypeOK, Turn, Inside, Absent
    <3> HIDE DEF row, call
    <3>4. Alone' /\ Fresh'
      BY <3>2, <3>3 DEF Alone, Fresh, Inside
    <3>5. RowsSigned'
      BY <3>1, <3>3 DEF SerialInv, RowsSigned
    <3>6. \A q \in Requests : support[q].status \in Opened => support'[q] = support[q]
      BY <3>3 DEF Opened, Used
    <3>7. StartedUsed'
      BY <3>2, <3>3, <3>6 DEF SerialInv, StartedUsed, Started, Opened
    <3>8. ApprovedOpened' /\ GrantedUsed'
      BY <1>1, <3>3, <3>6, MovesOn DEF Opened
    <3> QED
      BY <1>1, <3>4, <3>5, <3>7, <3>8 DEF SerialInv
  <2>2. ASSUME NEW op \in Ops \ {"request"}, NEW caller \in Callers,
               NEW r \in Requests, NEW notes \in BOOLEAN,
               Load(p, op, caller, r, notes)
        PROVE  SerialInv'
    <3> DEFINE call == NewCall("commit", op, caller, r, support[r], notes)
    <3>1. call.pc = "commit" /\ call.rid = r /\ call.seen = support[r]
      BY DEF NewCall
    <3>2. /\ \A q \in Procs : procs'[q] = IF q = p THEN call ELSE procs[q]
          /\ UNCHANGED <<support, issued, approvals>> /\ \A q \in Procs : ~Inside(q)
      BY <1>1, <2>2 DEF Load, TypeOK, Turn, Inside
    <3> HIDE DEF call
    <3>3. Alone' /\ Fresh' /\ StartedUsed'
      BY <3>1, <3>2 DEF SerialInv, Alone, Fresh, Inside, StartedUsed, Started
    <3> QED
      BY <1>1, <3>2, <3>3 DEF SerialInv, RowsSigned, ApprovedOpened, GrantedUsed
  <2>3. ASSUME c.pc = "commit", c \in Call,
               \/ FirstApproval(p) \/ FinalApproval(p) \/ DenySupportAccess(p)
               \/ StartSupportAccess(p) \/ EndSupportAccess(p)
               \/ ReviewSupportAccess(p) \/ TickSupportExpiry(p)
        PROVE  SerialInv'
    <3>1. /\ c.seen \in Request /\ c.seen.status \in SUPPORT_STATUSES /\ c.rid \in Requests
          /\ c.caller.actorId \in People
      BY <2>3 DEF Call, Request, Principal
    <3>2. Signed(c.seen)
      BY <2>3, <3>1 DEF SerialInv, Fresh, RowsSigned
    <3>3. c.caller.actorId # None
      BY <3>1
    <3>4. ASSUME NEW row, NEW pc \in {"idle", "audit"}, Put(p, row, pc), row # Absent,
                 Signed(row),
                 c.seen.status \in Opened => row.status \in Opened,
                 c.seen.status \in Used => row.status \in Used,
                 c.op = "start" => row.status \in Used,
                 \A a \in approvals' \ approvals : a.request = c.rid /\ row.status \in Opened
          PROVE  SerialInv'
      <4>1. support'[c.rid] = row
        BY <1>1, <3>1, <3>4 DEF Put, TypeOK
      <4>2. row \in Request
        BY <1>1, <3>1, <3>4, <4>1 DEF TypeOK
      <4> QED
        BY <1>1, <2>3, <3>4, <4>2, PutSerial
    <3>5. CASE FirstApproval(p)
      <4> DEFINE row == [c.seen EXCEPT !.status = "pending_second",
                                       !.firstApproverId = c.caller.actorId]
      <4>1. /\ row.status = "pending_second" /\ row.firstApproverId = c.caller.actorId
            /\ row.breakGlass = c.seen.breakGlass /\ row.approvedBy = c.seen.approvedBy
        BY <3>1 DEF Request
      <4>2. /\ c.op = "approve" /\ Put(p, row, "audit") /\ approvals' = approvals
            /\ c.seen.breakGlass /\ c.seen.status = "requested"
        BY <3>5 DEF FirstApproval, At, NeedsSecond
      <4> HIDE DEF row
      <4>3. Signed(row)
        BY <3>2, <3>3, <4>1, <4>2 DEF Signed
      <4> QED
        BY <3>4, <4>1, <4>2, <4>3 DEF Opened, Used, Absent
    <3>6. CASE FinalApproval(p)
      <4> DEFINE row == [c.seen EXCEPT !.status = "approved",
                                       !.approvedBy = c.caller.actorId,
                                       !.expiresAt = now + TTL]
      <4>1. row.status = "approved"
        BY <3>1 DEF Request
      <4>2. /\ c.op = "approve" /\ Put(p, row, "audit")
            /\ c.seen.status \in {"requested", "pending_second"}
            /\ \A a \in approvals' \ approvals : a.request = c.rid
        BY <3>6 DEF FinalApproval, At, ApproveOK
      <4> HIDE DEF row
      <4> QED
        BY <3>4, <4>1, <4>2 DEF Signed, Opened, Used, Absent
    <3>7. CASE DenySupportAccess(p)
      <4> DEFINE row == [c.seen EXCEPT !.status = "denied",
                                       !.approvedBy = c.caller.actorId]
      <4>1. row.status = "denied"
        BY <3>1 DEF Request
      <4>2. /\ c.op = "deny" /\ Put(p, row, "audit") /\ approvals' = approvals
            /\ c.seen.status = "requested"
        BY <3>7 DEF DenySupportAccess, At, DenyOK
      <4> HIDE DEF row
      <4> QED
        BY <3>4, <4>1, <4>2 DEF Signed, Opened, Used, Absent
    <3>8. ASSUME NEW to \in Used, NEW pc \in {"idle", "audit"},
                 Put(p, [c.seen EXCEPT !.status = to], pc), approvals' = approvals
          PROVE  SerialInv'
      <4> DEFINE row == [c.seen EXCEPT !.status = to]
      <4>1. row.status = to /\ Put(p, row, pc)
        BY <3>1, <3>8 DEF Request
      <4> HIDE DEF row
      <4> QED
        BY <3>4, <3>8, <4>1 DEF Signed, Opened, Used, Absent
    <3>9. CASE StartSupportAccess(p)
      BY <3>8, <3>9 DEF StartSupportAccess, Used
    <3>10. CASE EndSupportAccess(p)
      BY <3>8, <3>10 DEF EndSupportAccess, Used
    <3>11. CASE ReviewSupportAccess(p)
      BY <3>8, <3>11 DEF ReviewSupportAccess, Used
    <3>12. CASE TickSupportExpiry(p)
      BY <3>8, <3>12 DEF TickSupportExpiry, Used
    <3> QED
      BY <2>3, <3>5, <3>6, <3>7, <3>9, <3>10, <3>11, <3>12
  <2>4. ASSUME \A q \in Procs \ {p} : procs'[q] = procs[q], UNCHANGED <<support, approvals>>,
               procs'[p].pc \in {"idle", "dispatch"},
               procs'[p].pc = "dispatch" => /\ c.pc = "audit" /\ c.op = "start"
                                            /\ procs'[p].rid = c.rid,
               \A pr \in issued' \ issued :
                 pr.supportGrant.requestId = c.rid /\ c.pc = "dispatch",
               c \in Call
        PROVE  SerialInv'
    <3>1. Alone' /\ Fresh'
      BY <2>4 DEF SerialInv, Alone, Fresh, Inside
    <3>2. StartedUsed'
      BY <2>4 DEF SerialInv, StartedUsed, Started
    <3>3. c.rid \in Requests
      BY <2>4 DEF Call
    <3>4. c.pc = "dispatch" => support[c.rid].status \in Used
      BY <3>3 DEF SerialInv, StartedUsed, Started
    <3>5. GrantedUsed'
      <4> SUFFICES ASSUME NEW pr \in issued'
                   PROVE  /\ pr.supportGrant.requestId \in Requests
                          /\ support[pr.supportGrant.requestId].status \in Used
        BY <2>4 DEF GrantedUsed
      <4>1. CASE pr \in issued
        BY <4>1 DEF SerialInv, GrantedUsed
      <4>2. CASE pr \notin issued
        BY <2>4, <3>3, <3>4, <4>2
      <4> QED
        BY <4>1, <4>2
    <3> QED
      BY <1>1, <2>4, <3>1, <3>2, <3>5 DEF SerialInv, RowsSigned, ApprovedOpened
  <2>5. CASE Refuse(p)
    <3>1. c \in Call
      BY <1>1, <2>5, Busy DEF Refuse
    <3> QED
      BY <1>1, <2>4, <2>5, <3>1 DEF Refuse, TypeOK, Idle
  <2>6. CASE Record(p)
    <3>1. c \in Call /\ c.pc = "audit"
      BY <1>1, <2>6, Busy DEF Record
    <3>2. /\ \/ procs'[p] = Idle
             \/ c.op = "start" /\ procs'[p] = [c EXCEPT !.pc = "dispatch"]
          /\ \A q \in Procs \ {p} : procs'[q] = procs[q]
          /\ UNCHANGED <<support, issued, approvals>>
      BY <1>1, <2>6 DEF Record, TypeOK
    <3>3. /\ procs'[p].pc \in {"idle", "dispatch"}
          /\ procs'[p].pc = "dispatch" => c.op = "start" /\ procs'[p].rid = c.rid
      BY <3>1, <3>2 DEF Idle, Call
    <3> QED
      BY <2>4, <3>1, <3>2, <3>3
  <2>7. CASE Respond(p)
    <3> DEFINE pr == [c.caller EXCEPT !.supportGrant = GrantFor(c)]
    <3>1. c \in Call /\ c.pc = "dispatch"
      BY <1>1, <2>7, Busy DEF Respond
    <3>2. pr.supportGrant.requestId = c.rid
      BY <3>1 DEF Call, Principal, GrantFor
    <3>3. /\ procs'[p].pc = "idle" /\ issued' = issued \union {pr}
          /\ \A q \in Procs \ {p} : procs'[q] = procs[q]
          /\ UNCHANGED <<support, approvals>>
      BY <1>1, <2>7 DEF Respond, TypeOK, Idle
    <3> HIDE DEF pr
    <3> QED
      BY <2>4, <3>1, <3>2, <3>3
  <2> QED
    BY <1>1, <1>3, <2>1, <2>2, <2>3, <2>5, <2>6, <2>7, Busy
       DEF Handler, FirstApproval, FinalApproval, DenySupportAccess, At,
           StartSupportAccess, EndSupportAccess, ReviewSupportAccess,
           TickSupportExpiry
<1> QED
  BY <1>2, <1>3 DEF Next, ClockTick, vars


LEMMA SerialInvariant ==
  ASSUME ~StoreYields
  PROVE  Spec => []SerialInv
<1>1. SerialInv /\ [Next]_vars => SerialInv'
  BY SerialStep
<1> QED
  BY <1>1, SerialInit, PTL DEF Spec

\* What the organisation refused was never opened and no grant goes out for it, however
\* many handlers are in flight (denySupport and startSupport look at the status only).
THEOREM DeniedIsFinal ==
  ASSUME ~StoreYields
  PROVE  Spec => []DeniedStaysShut
<1>1. SerialInv => DeniedStaysShut
  BY DEF SerialInv, ApprovedOpened, GrantedUsed, Opened, Used, DeniedStaysShut
<1> QED
  BY <1>1, SerialInvariant, PTL

-----------------------------------------------------------------------------
(* Refinement: a handler's write is a step of the workflow of ADR 0006, so *)
(* is the answer of start, and nothing else shows.                         *)

\* What the policy sees of a step that writes one row.
LEMMA OneRow ==
  ASSUME NEW r \in Requests, NEW row, UNCHANGED issued,
         \A q \in Requests : support'[q] = IF q = r THEN row ELSE support[q]
  PROVE  /\ \A from : Phase(support[r]) \in from => Policy!Move(r, from, Phase(row))
         /\ Phase(row) = Phase(support[r]) => UNCHANGED [q \in Requests |-> Phase(support[q])]
         /\ [q \in Requests |-> support[q].breakGlass]'
              = [[q \in Requests |-> support[q].breakGlass] EXCEPT ![r] = row.breakGlass]
         /\ [q \in Requests |-> Signers(support[q])]'
              = [[q \in Requests |-> Signers(support[q])] EXCEPT ![r] = Signers(row)]
         /\ row.breakGlass = support[r].breakGlass =>
              UNCHANGED [q \in Requests |-> support[q].breakGlass]
         /\ Signers(row) = Signers(support[r]) =>
              UNCHANGED [q \in Requests |-> Signers(support[q])]
         /\ UNCHANGED {pr.supportGrant.requestId : pr \in issued}
<1>1. [q \in Requests |-> Phase(support[q])]'
        = [[q \in Requests |-> Phase(support[q])] EXCEPT ![r] = Phase(row)]
  OBVIOUS
<1>2. [q \in Requests |-> support[q].breakGlass]'
        = [[q \in Requests |-> support[q].breakGlass] EXCEPT ![r] = row.breakGlass]
  OBVIOUS
<1>3. [q \in Requests |-> Signers(support[q])]'
        = [[q \in Requests |-> Signers(support[q])] EXCEPT ![r] = Signers(row)]
  OBVIOUS
<1>4. \A from : Phase(support[r]) \in from => Policy!Move(r, from, Phase(row))
  BY <1>1 DEF Policy!Move
<1>5. /\ Phase(row) = Phase(support[r]) => UNCHANGED [q \in Requests |-> Phase(support[q])]
      /\ row.breakGlass = support[r].breakGlass =>
           UNCHANGED [q \in Requests |-> support[q].breakGlass]
      /\ Signers(row) = Signers(support[r]) =>
           UNCHANGED [q \in Requests |-> Signers(support[q])]
  OBVIOUS
<1> QED
  BY <1>2, <1>3, <1>4, <1>5

LEMMA NothingShows ==
  ASSUME UNCHANGED <<support, issued>>
  PROVE  UNCHANGED Policy!vars
BY DEF Policy!vars

\* A row that only changes its status, forward.
LEMMA StatusMoves ==
  ASSUME NEW r \in Requests, NEW to \in Used, support[r] \in Request,
         support[r].status \in Opened, UNCHANGED issued,
         \A q \in Requests : support'[q] = IF q = r THEN [support[r] EXCEPT !.status = to]
                                                    ELSE support[q],
         to = "active" => support[r].status = "approved",
         to \in {"ended", "expired"} => support[r].status \in {"approved", "active"},
         to = "reviewed" => \/ support[r].status \in {"ended", "expired"}
                            \/ support[r].breakGlass /\ support[r].status \in {"approved", "active"}
  PROVE  Policy!Next
<1> DEFINE row == [support[r] EXCEPT !.status = to]
<1>1. /\ row.status = to /\ row.breakGlass = support[r].breakGlass
      /\ row.approvedBy = support[r].approvedBy /\ row.firstApproverId = support[r].firstApproverId
  BY DEF Request
<1>2. \A q \in Requests : support'[q] = IF q = r THEN row ELSE support[q]
  OBVIOUS
<1> HIDE DEF row
<1>3. Signers(row) = Signers(support[r])
  BY <1>1 DEF Signers, Opened, Used
<1>4. /\ UNCHANGED [q \in Requests |-> support[q].breakGlass]
      /\ UNCHANGED [q \in Requests |-> Signers(support[q])]
      /\ UNCHANGED {pr.supportGrant.requestId : pr \in issued}
      /\ \A from : Phase(support[r]) \in from => Policy!Move(r, from, Phase(row))
  BY <1>1, <1>2, <1>3, OneRow
<1>5. CASE to = "active"
  <2>1. Phase(support[r]) \in {"open"} /\ Phase(row) = "in_use"
    BY <1>1, <1>5 DEF Phase
  <2> QED
    BY <1>4, <2>1 DEF Policy!Next, Policy!Enter
<1>6. CASE to \in {"ended", "expired"}
  <2>1. Phase(support[r]) \in {"open", "in_use"} /\ Phase(row) = "closed"
    BY <1>1, <1>6 DEF Phase
  <2> QED
    BY <1>4, <2>1 DEF Policy!Next, Policy!Close
<1>7. CASE to = "reviewed"
  <2>1. /\ Phase(row) = "reviewed"
        /\ \/ Phase(support[r]) = "closed"
           \/ support[r].breakGlass /\ Phase(support[r]) \in {"open", "in_use"}
    BY <1>1, <1>7 DEF Phase
  <2>2. [q \in Requests |-> support[q].breakGlass][r] = support[r].breakGlass
    OBVIOUS
  <2> QED
    BY <1>4, <2>1, <2>2 DEF Policy!Next, Policy!Review
<1> QED
  BY <1>5, <1>6, <1>7 DEF Used

LEMMA PolicyInit == Init => Policy!Init
BY DEF Init, Policy!Init, Absent, Phase, Signers

LEMMA PolicyStep ==
  ASSUME ~StoreYields, SerialInv, [Next]_vars
  PROVE  [Policy!Next]_(Policy!vars)
<1> USE DEF SerialInv
<1>1. TypeOK /\ TypeOK'
  BY TypeStep
<1>2. CASE UNCHANGED <<support, issued>>
  BY <1>2, NothingShows
<1>3. ASSUME NEW p \in Procs, Handler(p) PROVE [Policy!Next]_(Policy!vars)
  <2> DEFINE c == procs[p]
  <2>1. ASSUME NEW caller \in Callers, NEW r \in Requests, NEW org \in Orgs,
               NEW scopes \in ScopeChoices, NEW breakGlass \in BOOLEAN,
               RequestSupportAccess(p, caller, r, org, scopes, breakGlass)
        PROVE  Policy!Next
    <3> DEFINE row == NewRequest(caller, org, scopes, breakGlass)
    <3>1. /\ Phase(row) = "asked" /\ Signers(row) = {} /\ row.breakGlass = breakGlass
      BY DEF NewRequest, Phase, Signers
    <3>2. /\ \A q \in Requests : support'[q] = IF q = r THEN row ELSE support[q]
          /\ UNCHANGED issued /\ support[r] = Absent
      BY <1>1, <2>1 DEF RequestSupportAccess, TypeOK
    <3>3. Phase(support[r]) \in {"absent"} /\ Signers(support[r]) = {}
      BY <3>2 DEF Absent, Phase, Signers
    <3> HIDE DEF row
    <3>a. /\ \A from : Phase(support[r]) \in from => Policy!Move(r, from, Phase(row))
          /\ [q \in Requests |-> support[q].breakGlass]'
               = [[q \in Requests |-> support[q].breakGlass] EXCEPT ![r] = row.breakGlass]
          /\ Signers(row) = Signers(support[r]) =>
               UNCHANGED [q \in Requests |-> Signers(support[q])]
          /\ UNCHANGED {pr.supportGrant.requestId : pr \in issued}
      BY <3>2, OneRow
    <3>4. /\ Policy!Move(r, {"absent"}, "asked")
          /\ [q \in Requests |-> support[q].breakGlass]'
               = [[q \in Requests |-> support[q].breakGlass] EXCEPT ![r] = breakGlass]
          /\ UNCHANGED [q \in Requests |-> Signers(support[q])]
          /\ UNCHANGED {pr.supportGrant.requestId : pr \in issued}
      BY <3>1, <3>3, <3>a
    <3> QED
      BY <3>4 DEF Policy!Next, Policy!Ask
  <2>2. ASSUME c.pc = "commit", c \in Call,
               \/ FirstApproval(p) \/ FinalApproval(p) \/ DenySupportAccess(p)
               \/ StartSupportAccess(p) \/ EndSupportAccess(p)
               \/ ReviewSupportAccess(p) \/ TickSupportExpiry(p)
        PROVE  Policy!Next
    <3> DEFINE r == c.rid
    <3>1. /\ r \in Requests /\ c.seen \in Request /\ c.seen = support[r]
          /\ c.caller.actorId \in People /\ c.caller.actorId # None
      BY <2>2 DEF Call, Principal, Fresh
    <3>2. Signed(support[r])
      BY <3>1 DEF RowsSigned
    <3>3. ASSUME NEW row, NEW pc, Put(p, row, pc)
          PROVE  /\ \A q \in Requests : support'[q] = IF q = r THEN row ELSE support[q]
                 /\ UNCHANGED issued
      BY <1>1, <3>1, <3>3 DEF Put, TypeOK
    <3>4. CASE FirstApproval(p)
      <4> DEFINE row == [c.seen EXCEPT !.status = "pending_second",
                                       !.firstApproverId = c.caller.actorId]
      <4>1. /\ row.status = "pending_second" /\ row.firstApproverId = c.caller.actorId
            /\ row.breakGlass = c.seen.breakGlass /\ row.approvedBy = c.seen.approvedBy
        BY <3>1 DEF Request
      <4>2. /\ Put(p, row, "audit") /\ c.seen.breakGlass /\ c.seen.status = "requested"
        BY <3>4 DEF FirstApproval, NeedsSecond
      <4> HIDE DEF row
      <4>3. c.seen.approvedBy = None /\ c.seen.firstApproverId = None
        BY <3>1, <3>2, <4>2 DEF Signed
      <4>4. /\ Signers(support[r]) = {} /\ Signers(row) = {c.caller.actorId}
            /\ Phase(support[r]) = "asked" /\ Phase(row) = "asked"
        BY <3>1, <4>1, <4>2, <4>3 DEF Signers, Phase
      <4>w. /\ \A q \in Requests : support'[q] = IF q = r THEN row ELSE support[q]
            /\ UNCHANGED issued
        BY <3>3, <4>2
      <4>a. /\ Phase(row) = Phase(support[r]) => UNCHANGED [q \in Requests |-> Phase(support[q])]
            /\ row.breakGlass = support[r].breakGlass =>
                 UNCHANGED [q \in Requests |-> support[q].breakGlass]
            /\ [q \in Requests |-> Signers(support[q])]'
                 = [[q \in Requests |-> Signers(support[q])] EXCEPT ![r] = Signers(row)]
            /\ UNCHANGED {pr.supportGrant.requestId : pr \in issued}
        BY <3>1, <4>w, OneRow
      <4>5. /\ UNCHANGED [q \in Requests |-> Phase(support[q])]
            /\ UNCHANGED [q \in Requests |-> support[q].breakGlass]
            /\ [q \in Requests |-> Signers(support[q])]'
                 = [[q \in Requests |-> Signers(support[q])] EXCEPT ![r] = {c.caller.actorId}]
            /\ UNCHANGED {pr.supportGrant.requestId : pr \in issued}
        BY <3>1, <4>1, <4>4, <4>a
      <4>6. Policy!FirstSign(r, c.caller.actorId)
        BY <3>1, <4>2, <4>4, <4>5 DEF Policy!FirstSign
      <4> QED
        BY <3>1, <4>6 DEF Policy!Next
    <3>5. CASE FinalApproval(p)
      <4> DEFINE row == [c.seen EXCEPT !.status = "approved",
                                       !.approvedBy = c.caller.actorId,
                                       !.expiresAt = now + TTL]
      <4>1. /\ row.status = "approved" /\ row.approvedBy = c.caller.actorId
            /\ row.breakGlass = c.seen.breakGlass
            /\ row.firstApproverId = c.seen.firstApproverId
        BY <3>1 DEF Request
      <4>2. /\ Put(p, row, "audit") /\ ApproveOK(c)
            /\ ~NeedsSecond(c.seen)
        BY <3>5 DEF FinalApproval
      <4> HIDE DEF row
      <4>3. /\ c.seen.approvedBy = None
            /\ c.seen.breakGlass => c.seen.firstApproverId # None
            /\ c.caller.actorId # c.seen.firstApproverId
            /\ c.seen.status \in {"requested", "pending_second"}
        BY <3>1, <3>2, <4>2 DEF Signed, ApproveOK, NeedsSecond
      <4>4. /\ Signers(support[r]) = {c.seen.firstApproverId} \ {None}
            /\ Signers(row) = Signers(support[r]) \union {c.caller.actorId}
        BY <3>1, <4>1, <4>3 DEF Signers
      <4>5. Phase(support[r]) \in {"asked"} /\ Phase(row) = "open"
        BY <3>1, <4>1, <4>3 DEF Phase
      <4>w. /\ \A q \in Requests : support'[q] = IF q = r THEN row ELSE support[q]
            /\ UNCHANGED issued
        BY <3>3, <4>2
      <4>a. /\ \A from : Phase(support[r]) \in from => Policy!Move(r, from, Phase(row))
            /\ row.breakGlass = support[r].breakGlass =>
                 UNCHANGED [q \in Requests |-> support[q].breakGlass]
            /\ [q \in Requests |-> Signers(support[q])]'
                 = [[q \in Requests |-> Signers(support[q])] EXCEPT ![r] = Signers(row)]
            /\ UNCHANGED {pr.supportGrant.requestId : pr \in issued}
        BY <3>1, <4>w, OneRow
      <4>m. Policy!Move(r, {"asked"}, "open")
        BY <4>5, <4>a
      <4>6. /\ UNCHANGED [q \in Requests |-> support[q].breakGlass]
            /\ [q \in Requests |-> Signers(support[q])]'
                 = [[q \in Requests |-> Signers(support[q])] EXCEPT ![r] =
                      Signers(support[r]) \union {c.caller.actorId}]
            /\ UNCHANGED {pr.supportGrant.requestId : pr \in issued}
        BY <3>1, <4>1, <4>4, <4>a
      <4>7. /\ [q \in Requests |-> Signers(support[q])][r] = Signers(support[r])
            /\ [q \in Requests |-> support[q].breakGlass][r] = support[r].breakGlass
        BY <3>1
      <4>8. /\ support[r].breakGlass => Signers(support[r]) # {}
            /\ c.caller.actorId \notin Signers(support[r])
        BY <3>1, <4>3, <4>4
      <4>9. Policy!Open(r, c.caller.actorId)
        BY <4>m, <4>6, <4>7, <4>8 DEF Policy!Open
      <4> QED
        BY <3>1, <4>9 DEF Policy!Next
    <3>6. CASE DenySupportAccess(p)
      <4> DEFINE row == [c.seen EXCEPT !.status = "denied",
                                       !.approvedBy = c.caller.actorId]
      <4>1. row.status = "denied" /\ row.breakGlass = c.seen.breakGlass
        BY <3>1 DEF Request
      <4>2. Put(p, row, "audit") /\ c.seen.status = "requested"
        BY <3>6 DEF DenySupportAccess, DenyOK
      <4> HIDE DEF row
      <4>3. /\ Signers(support[r]) = {} /\ Signers(row) = {}
            /\ Phase(support[r]) \in {"asked"} /\ Phase(row) = "denied"
        BY <3>1, <3>2, <4>1, <4>2 DEF Signed, Signers, Phase
      <4>w. /\ \A q \in Requests : support'[q] = IF q = r THEN row ELSE support[q]
            /\ UNCHANGED issued
        BY <3>3, <4>2
      <4>a. /\ \A from : Phase(support[r]) \in from => Policy!Move(r, from, Phase(row))
            /\ row.breakGlass = support[r].breakGlass =>
                 UNCHANGED [q \in Requests |-> support[q].breakGlass]
            /\ Signers(row) = Signers(support[r]) =>
                 UNCHANGED [q \in Requests |-> Signers(support[q])]
            /\ UNCHANGED {pr.supportGrant.requestId : pr \in issued}
        BY <3>1, <4>w, OneRow
      <4>4. /\ Policy!Move(r, {"asked"}, "denied")
            /\ UNCHANGED [q \in Requests |-> support[q].breakGlass]
            /\ UNCHANGED [q \in Requests |-> Signers(support[q])]
            /\ UNCHANGED {pr.supportGrant.requestId : pr \in issued}
        BY <3>1, <4>1, <4>3, <4>a
      <4> QED
        BY <3>1, <4>3, <4>4 DEF Policy!Next, Policy!Deny
    <3>7. ASSUME NEW to \in Used, NEW pc, Put(p, [c.seen EXCEPT !.status = to], pc),
                 c.seen.status \in Opened,
                 to = "active" => c.seen.status = "approved",
                 to \in {"ended", "expired"} => c.seen.status \in {"approved", "active"},
                 to = "reviewed" => \/ c.seen.status \in {"ended", "expired"}
                                    \/ c.seen.breakGlass /\ c.seen.status \in {"approved", "active"}
          PROVE  Policy!Next
      BY <3>1, <3>3, <3>7, StatusMoves
    <3>8. CASE StartSupportAccess(p)
      BY <3>7, <3>8 DEF StartSupportAccess, StartOK, Used, Opened
    <3>9. CASE EndSupportAccess(p)
      <4>1. c.seen.breakGlass \in BOOLEAN
        BY <3>1 DEF Request
      <4> QED
        BY <3>7, <3>9, <4>1 DEF EndSupportAccess, EndOK, Used, Opened
    <3>10. CASE ReviewSupportAccess(p)
      BY <3>7, <3>10 DEF ReviewSupportAccess, ReviewOK, Used, Opened
    <3>11. CASE TickSupportExpiry(p)
      BY <3>7, <3>11 DEF TickSupportExpiry, TickOK, Used, Opened
    <3> QED
      BY <2>2, <3>4, <3>5, <3>6, <3>8, <3>9, <3>10, <3>11
  <2>3. CASE Respond(p)
    <3> DEFINE pr == [c.caller EXCEPT !.supportGrant = GrantFor(c)]
    <3>1. c \in Call /\ c.pc = "dispatch"
      BY <1>1, <2>3, Busy DEF Respond
    <3>2. pr.supportGrant.requestId = c.rid
      BY <3>1 DEF Call, Principal, GrantFor
    <3>3. UNCHANGED support /\ issued' = issued \union {pr}
      BY <2>3 DEF Respond
    <3>4. c.rid \in Requests /\ support[c.rid].status \in Used
      BY <3>1 DEF Call, StartedUsed, Started
    <3> HIDE DEF pr
    <3>5. {q.supportGrant.requestId : q \in issued}'
            = {q.supportGrant.requestId : q \in issued} \union {c.rid}
      BY <3>2, <3>3
    <3>6. [q \in Requests |-> Phase(support[q])][c.rid] \in {"in_use", "closed", "reviewed"}
      BY <3>4 DEF Phase, Used
    <3> QED
      BY <3>3, <3>4, <3>5, <3>6 DEF Policy!Next, Policy!Grant
  <2>4. CASE Refuse(p) \/ Record(p)
    BY <1>2, <2>4 DEF Refuse, Record
  <2>5. ASSUME NEW op \in Ops \ {"request"}, NEW caller \in Callers,
               NEW r \in Requests, NEW notes \in BOOLEAN,
               Load(p, op, caller, r, notes)
        PROVE  UNCHANGED <<support, issued>>
    BY <2>5 DEF Load
  <2> QED
    BY <1>1, <1>2, <1>3, <2>1, <2>2, <2>3, <2>4, <2>5, Busy
       DEF Handler, FirstApproval, FinalApproval, DenySupportAccess, At,
           StartSupportAccess, EndSupportAccess, ReviewSupportAccess,
           TickSupportExpiry
<1> QED
  BY <1>2, <1>3 DEF Next, ClockTick, vars

\* The handlers over the store the console ships implement the workflow of ADR 0006: two
\* people open a break-glass request, nothing reopens or refuses one that was opened.
THEOREM HandlersKeepPolicy ==
  ASSUME ~StoreYields
  PROVE  Spec => PolicySpec
<1>1. SerialInv /\ [Next]_vars => [Policy!Next]_(Policy!vars)
  BY PolicyStep
<1> QED
  BY <1>1, PolicyInit, SerialInvariant, PTL DEF Spec, PolicySpec, Policy!Spec

=============================================================================
