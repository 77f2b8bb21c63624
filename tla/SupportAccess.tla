--------------------------- MODULE SupportAccess ---------------------------
(***************************************************************************)
(* The support-access workflow: packages/support-access (the transitions)  *)
(* driven by the handlers of packages/control-plane (who may run them, the *)
(* store, the audit trail, the grant handed to the operator).              *)
(*                                                                         *)
(* A handler is a process p with three suspension points, the awaits of    *)
(* the code:                                                               *)
(*     Load    store.getSupport                      -> "commit"           *)
(*     commit  authorize, transition, updateSupport  -> "audit"            *)
(*     audit   store.appendAudit, auditSink.append   -> "dispatch"         *)
(*     dispatch  webhooks, then the answer (start)   -> "idle"             *)
(* StoreYields says whether another handler may run between Load and the   *)
(* end of the audit step.  MemoryStore, which the console ships, answers   *)
(* in the same turn of the event loop (FALSE); a database behind           *)
(* BlakIDStore does not (TRUE).                                            *)
(***************************************************************************)
EXTENDS Authz

CONSTANTS
  People,         \* actorIds: operators and organisation members
  RoleOf,         \* the role in a person's session
  OrgOf,          \* the organisation in a person's session (None: operator)
  Orgs, Requests, \* organisation ids and support request ids
  ScopeChoices,   \* the scope sets an operator may ask for, allowed or not
  TTL,            \* RETENTION.supportSessionMinutes, in clock ticks
  MaxTime,        \* bound on the clock
  Procs,          \* handler slots: how many calls are in flight at once
  StoreYields,
  SinkMayFail     \* the audit sink may throw (a full disk)

ASSUME SupportAssumption ==
  /\ RoleOf \in [People -> Roles]
  /\ OrgOf \in [People -> Orgs \union {None}]
  /\ \A p \in People : RoleOf[p] = Operator => OrgOf[p] = None
  /\ None \notin People \union Orgs \union Requests
  /\ ScopeChoices \subseteq SUBSET Permissions
  /\ TTL \in Nat \ {0} /\ MaxTime \in Nat \ {0}
  /\ StoreYields \in BOOLEAN /\ SinkMayFail \in BOOLEAN

VARIABLES
  now,        \* this.now() and Date.now(), one clock
  support,    \* the store's support_access rows
  procs,      \* handlers in flight
  issued,     \* principals with a supportGrant that start has answered with
  audit,      \* support.access.* events in the audit store
  approvals   \* history: every approval that opened a request

vars == <<now, support, procs, issued, audit, approvals>>

----------------------------------------------------------------------------
ALLOWED_SUPPORT_SCOPES ==
  {"identity.users.read", "identity.users.suspend",
   "identity.sessions.revoke", "applications.read", "audit.read"}

SUPPORT_STATUSES == {"requested", "pending_second", "approved", "denied",
                     "active", "expired", "ended", "reviewed"}

Person == People \union {None}

Request == [org : Orgs, requester : People, scopes : SUBSET Permissions,
            status : SUPPORT_STATUSES, breakGlass : BOOLEAN,
            firstApproverId : Person, approvedBy : Person, expiresAt : Nat]

Absent == [org |-> None, requester |-> None, scopes |-> {}, status |-> "absent",
           breakGlass |-> FALSE, firstApproverId |-> None, approvedBy |-> None,
           expiresAt |-> 0]

Grant == [requestId : Requests, organisationId : Orgs,
          scopes : SUBSET Permissions, expiresAt : Nat]

Principal == [actorId : People, role : Roles, organisationId : Orgs \union {None},
              supportGrant : Grant \union {NoGrant}]

\* The principal a sealed session cookie opens to.
Base(p) == [actorId |-> p, role |-> RoleOf[p], organisationId |-> OrgOf[p],
            supportGrant |-> NoGrant]

\* Everyone who can call: members, operators, operators holding a grant.
Callers == {Base(p) : p \in People} \union issued

Ops == {"request", "approve", "deny", "start", "end", "review", "tick"}

Call == [pc : {"commit", "audit", "dispatch"}, op : Ops, caller : Principal,
         rid : Requests, seen : Request, notes : BOOLEAN]

Idle == [pc |-> "idle"]

Event == [action : {"requested", "approved", "denied", "started", "ended"},
          request : Requests]

Approval == [request : Requests, first : Person, second : People, at : Nat]

TypeOK ==
  /\ now \in 1..MaxTime
  /\ support \in [Requests -> Request \union {Absent}]
  /\ procs \in [Procs -> Call \union {Idle}]
  /\ issued \subseteq Principal
  /\ audit \subseteq Event
  /\ approvals \subseteq Approval

Init ==
  /\ now = 1
  /\ support = [r \in Requests |-> Absent]
  /\ procs = [p \in Procs |-> Idle]
  /\ issued = {}
  /\ audit = {}
  /\ approvals = {}

----------------------------------------------------------------------------
\* A handler may run its next store call: nobody is inside an uninterrupted
\* stretch, or the store lets handlers interleave there.
Turn == StoreYields \/ \A q \in Procs : procs[q].pc \notin {"commit", "audit"}

\* Fault: the caller's organisation in place of the one asked for.
NewRequest_CallersOrg(caller, org, scopes, breakGlass) ==
  [org |-> caller.organisationId, requester |-> caller.actorId, scopes |-> scopes,
   status |-> "requested", breakGlass |-> breakGlass,
   firstApproverId |-> None, approvedBy |-> None, expiresAt |-> 0]

NewRequest(caller, org, scopes, breakGlass) ==
  [org |-> org, requester |-> caller.actorId, scopes |-> scopes,
   status |-> "requested", breakGlass |-> breakGlass,
   firstApproverId |-> None, approvedBy |-> None, expiresAt |-> 0]

NewCall(pc, op, caller, r, row, notes) ==
  [pc |-> pc, op |-> op, caller |-> caller, rid |-> r, seen |-> row, notes |-> notes]

RequestSupportAccess(p, caller, r, org, scopes, breakGlass) ==
  LET row == NewRequest(caller, org, scopes, breakGlass)
  IN /\ procs[p] = Idle /\ Turn
     /\ support[r] = Absent
     /\ Authorized(caller, "support.request", None, now)
     /\ scopes \subseteq ALLOWED_SUPPORT_SCOPES
     /\ support' = [support EXCEPT ![r] = row]
     /\ procs' = [procs EXCEPT ![p] =
          NewCall("audit", "request", caller, r, row, FALSE)]
     /\ UNCHANGED <<now, issued, audit, approvals>>

\* requireSupport (the tick: listSupport); the handler goes on with the row it
\* was given.  Only the closing of a break-glass request looks at the notes.
\* The tick has no caller and end does not look at its: anyone may end a
\* session, and the requester stands for whoever does.  The tick passes over
\* rows that are not open.
Load(p, op, caller, r, notes) ==
  /\ procs[p] = Idle /\ Turn
  /\ support[r] # Absent
  /\ notes => op \in {"end", "review"} /\ support[r].breakGlass
  /\ op \in {"end", "tick"} => caller = Base(support[r].requester)
  /\ op = "tick" => support[r].status \in {"active", "approved"}
  /\ procs' = [procs EXCEPT ![p] = NewCall("commit", op, caller, r, support[r], notes)]
  /\ UNCHANGED <<now, support, issued, audit, approvals>>

----------------------------------------------------------------------------
(* The checks of each handler, on the row it loaded.                       *)

CanApprove(c) == Authorized(c.caller, "support.approve", c.seen.org, now)

NeedsSecond(row) == row.breakGlass /\ row.status = "requested"

\* Fault: the second approval may come from the first approver.
ApproveOK_SamePerson(c) ==
  /\ CanApprove(c)
  /\ \/ c.seen.status = "requested"
     \/ c.seen.breakGlass /\ c.seen.status = "pending_second"

ApproveOK(c) ==
  /\ CanApprove(c)
  /\ \/ c.seen.status = "requested"
     \/ /\ c.seen.breakGlass /\ c.seen.status = "pending_second"
        /\ c.caller.actorId # c.seen.firstApproverId

\* Fault: a denial is taken after the approval.
DenyOK_Late(c) == CanApprove(c) /\ c.seen.status \in {"requested", "approved"}

DenyOK(c) == CanApprove(c) /\ c.seen.status = "requested"

StartOK(c) ==
  /\ c.seen.requester = c.caller.actorId
  /\ c.seen.status = "approved"
  /\ now < c.seen.expiresAt

\* Fault: a reviewed request is ended again.
EndOK_Again(c) == /\ c.seen.breakGlass => c.notes
                  /\ c.seen.status \in {"active", "approved", "reviewed"}

EndOK(c) ==
  /\ c.seen.breakGlass => c.notes
  /\ c.seen.status \in {"active", "approved"}

ReviewOK(c) ==
  /\ CanApprove(c)
  /\ c.seen.status \in {"ended", "expired"}
  /\ c.seen.breakGlass => c.notes

IsExpired(row) == row.expiresAt # 0 /\ row.expiresAt <= now

TickOK(c) == c.seen.status \in {"active", "approved"} /\ IsExpired(c.seen)

Accepts(c) ==
  CASE c.op = "approve" -> ApproveOK(c)
    [] c.op = "deny"    -> DenyOK(c)
    [] c.op = "start"   -> StartOK(c)
    [] c.op = "end"     -> EndOK(c)
    [] c.op = "review"  -> ReviewOK(c)
    [] OTHER            -> TickOK(c)

----------------------------------------------------------------------------
(* The second half of each handler: updateSupport overwrites the row with  *)
(* the one computed from what Load saw.                                    *)

Put(p, row, pc) ==
  /\ support' = [support EXCEPT ![procs[p].rid] = row]
  /\ procs' = [procs EXCEPT ![p] =
       IF pc = "idle" THEN Idle ELSE [procs[p] EXCEPT !.pc = pc]]
  /\ UNCHANGED <<now, issued, audit>>

At(p, op) == procs[p].pc = "commit" /\ procs[p].op = op

\* A break-glass request keeps waiting for a second person.
FirstApproval(p) ==
  LET c == procs[p]
  IN /\ At(p, "approve") /\ ApproveOK(c) /\ NeedsSecond(c.seen)
     /\ Put(p, [c.seen EXCEPT !.status = "pending_second",
                              !.firstApproverId = c.caller.actorId], "audit")
     /\ UNCHANGED approvals

FinalApproval(p) ==
  LET c == procs[p]
  IN /\ At(p, "approve") /\ ApproveOK(c) /\ ~NeedsSecond(c.seen)
     /\ Put(p, [c.seen EXCEPT !.status = "approved",
                              !.approvedBy = c.caller.actorId,
                              !.expiresAt = now + TTL], "audit")
     /\ approvals' = approvals \union
          {[request |-> c.rid, first |-> c.seen.firstApproverId,
            second |-> c.caller.actorId, at |-> now]}

DenySupportAccess(p) ==
  LET c == procs[p]
  IN /\ At(p, "deny") /\ DenyOK(c)
     /\ Put(p, [c.seen EXCEPT !.status = "denied",
                              !.approvedBy = c.caller.actorId], "audit")
     /\ UNCHANGED approvals

StartSupportAccess(p) ==
  LET c == procs[p]
  IN /\ At(p, "start") /\ StartOK(c)
     /\ Put(p, [c.seen EXCEPT !.status = "active"], "audit")
     /\ UNCHANGED approvals

\* Break-glass goes straight to "reviewed": closing needs the notes.
EndSupportAccess(p) ==
  LET c == procs[p]
  IN /\ At(p, "end") /\ EndOK(c)
     /\ Put(p, [c.seen EXCEPT !.status = IF c.seen.breakGlass THEN "reviewed"
                                                              ELSE "ended"],
            "audit")
     /\ UNCHANGED approvals

\* Neither the review nor the expiry tick writes an audit event.
ReviewSupportAccess(p) ==
  LET c == procs[p]
  IN /\ At(p, "review") /\ ReviewOK(c)
     /\ Put(p, [c.seen EXCEPT !.status = "reviewed"], "idle")
     /\ UNCHANGED approvals

TickSupportExpiry(p) ==
  LET c == procs[p]
  IN /\ At(p, "tick") /\ TickOK(c)
     /\ Put(p, [c.seen EXCEPT !.status = "expired"], "idle")
     /\ UNCHANGED approvals

\* A refused call throws; the tick passes over the row.
Refuse(p) ==
  /\ procs[p].pc = "commit" /\ ~Accepts(procs[p])
  /\ procs' = [procs EXCEPT ![p] = Idle]
  /\ UNCHANGED <<now, support, issued, audit, approvals>>

----------------------------------------------------------------------------
EventOf(op) == CASE op = "request" -> "requested" [] op = "approve" -> "approved"
                 [] op = "deny" -> "denied"       [] op = "start" -> "started"
                 [] OTHER -> "ended"

\* Fault: the sink first, so that its failure loses the store's copy as well.
Record_SinkFirst(p) ==
  LET c == procs[p]
  IN /\ c.pc = "audit"
     /\ \/ /\ audit' = audit \union {[action |-> EventOf(c.op), request |-> c.rid]}
           /\ procs' = [procs EXCEPT ![p] =
                IF c.op = "start" THEN [c EXCEPT !.pc = "dispatch"] ELSE Idle]
        \/ SinkMayFail /\ procs' = [procs EXCEPT ![p] = Idle] /\ UNCHANGED audit
     /\ UNCHANGED <<now, support, issued, approvals>>

\* record(): the store's copy first, then the sink, which may throw.  What is
\* left of a handler then is to send webhooks (their failures are swallowed)
\* and to answer; only the answer of start carries anything.
Record(p) ==
  LET c == procs[p]
  IN /\ c.pc = "audit"
     /\ audit' = audit \union {[action |-> EventOf(c.op), request |-> c.rid]}
     /\ \/ c.op = "start" /\ procs' = [procs EXCEPT ![p].pc = "dispatch"]
        \/ /\ c.op # "start" \/ SinkMayFail
           /\ procs' = [procs EXCEPT ![p] = Idle]
     /\ UNCHANGED <<now, support, issued, approvals>>

\* Fault: the hour of the grant is counted from the answer.
GrantFor_Fresh(c) == [requestId |-> c.rid, organisationId |-> c.seen.org,
                      scopes |-> c.seen.scopes, expiresAt |-> now + TTL]

\* The grant start answers with, from the row it wrote.
GrantFor(c) == [requestId |-> c.rid, organisationId |-> c.seen.org,
                scopes |-> c.seen.scopes, expiresAt |-> c.seen.expiresAt]

\* The webhooks are out: start answers with a principal that holds the grant.
Respond(p) ==
  LET c == procs[p]
  IN /\ c.pc = "dispatch"
     /\ procs' = [procs EXCEPT ![p] = Idle]
     /\ issued' = issued \union {[c.caller EXCEPT !.supportGrant = GrantFor(c)]}
     /\ UNCHANGED <<now, support, audit, approvals>>

\* Time passes, up to MaxTime.
ClockTick ==
  /\ now < MaxTime
  /\ now' = now + 1
  /\ UNCHANGED <<support, procs, issued, audit, approvals>>

Handler(p) ==
  \/ \E caller \in Callers, r \in Requests, org \in Orgs,
        scopes \in ScopeChoices, breakGlass \in BOOLEAN :
       RequestSupportAccess(p, caller, r, org, scopes, breakGlass)
  \/ \E op \in Ops \ {"request"}, caller \in Callers, r \in Requests,
        notes \in BOOLEAN : Load(p, op, caller, r, notes)
  \/ FirstApproval(p) \/ FinalApproval(p) \/ DenySupportAccess(p)
  \/ StartSupportAccess(p) \/ EndSupportAccess(p) \/ ReviewSupportAccess(p)
  \/ TickSupportExpiry(p) \/ Refuse(p) \/ Record(p) \/ Respond(p)

Next == ClockTick \/ \E p \in Procs : Handler(p)

Spec == Init /\ [][Next]_vars

----------------------------------------------------------------------------
(* Properties.                                                             *)

\* May this person decide support requests of org by their own role?
Decides(person, org) ==
  person # None /\ OrgOf[person] = org /\ RoleOf[person] \in MATRIX("support.approve")

\* Whatever the handlers in flight, an operator passes authorize() for a
\* tenant permission only inside the TTL of an approval, by a decision maker
\* of that very organisation, of that operator's own request for that scope
\* (ADR 0006: "Operators cannot start a support session until the
\* organisation approves it"; authorize.ts grantAllows).
AccessIsBacked ==
  \A pr \in {c \in Callers : c.role = Operator}, org \in Orgs,
     permission \in TenantPermissions :
    Authorized(pr, permission, org, now) =>
      \E a \in approvals :
        /\ a.at <= now /\ now < a.at + TTL
        /\ Decides(a.second, org)
        /\ support[a.request].org = org
        /\ support[a.request].requester = pr.actorId
        /\ permission \in support[a.request].scopes

\* A break-glass request is never opened by one person alone: the two that
\* opened it differ, and each may decide for the organisation
\* (approveSupport's second-person check, on a row that may be stale).
BreakGlassTwoPeople ==
  \A a \in approvals :
    support[a.request].breakGlass =>
      /\ a.first # a.second
      /\ Decides(a.first, support[a.request].org)
      /\ Decides(a.second, support[a.request].org)

\* Once no handler is writing about a request, the event of the step that
\* brought it to its status is in the audit store, even if the sink threw
\* (record() after updateSupport).  The expiry
\* tick and a review record nothing: "expired" and "reviewed" ask for no event.
DecisionsAudited ==
  \A r \in Requests :
    LET status == support[r].status
        Has(action) == \E e \in audit : e.request = r /\ e.action = action
    IN (\A p \in Procs : procs[p].pc = "audit" => procs[p].rid # r) =>
         /\ status # "absent" => Has("requested")
         /\ status \in {"pending_second", "approved", "active", "ended", "expired"}
              => Has("approved")
         /\ status = "denied" => Has("denied")
         /\ status = "active" => Has("started")
         /\ status = "ended" => Has("ended")

\* A request the organisation refused never becomes a grant, and was never
\* opened (denySupport and startSupport look at the status only; needs a
\* store that does not yield between the two halves of a handler).
DeniedStaysShut ==
  \A r \in Requests : support[r].status = "denied" =>
    /\ \A a \in approvals : a.request # r
    /\ \A pr \in issued : pr.supportGrant.requestId # r

\* The workflow ADR 0006 promises, implemented when the store does not yield.
Phase(row) ==
  CASE row.status \in {"requested", "pending_second"} -> "asked"
    [] row.status = "approved"             -> "open"
    [] row.status = "active"               -> "in_use"
    [] row.status \in {"ended", "expired"} -> "closed"
    [] OTHER                               -> row.status

Signers(row) == IF row.status = "denied" THEN {}
                ELSE {row.firstApproverId, row.approvedBy} \ {None}

Policy == INSTANCE SupportPolicy WITH
  phase   <- [r \in Requests |-> Phase(support[r])],
  urgent  <- [r \in Requests |-> support[r].breakGlass],
  signers <- [r \in Requests |-> Signers(support[r])],
  granted <- {pr.supportGrant.requestId : pr \in issued}

PolicySpec == Policy!Spec

----------------------------------------------------------------------------
(* The inductive invariant behind AccessIsBacked and BreakGlassTwoPeople:  *)
(* a handler may hold a stale row, but what the row says about who asked,  *)
(* for what, and who approved is still true of the request.                *)

Backed(r, expiresAt, aps) ==
  \E a \in aps : a.request = r /\ expiresAt = a.at + TTL

RowOK(row, r, aps) ==
  /\ RoleOf[row.requester] = Operator
  /\ row.scopes \subseteq ALLOWED_SUPPORT_SCOPES
  /\ row.status = "pending_second" => Decides(row.firstApproverId, row.org)
  /\ row.expiresAt # 0 => Backed(r, row.expiresAt, aps)

\* The fields no transition writes.
SameRequest(row, other) ==
  /\ row.org = other.org /\ row.requester = other.requester
  /\ row.scopes = other.scopes /\ row.breakGlass = other.breakGlass

CallerOK(pr, rows, aps) ==
  LET grant == pr.supportGrant
  IN /\ pr.role = RoleOf[pr.actorId] /\ pr.organisationId = OrgOf[pr.actorId]
     /\ grant # NoGrant =>
          /\ rows[grant.requestId] # Absent
          /\ rows[grant.requestId].requester = pr.actorId
          /\ rows[grant.requestId].org = grant.organisationId
          /\ rows[grant.requestId].scopes = grant.scopes
          /\ Backed(grant.requestId, grant.expiresAt, aps)

CallOK(c, rows, aps) ==
  /\ rows[c.rid] # Absent /\ SameRequest(c.seen, rows[c.rid])
  /\ RowOK(c.seen, c.rid, aps) /\ CallerOK(c.caller, rows, aps)
  /\ c.op = "start" /\ c.pc # "commit" =>
       c.seen.requester = c.caller.actorId /\ c.seen.expiresAt # 0
  /\ c.pc = "dispatch" => c.op = "start"

ApprovalOK(a, rows, time) ==
  LET row == rows[a.request]
  IN /\ row # Absent /\ a.at <= time /\ Decides(a.second, row.org)
     /\ row.breakGlass => a.first # a.second /\ Decides(a.first, row.org)

RowsOK == \A r \in Requests :
            support[r] # Absent => RowOK(support[r], r, approvals)
CallsOK == \A p \in Procs :
             procs[p] # Idle => CallOK(procs[p], support, approvals)
IssuedOK == \A pr \in issued : CallerOK(pr, support, approvals)
ApprovalsOK == \A a \in approvals : ApprovalOK(a, support, now)

IInv == TypeOK /\ RowsOK /\ CallsOK /\ IssuedOK /\ ApprovalsOK
=============================================================================
