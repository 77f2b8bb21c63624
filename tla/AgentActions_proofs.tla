------------------------ MODULE AgentActions_proofs ------------------------
(***************************************************************************)
(* Proofs about AgentActions, for any people, actions, executions and      *)
(* endpoints: decisions and executions may overlap in any way, fail        *)
(* anywhere and be made again.                                             *)
(***************************************************************************)
EXTENDS AgentActions, WellFoundedInduction, TLAPS

USE AgentAssumption, NoneAssumption

-----------------------------------------------------------------------------
(* Types of what this module adds to Webhooks.                             *)

AgentTypes ==
  /\ action \in [Actions -> AgentAction \union {None}]
  /\ call \in [Calls -> Execution \union {Idle}]
  /\ suspended \in BOOLEAN
  /\ ran \subseteq Actions
  /\ approved \in [Actions -> SUBSET People]

\* An approval in a row, or in the copy an execution holds, was given by somebody
\* who may; a copy is executed only after its action ran.
RowsBacked ==
  \A a \in Actions : action[a] # None =>
    /\ action[a].status \in {"approved", "executed"} => action[a].approverId \in approved[a]
    /\ action[a].status = "executed" => a \in ran

CallsBacked ==
  \A c \in Calls : call[c] # Idle =>
    /\ call[c].seen.approverId \in approved[call[c].id]
    /\ call[c].pc = "record" => call[c].id \in ran

ApproversMay ==
  \A a \in Actions :
    /\ \A p \in approved[a] : Holds(p, "applications.access.grant")
    /\ a \in ran => approved[a] # {}

IInv == AgentTypes /\ RowsBacked /\ CallsBacked /\ ApproversMay

LEMMA ScriptLengths == \A tool \in Tools : Len(Script[tool]) \in 1 .. 2
BY DEF Tools, Script

LEMMA AgentInit == Init => IInv
BY DEF Init, IInv, AgentTypes, RowsBacked, CallsBacked, ApproversMay

\* An execution under way.
LEMMA UnderWay ==
  ASSUME AgentTypes, NEW c \in Calls, call[c].pc \in {"tool", "record"}
  PROVE  /\ call[c] \in Execution /\ call[c] # Idle
         /\ call[c].id \in Actions /\ call[c].seen \in AgentAction
         /\ call[c].seen.tool \in Tools
BY DEF AgentTypes, Execution, Idle, AgentAction

LEMMA CreateInv ==
  ASSUME IInv, NEW a \in Actions, NEW p \in People, NEW tool \in Tools,
         CreateAgentAction(a, p, tool)
  PROVE  IInv'
<1> DEFINE row == [tool |-> tool, status |-> "pending", approverId |-> None]
<1>1. row \in AgentAction
  BY DEF AgentAction
<1>2. /\ action' = [action EXCEPT ![a] = row]
      /\ UNCHANGED <<call, suspended, ran, approved>>
  BY DEF CreateAgentAction
<1>3. row.status = "pending"
  OBVIOUS
<1> HIDE DEF row
<1> QED
  BY <1>1, <1>2, <1>3 DEF IInv, AgentTypes, RowsBacked, CallsBacked, ApproversMay

LEMMA DecideInv ==
  ASSUME IInv, NEW a \in Actions, NEW p \in People, NEW d \in {"approved", "denied"},
         DecideAgentAction(a, p, d)
  PROVE  IInv'
<1> DEFINE row == [action[a] EXCEPT !.status = d, !.approverId = p]
<1>1. action[a] \in AgentAction
  BY DEF DecideAgentAction, IInv, AgentTypes
<1>2. row \in AgentAction /\ row.status = d /\ row.approverId = p
  BY <1>1 DEF AgentAction
<1>3. /\ \A b \in Actions : action'[b] = IF b = a THEN row ELSE action[b]
      /\ action' \in [Actions -> AgentAction \union {None}]
      /\ Holds(p, "applications.access.grant")
      /\ UNCHANGED <<call, suspended, ran>>
  BY <1>2 DEF DecideAgentAction, IInv, AgentTypes
<1>4. /\ approved' \in [Actions -> SUBSET People]
      /\ \A b \in Actions : approved[b] \subseteq approved'[b]
      /\ \A b \in Actions : approved'[b] \subseteq approved[b] \union {p}
      /\ d = "approved" => p \in approved'[a]
  BY DEF DecideAgentAction, IInv, AgentTypes
<1> HIDE DEF row
<1>5. AgentTypes'
  BY <1>3, <1>4 DEF IInv, AgentTypes
<1>6. RowsBacked'
  BY <1>2, <1>3, <1>4 DEF IInv, RowsBacked
<1>7. CallsBacked'
  <2>1. \A c \in Calls : call[c] # Idle => call[c].id \in Actions
    BY DEF IInv, AgentTypes, Execution
  <2> QED
    BY <1>3, <1>4, <2>1 DEF IInv, CallsBacked
<1>8. ApproversMay'
  BY <1>3, <1>4 DEF IInv, ApproversMay
<1> QED
  BY <1>5, <1>6, <1>7, <1>8 DEF IInv

LEMMA ExecuteInv ==
  ASSUME IInv, NEW c \in Calls, NEW a \in Actions, NEW p \in People,
         ExecuteAgentAction(c, a, p)
  PROVE  IInv'
<1> DEFINE x == [pc |-> "tool", id |-> a, seen |-> action[a], step |-> 1]
<1>1. action[a] \in AgentAction /\ action[a].status = "approved"
  BY DEF ExecuteAgentAction, Executable, IInv, AgentTypes
<1>2. x \in Execution
  BY <1>1 DEF Execution
<1>3. /\ call' = [call EXCEPT ![c] = x]
      /\ UNCHANGED <<action, suspended, ran, approved>>
  BY DEF ExecuteAgentAction
<1>4. x.id = a /\ x.seen = action[a] /\ x.pc = "tool"
  OBVIOUS
<1>5. action[a].approverId \in approved[a]
  BY <1>1 DEF IInv, RowsBacked
<1> HIDE DEF x
<1> QED
  BY <1>2, <1>3, <1>4, <1>5 DEF IInv, AgentTypes, RowsBacked, CallsBacked, ApproversMay

LEMMA ContinueInv ==
  ASSUME IInv, NEW c \in Calls, Continue(c)
  PROVE  IInv'
<1> DEFINE x == call[c]
<1> USE DEF IInv
<1>1. CASE RunStep(c)
  <2>1. x \in Execution /\ x # Idle /\ x.id \in Actions
    BY <1>1, UnderWay DEF RunStep
  <2>2. [x EXCEPT !.pc = "record"] \in Execution
    BY <2>1 DEF Execution
  <2>3. /\ \A b \in Calls : call'[b] = IF b = c THEN [x EXCEPT !.pc = "record"] ELSE call[b]
        /\ call' \in [Calls -> Execution \union {Idle}]
        /\ ran' = ran \union {x.id} /\ suspended' \in BOOLEAN
        /\ UNCHANGED <<action, approved>>
    BY <1>1, <2>2 DEF RunStep, Done, AgentTypes
  <2>4. /\ [x EXCEPT !.pc = "record"].id = x.id
        /\ [x EXCEPT !.pc = "record"].seen = x.seen
    BY <2>1 DEF Execution
  <2>5. x.seen.approverId \in approved[x.id]
    BY <2>1 DEF CallsBacked
  <2>6. AgentTypes'
    BY <2>1, <2>3 DEF AgentTypes
  <2>7. CallsBacked'
    BY <2>3, <2>4, <2>5 DEF CallsBacked
  <2>8. RowsBacked' /\ ApproversMay'
    BY <2>3, <2>5 DEF RowsBacked, ApproversMay
  <2> QED
    BY <2>6, <2>7, <2>8
<1>2. CASE NextStep(c)
  <2>1. x \in Execution /\ x # Idle /\ x.id \in Actions /\ x.seen.tool \in Tools
    BY <1>2, UnderWay DEF NextStep
  <2>2. x.step + 1 \in 1 .. 2
    <3>1. x.step \in 1 .. 2 /\ x.step < Len(Script[x.seen.tool])
      BY <1>2, <2>1 DEF NextStep, Execution
    <3>2. Len(Script[x.seen.tool]) \in 1 .. 2
      BY <2>1, ScriptLengths
    <3>3. \A n, l \in 1 .. 2 : n < l => n + 1 \in 1 .. 2
      OBVIOUS
    <3> HIDE DEF x
    <3> QED
      BY <3>1, <3>2, <3>3, Zenon
  <2> DEFINE y == [x EXCEPT !.pc = "tool", !.step = @ + 1]
  <2>3. y \in Execution /\ y.id = x.id /\ y.seen = x.seen /\ y.pc = "tool"
    BY <2>1, <2>2 DEF Execution
  <2>4. /\ \A b \in Calls : call'[b] = IF b = c THEN y ELSE call[b]
        /\ call' \in [Calls -> Execution \union {Idle}]
        /\ UNCHANGED <<action, suspended, ran, approved>>
    BY <1>2, <2>3 DEF NextStep, AgentTypes
  <2> HIDE DEF y
  <2> QED
    BY <2>1, <2>3, <2>4 DEF AgentTypes, RowsBacked, CallsBacked, ApproversMay
<1>3. CASE MarkExecuted(c)
  <2>1. /\ x \in Execution /\ x # Idle /\ x.id \in Actions /\ x.seen \in AgentAction
        /\ x.pc = "record"
    BY <1>3, UnderWay DEF MarkExecuted
  <2>2. /\ Executed(x) \in AgentAction /\ Executed(x).status = "executed"
        /\ Executed(x).approverId = x.seen.approverId
    BY <2>1 DEF Executed, AgentAction
  <2>3. /\ \A a \in Actions : action'[a] = IF a = x.id THEN Executed(x) ELSE action[a]
        /\ action' \in [Actions -> AgentAction \union {None}]
        /\ call' = [call EXCEPT ![c] = Idle]
        /\ UNCHANGED <<suspended, ran, approved>>
    BY <1>3, <2>1, <2>2 DEF MarkExecuted, AgentTypes
  <2>4. x.seen.approverId \in approved[x.id] /\ x.id \in ran
    BY <2>1 DEF CallsBacked
  <2> QED
    BY <2>2, <2>3, <2>4 DEF AgentTypes, RowsBacked, CallsBacked, ApproversMay
<1>4. CASE Fail(c)
  BY <1>4 DEF Fail, AgentTypes, RowsBacked, CallsBacked, ApproversMay
<1>5. CASE UNCHANGED agentVars
  BY <1>5 DEF agentVars, AgentTypes, RowsBacked, CallsBacked, ApproversMay
<1> QED
  BY <1>1, <1>2, <1>3, <1>4, <1>5 DEF Continue

LEMMA AgentStep == IInv /\ [Next]_vars => IInv'
<1> SUFFICES ASSUME IInv, [Next]_vars PROVE IInv'
  OBVIOUS
<1>1. CASE UNCHANGED agentVars
  BY <1>1 DEF agentVars, IInv, AgentTypes, RowsBacked, CallsBacked, ApproversMay
<1> QED
  BY <1>1, CreateInv, DecideInv, ExecuteInv, ContinueInv DEF Next, vars

LEMMA AgentInvariant == Spec => []IInv
BY AgentInit, AgentStep, PTL DEF Spec

-----------------------------------------------------------------------------
(* Webhooks.  An event has one announcer, which takes one endpoint after    *)
(* the other: the endpoints it has still to send to were sent nothing yet.  *)

HookTypes ==
  /\ hooks \in Seq(Endpoint) /\ Len(hooks) <= MaxHooks
  /\ stored \in Seq(AuditActions) /\ Len(stored) <= MaxEvents
  /\ sunk \subseteq EventIds
  /\ delivery \in [EventIds \X HookIds -> Delivery \union {None}]
  /\ received \in [EventIds \X HookIds -> 0 .. 1]
  /\ ann \in [Calls -> Announcement \union {Quiet}]

OneAnnouncer ==
  \A c \in Calls : ann[c].pc # "quiet" =>
    /\ ann[c].event \in 1 .. Len(stored)
    /\ \A d \in Calls : d # c /\ ann[d].pc # "quiet" => ann[d].event # ann[c].event

Unsent ==
  \A c \in Calls :
    /\ ann[c].pc = "sink" => \A h \in HookIds : received[<<ann[c].event, h>>] = 0
    /\ ann[c].pc \in {"next", "answer"} =>
         /\ ann[c].event \in sunk
         /\ \A h \in ann[c].todo :
              h \in DOMAIN hooks /\ Wants(h, ann[c].event) /\ received[<<ann[c].event, h>>] = 0
    /\ ann[c].pc = "answer" =>
         /\ ann[c].todo # {}
         /\ delivery[<<ann[c].event, Turn(c)>>] = [status |-> "pending", attempts |-> 0]

NothingBefore ==
  \A e \in EventIds, h \in HookIds : e > Len(stored) => received[<<e, h>>] = 0

\* What was sent was sent to an endpoint that is there.
SentToHooks ==
  \A e \in EventIds, h \in HookIds : received[<<e, h>>] > 0 => h \in DOMAIN hooks

HooksInv ==
  HookTypes /\ OneAnnouncer /\ Unsent /\ NothingBefore /\ SentToHooks /\ AnnouncedWasAudited

\* An execution is at a step its tool has.
StepsExist ==
  \A c \in Calls : call[c] # Idle => call[c].step \in 1 .. Len(Script[call[c].seen.tool])

LEMMA ScriptRecords ==
  \A tool \in Tools : \A n \in 1 .. Len(Script[tool]) : Script[tool][n] \in AuditActions
<1>1. AuditActions = {"identity.suspended", "session.revoked", "group.member.added"}
  BY DEF AuditActions, AUDIT_TO_WEBHOOK
<1> QED
  BY <1>1 DEF Tools, Script

LEMMA MinIsIn ==
  ASSUME NEW S, S \subseteq Nat, S # {}
  PROVE  Min(S) \in S
<1>1. PICK n \in S : \A m \in S : <<m, n>> \notin OpToRel(<, Nat)
  BY NatLessThanWellFounded, WFMin
<1>2. \A m \in S : m \in Nat /\ n \in Nat /\ ~(m < n)
  BY <1>1 DEF OpToRel
<1>3. \A m \in S : n <= m
  BY <1>2
<1> QED
  BY <1>3 DEF Min

LEMMA AppendKeeps ==
  ASSUME NEW S, NEW s \in Seq(S), NEW x \in S
  PROVE  /\ Append(s, x) \in Seq(S) /\ Len(Append(s, x)) = Len(s) + 1
         /\ DOMAIN s \subseteq DOMAIN Append(s, x)
         /\ \A i \in DOMAIN s : Append(s, x)[i] = s[i]
OBVIOUS

\* A bounded sequence is one of the sequences TypeOK names.
LEMMA Bounded ==
  ASSUME NEW S, NEW n \in Nat, NEW s
  PROVE  s \in BoundedSeq(S, n) <=> s \in Seq(S) /\ Len(s) <= n
<1>1. ASSUME s \in Seq(S), Len(s) <= n
      PROVE  s \in BoundedSeq(S, n)
  <2>1. s \in [1 .. Len(s) -> S] /\ Len(s) \in 0 .. n
    BY <1>1
  <2> QED
    BY <2>1 DEF BoundedSeq, SeqOf
<1>2. ASSUME s \in BoundedSeq(S, n)
      PROVE  s \in Seq(S) /\ Len(s) <= n
  <2>1. PICK m \in 0 .. n : s \in [1 .. m -> S]
    BY <1>2 DEF BoundedSeq, SeqOf
  <2>2. s \in Seq(S) /\ Len(s) = m
    BY <2>1
  <2> QED
    BY <2>1, <2>2
<1> QED
  BY <1>1, <1>2

LEMMA HooksStart == Init => HooksInv
<1> SUFFICES ASSUME Init PROVE HooksInv
  OBVIOUS
<1> USE DEF Init, HooksInit
<1>1. HookTypes
  <2>1. /\ << >> \in Seq(AuditActions) /\ Len(<< >>) = 0
        /\ hooks \in Seq(Endpoint) /\ Len(hooks) <= MaxHooks
    BY Bounded
  <2>2. 0 <= MaxHooks /\ 0 <= MaxEvents
    OBVIOUS
  <2> QED
    BY <2>1, <2>2 DEF HookTypes
<1>2. \A c \in Calls : ann[c].pc = "quiet"
  BY DEF Quiet
<1>3. \A e \in EventIds, h \in HookIds : received[<<e, h>>] = 0 /\ delivery[<<e, h>>] = None
  OBVIOUS
<1>4. OneAnnouncer /\ Unsent
  BY <1>2 DEF OneAnnouncer, Unsent
<1> QED
  BY <1>1, <1>3, <1>4 DEF HooksInv, NothingBefore, SentToHooks, AnnouncedWasAudited

\* A handler that announces.
LEMMA Announcer ==
  ASSUME HookTypes, OneAnnouncer, NEW c \in Calls, ann[c].pc # "quiet"
  PROVE  /\ ann[c] \in Announcement /\ ann[c].event \in EventIds
         /\ ann[c].todo \subseteq HookIds
<1>1. ann[c] \in Announcement
  BY DEF HookTypes, Quiet
<1> QED
  BY <1>1 DEF Announcement

LEMMA HooksQuiet ==
  ASSUME HooksInv, NEW c \in Calls, ann' = [ann EXCEPT ![c] = Quiet],
         UNCHANGED <<hooks, stored, sunk, delivery, received>>
  PROVE  HooksInv'
<1>1. \A d \in Calls : ann'[d] = IF d = c THEN Quiet ELSE ann[d]
  BY DEF HooksInv, HookTypes
<1>2. Quiet.pc = "quiet"
  BY DEF Quiet
<1>3. HookTypes'
  BY DEF HooksInv, HookTypes
<1>4. OneAnnouncer'
  BY <1>1, <1>2 DEF HooksInv, OneAnnouncer
<1>5. Unsent'
  BY <1>1, <1>2 DEF HooksInv, Unsent, Wants, Turn
<1>6. NothingBefore' /\ SentToHooks' /\ AnnouncedWasAudited'
  BY DEF HooksInv, NothingBefore, SentToHooks, AnnouncedWasAudited, Wants
<1> QED
  BY <1>3, <1>4, <1>5, <1>6 DEF HooksInv

LEMMA HooksCreate ==
  ASSUME HooksInv, NEW names \in Subscriptions, CreateWebhook(names)
  PROVE  HooksInv'
<1>1. UNCHANGED <<stored, sunk, delivery, received, ann>>
  BY DEF CreateWebhook
<1>2. [names |-> names, opens |-> TRUE] \in Endpoint /\ hooks \in Seq(Endpoint)
  BY DEF HooksInv, HookTypes, Endpoint
<1>3. /\ hooks' \in Seq(Endpoint) /\ Len(hooks') = Len(hooks) + 1
      /\ DOMAIN hooks \subseteq DOMAIN hooks'
      /\ \A h \in DOMAIN hooks : hooks'[h] = hooks[h]
  BY <1>2, AppendKeeps DEF CreateWebhook
<1>4. Len(hooks') <= MaxHooks
  BY <1>2, <1>3 DEF CreateWebhook
<1>5. \A h \in DOMAIN hooks : \A e : Wants(h, e)' <=> Wants(h, e)
  BY <1>1, <1>3 DEF Wants
<1>6. HookTypes'
  BY <1>1, <1>3, <1>4 DEF HooksInv, HookTypes
<1>7. OneAnnouncer' /\ NothingBefore'
  BY <1>1 DEF HooksInv, OneAnnouncer, NothingBefore
<1>8. Unsent'
  BY <1>1, <1>3, <1>5 DEF HooksInv, Unsent, Turn
<1>9. SentToHooks'
  BY <1>1, <1>3 DEF HooksInv, SentToHooks
<1>10. AnnouncedWasAudited'
  BY <1>1, <1>5 DEF HooksInv, SentToHooks, AnnouncedWasAudited
<1> QED
  BY <1>6, <1>7, <1>8, <1>9, <1>10 DEF HooksInv

LEMMA HooksAnnounce ==
  ASSUME HooksInv, NEW c \in Calls, NEW a \in AuditActions, Room, Announce(c, a)
  PROVE  HooksInv'
<1> DEFINE event == Len(stored) + 1
           new   == [pc |-> "sink", event |-> event, todo |-> {}]
<1>1. /\ UNCHANGED <<hooks, sunk, delivery, received>>
      /\ ann' = [ann EXCEPT ![c] = new]
  BY DEF Announce
<1>2. stored \in Seq(AuditActions) /\ Len(stored) \in Nat
  BY DEF HooksInv, HookTypes
<1>3. /\ stored' \in Seq(AuditActions) /\ Len(stored') = event
      /\ \A e \in DOMAIN stored : stored'[e] = stored[e]
  BY <1>2, AppendKeeps DEF Announce
<1>4. event \in EventIds /\ event \in 1 .. Len(stored') /\ event <= MaxEvents
  BY <1>2, <1>3 DEF Room, EventIds
<1>5. 1 .. Len(stored) \subseteq 1 .. Len(stored') /\ event \notin 1 .. Len(stored)
  BY <1>2, <1>3
<1>6. new \in Announcement
  BY <1>4 DEF Announcement
<1>7. /\ \A d \in Calls : ann'[d] = IF d = c THEN new ELSE ann[d]
      /\ ann' \in [Calls -> Announcement \union {Quiet}]
  BY <1>1, <1>6 DEF HooksInv, HookTypes
<1>8. new.pc = "sink" /\ new.event = event
  OBVIOUS
<1>9. \A h, e : e \in 1 .. Len(stored) => (Wants(h, e)' <=> Wants(h, e))
  BY <1>1, <1>2, <1>3 DEF Wants
<1>10. \A h \in HookIds : received[<<event, h>>] = 0
  BY <1>2, <1>4 DEF HooksInv, NothingBefore
<1> HIDE DEF new
<1>11. HookTypes'
  BY <1>1, <1>3, <1>4, <1>7 DEF HooksInv, HookTypes
<1> HIDE DEF event
<1>12. OneAnnouncer'
  BY <1>4, <1>5, <1>7, <1>8 DEF HooksInv, OneAnnouncer
<1>13. Unsent'
  <2> SUFFICES ASSUME NEW d \in Calls
      PROVE  (/\ ann[d].pc = "sink" => \A h \in HookIds : received[<<ann[d].event, h>>] = 0
              /\ ann[d].pc \in {"next", "answer"} =>
                   /\ ann[d].event \in sunk
                   /\ \A h \in ann[d].todo :
                        h \in DOMAIN hooks /\ Wants(h, ann[d].event)
                        /\ received[<<ann[d].event, h>>] = 0
              /\ ann[d].pc = "answer" =>
                   /\ ann[d].todo # {}
                   /\ delivery[<<ann[d].event, Turn(d)>>] = [status |-> "pending", attempts |-> 0])'
    BY DEF Unsent
  <2>1. CASE d = c
    BY <2>1, <1>1, <1>7, <1>8, <1>10
  <2>2. CASE d # c
    <3>1. ann'[d] = ann[d]
      BY <2>2, <1>7
    <3>2. ann[d].pc # "quiet" => ann[d].event \in 1 .. Len(stored)
      BY DEF HooksInv, OneAnnouncer
    <3>3. \A h : ann[d].pc # "quiet" => (Wants(h, ann[d].event)' <=> Wants(h, ann[d].event))
      BY <3>1, <3>2, <1>1, <1>2, <1>3 DEF Wants
    <3> QED
      BY <3>1, <3>3, <1>1 DEF HooksInv, Unsent, Turn
  <2> QED
    BY <2>1, <2>2
<1>14. NothingBefore' /\ SentToHooks'
  BY <1>1, <1>2, <1>3 DEF HooksInv, NothingBefore, SentToHooks, event, EventIds
<1>15. AnnouncedWasAudited'
  <2>1. \A e \in EventIds : e <= Len(stored) => e \in 1 .. Len(stored) /\ e <= Len(stored')
    BY <1>2, <1>3 DEF EventIds, event
  <2> QED
    BY <2>1, <1>1, <1>9 DEF HooksInv, AnnouncedWasAudited
<1> QED
  BY <1>11, <1>12, <1>13, <1>14, <1>15 DEF HooksInv

LEMMA HooksSink ==
  ASSUME HooksInv, NEW c \in Calls, Sink(c)
  PROVE  HooksInv'
<1> DEFINE x == ann[c]
<1>1. x.pc = "sink" /\ UNCHANGED <<hooks, stored, delivery, received>>
  BY DEF Sink
<1>2. x \in Announcement /\ x.event \in EventIds
  BY <1>1, Announcer DEF HooksInv
<1>3. PICK y : /\ ann' = [ann EXCEPT ![c] = y]
               /\ y \in Announcement /\ y.event = x.event
               /\ \/ /\ y.pc = "next" /\ y.todo = Listening(x.event)
                     /\ sunk' = sunk \union {x.event}
                  \/ y.pc = "thrown" /\ sunk' = sunk
  <2>1. CASE /\ sunk' = sunk \union {x.event}
             /\ ann' = [ann EXCEPT ![c].pc = "next", ![c].todo = Listening(x.event)]
    <3> DEFINE y == [x EXCEPT !.pc = "next", !.todo = Listening(x.event)]
    <3>1. Listening(x.event) \subseteq HookIds
      <4>1. hooks \in Seq(Endpoint) /\ Len(hooks) <= MaxHooks
        BY DEF HooksInv, HookTypes
      <4> QED
        BY <4>1 DEF Listening, HookIds
    <3>2. /\ y \in Announcement /\ y.event = x.event /\ y.pc = "next"
          /\ y.todo = Listening(x.event)
      BY <1>2, <3>1 DEF Announcement
    <3>3. ann' = [ann EXCEPT ![c] = y]
      BY <2>1
    <3> QED
      BY <2>1, <3>2, <3>3
  <2>2. CASE sunk' = sunk /\ Became(c, "thrown")
    <3> DEFINE y == [x EXCEPT !.pc = "thrown"]
    <3>1. y \in Announcement /\ y.event = x.event /\ y.pc = "thrown"
      BY <1>2 DEF Announcement
    <3>2. ann' = [ann EXCEPT ![c] = y]
      BY <2>2 DEF Became
    <3> QED
      BY <2>2, <3>1, <3>2
  <2> QED
    BY <2>1, <2>2 DEF Sink
<1>4. /\ \A d \in Calls : ann'[d] = IF d = c THEN y ELSE ann[d]
      /\ ann' \in [Calls -> Announcement \union {Quiet}]
  BY <1>3 DEF HooksInv, HookTypes
<1>5. sunk \subseteq sunk' /\ sunk' \subseteq EventIds
  BY <1>2, <1>3 DEF HooksInv, HookTypes
<1>6. \A h \in y.todo : y.pc = "next" => h \in DOMAIN hooks /\ h \in HookIds /\ Wants(h, x.event)
  BY <1>3 DEF Listening, Announcement
<1>7. \A h \in HookIds : received[<<x.event, h>>] = 0
  BY <1>1 DEF HooksInv, Unsent
<1>8. \A h, e : Wants(h, e)' <=> Wants(h, e)
  BY <1>1 DEF Wants
<1>9. HookTypes'
  BY <1>1, <1>4, <1>5 DEF HooksInv, HookTypes
<1>10. OneAnnouncer'
  BY <1>1, <1>3, <1>4 DEF HooksInv, OneAnnouncer
<1>11. Unsent'
  <2> SUFFICES ASSUME NEW d \in Calls
      PROVE  (/\ ann[d].pc = "sink" => \A h \in HookIds : received[<<ann[d].event, h>>] = 0
              /\ ann[d].pc \in {"next", "answer"} =>
                   /\ ann[d].event \in sunk
                   /\ \A h \in ann[d].todo :
                        h \in DOMAIN hooks /\ Wants(h, ann[d].event)
                        /\ received[<<ann[d].event, h>>] = 0
              /\ ann[d].pc = "answer" =>
                   /\ ann[d].todo # {}
                   /\ delivery[<<ann[d].event, Turn(d)>>] = [status |-> "pending", attempts |-> 0])'
    BY DEF Unsent
  <2>1. CASE d = c
    <3>1. ann'[d] = y
      BY <2>1, <1>4
    <3>2. x.event \in sunk' \/ y.pc = "thrown"
      BY <1>3
    <3>3. y.pc \in {"next", "thrown"}
      BY <1>3
    <3>4. y.pc = "next" => \A h \in y.todo : /\ h \in DOMAIN hooks' /\ Wants(h, y.event)'
                                             /\ received'[<<y.event, h>>] = 0
      BY <1>1, <1>3, <1>6, <1>7 DEF Wants
    <3> QED
      BY <3>1, <3>2, <3>3, <3>4, <1>3 DEF Wants
  <2>2. CASE d # c
    <3>1. ann'[d] = ann[d]
      BY <2>2, <1>4
    <3>2. \A h : Wants(h, ann[d].event)' <=> Wants(h, ann[d].event)
      BY <3>1, <1>1 DEF Wants
    <3> QED
      BY <3>1, <3>2, <1>1, <1>5 DEF HooksInv, Unsent, Turn
  <2> QED
    BY <2>1, <2>2
<1>12. NothingBefore' /\ SentToHooks'
  BY <1>1 DEF HooksInv, NothingBefore, SentToHooks
<1>13. AnnouncedWasAudited'
  BY <1>1, <1>5, <1>8 DEF HooksInv, AnnouncedWasAudited
<1> QED
  BY <1>9, <1>10, <1>11, <1>12, <1>13 DEF HooksInv

LEMMA HooksPost ==
  ASSUME HooksInv, NEW c \in Calls, Post(c)
  PROVE  HooksInv'
<1> DEFINE x == ann[c]
           h == Turn(c)
           fresh == [status |-> "pending", attempts |-> 0]
<1>1. /\ x.pc = "next" /\ x.todo # {} /\ UNCHANGED <<hooks, stored, sunk, received>>
      /\ delivery' = [delivery EXCEPT ![<<x.event, h>>] = fresh]
  BY DEF Post
<1>2. x \in Announcement /\ x.event \in EventIds /\ x.todo \subseteq HookIds
  BY <1>1, Announcer DEF HooksInv
<1>3. h \in x.todo /\ h \in HookIds
  BY <1>1, <1>2, MinIsIn DEF Turn, HookIds
<1>4. PICK y \in Announcement :
        /\ ann' = [ann EXCEPT ![c] = y] /\ y.event = x.event
        /\ \/ y.pc = "answer" /\ y.todo = x.todo
           \/ y.pc = "next" /\ y.todo = {}
  <2>1. CASE hooks[h].opens
    <3> DEFINE y == [x EXCEPT !.pc = "answer"]
    <3>1. y \in Announcement /\ y.event = x.event /\ y.pc = "answer" /\ y.todo = x.todo
      BY <1>2 DEF Announcement
    <3>2. ann' = [ann EXCEPT ![c] = y]
      BY <2>1 DEF Post, Became
    <3> QED
      BY <3>1, <3>2
  <2>2. CASE ~hooks[h].opens
    <3> DEFINE y == [x EXCEPT !.todo = {}]
    <3>1. y \in Announcement /\ y.event = x.event /\ y.pc = "next" /\ y.todo = {}
      BY <1>1, <1>2 DEF Announcement
    <3>2. ann' = [ann EXCEPT ![c] = y]
      BY <2>2 DEF Post
    <3> QED
      BY <3>1, <3>2
  <2> QED
    BY <2>1, <2>2
<1>5. fresh \in Delivery /\ fresh.status = "pending"
  BY DEF Delivery
<1>6. /\ \A d \in Calls : ann'[d] = IF d = c THEN y ELSE ann[d]
      /\ ann' \in [Calls -> Announcement \union {Quiet}]
  BY <1>4 DEF HooksInv, HookTypes
<1>7. /\ \A e \in EventIds, i \in HookIds :
           delivery'[<<e, i>>] = IF e = x.event /\ i = h THEN fresh ELSE delivery[<<e, i>>]
      /\ delivery' \in [EventIds \X HookIds -> Delivery \union {None}]
  BY <1>1, <1>2, <1>3, <1>5 DEF HooksInv, HookTypes
<1>8. \A i, e : Wants(i, e)' <=> Wants(i, e)
  BY <1>1 DEF Wants
<1>9. y.pc = "answer" => Turn(c)' = h
  BY <1>4, <1>6 DEF Turn
<1>10. HookTypes'
  BY <1>1, <1>6, <1>7 DEF HooksInv, HookTypes
<1>11. OneAnnouncer'
  BY <1>1, <1>4, <1>6 DEF HooksInv, OneAnnouncer
<1>12. Unsent'
  <2> SUFFICES ASSUME NEW d \in Calls
      PROVE  (/\ ann[d].pc = "sink" => \A i \in HookIds : received[<<ann[d].event, i>>] = 0
              /\ ann[d].pc \in {"next", "answer"} =>
                   /\ ann[d].event \in sunk
                   /\ \A i \in ann[d].todo :
                        i \in DOMAIN hooks /\ Wants(i, ann[d].event)
                        /\ received[<<ann[d].event, i>>] = 0
              /\ ann[d].pc = "answer" =>
                   /\ ann[d].todo # {}
                   /\ delivery[<<ann[d].event, Turn(d)>>] = [status |-> "pending", attempts |-> 0])'
    BY DEF Unsent
  <2>1. CASE d = c
    <3>1. ann'[d] = y /\ (y.pc = "answer" => Turn(d)' = h)
      BY <2>1, <1>6, <1>9
    <3>2. delivery'[<<x.event, h>>] = fresh
      BY <1>2, <1>3, <1>7
    <3>3. /\ x.event \in sunk
          /\ \A i \in x.todo : /\ i \in DOMAIN hooks /\ Wants(i, x.event)
                               /\ received[<<x.event, i>>] = 0
      BY <1>1 DEF HooksInv, Unsent
    <3> HIDE DEF h
    <3> QED
      BY <3>1, <3>2, <3>3, <1>1, <1>4 DEF Wants
  <2>2. CASE d # c
    <3>1. ann'[d] = ann[d]
      BY <2>2, <1>6
    <3>2. \A i : Wants(i, ann[d].event)' <=> Wants(i, ann[d].event)
      BY <3>1, <1>1 DEF Wants
    <3>3. Turn(d)' = Turn(d)
      BY <3>1 DEF Turn
    <3>4. ann[d].pc = "answer" =>
            delivery'[<<ann[d].event, Turn(d)>>] = delivery[<<ann[d].event, Turn(d)>>]
      <4> SUFFICES ASSUME ann[d].pc = "answer"
          PROVE  delivery'[<<ann[d].event, Turn(d)>>] = delivery[<<ann[d].event, Turn(d)>>]
        OBVIOUS
      <4>1. ann[d].event \in EventIds /\ ann[d].todo \subseteq HookIds /\ ann[d].todo # {}
        BY Announcer DEF HooksInv, Unsent
      <4>2. Turn(d) \in HookIds
        BY <4>1, MinIsIn DEF Turn, HookIds
      <4>3. ann[d].event # x.event
        BY <2>2, <1>1 DEF HooksInv, OneAnnouncer
      <4> HIDE DEF h
      <4> QED
        BY <4>1, <4>2, <4>3, <1>7
    <3> QED
      BY <3>1, <3>2, <3>3, <3>4, <1>1 DEF HooksInv, Unsent
  <2> QED
    BY <2>1, <2>2
<1>13. NothingBefore' /\ SentToHooks'
  BY <1>1 DEF HooksInv, NothingBefore, SentToHooks
<1>14. AnnouncedWasAudited'
  <2>1. ASSUME NEW e \in EventIds, NEW i \in HookIds,
               delivery'[<<e, i>>] # None, delivery'[<<e, i>>].status = "delivered"
        PROVE  received[<<e, i>>] = 1
    <3>1. delivery'[<<e, i>>] = fresh \/ delivery'[<<e, i>>] = delivery[<<e, i>>]
      BY <1>7
    <3>2. delivery'[<<e, i>>] # fresh
      BY <2>1, <1>5
    <3> QED
      BY <2>1, <3>1, <3>2 DEF HooksInv, AnnouncedWasAudited
  <2>2. \A e \in EventIds, i \in HookIds :
          /\ received[<<e, i>>] > 0 => e \in sunk /\ e <= Len(stored) /\ Wants(i, e)'
          /\ received[<<e, i>>] <= 1
    BY <1>8 DEF HooksInv, AnnouncedWasAudited
  <2> HIDE DEF h, fresh
  <2> QED
    BY <1>1, <2>1, <2>2 DEF AnnouncedWasAudited
<1> QED
  BY <1>10, <1>11, <1>12, <1>13, <1>14 DEF HooksInv

LEMMA HooksAnswer ==
  ASSUME HooksInv, NEW c \in Calls, Answer(c)
  PROVE  HooksInv'
<1> DEFINE x == ann[c]
           h == Turn(c)
           y == [x EXCEPT !.pc = "next", !.todo = x.todo \ {h}]
<1>1. PICK reached \in BOOLEAN, ok \in BOOLEAN :
        /\ ok => reached
        /\ received' = [received EXCEPT ![<<x.event, h>>] = IF reached THEN @ + 1 ELSE @]
        /\ delivery' = [delivery EXCEPT ![<<x.event, h>>] = AfterAttempt(@, ok)]
  BY DEF Answer
<1>2. /\ x.pc = "answer" /\ UNCHANGED <<hooks, stored, sunk>>
      /\ ann' = [ann EXCEPT ![c] = y]
  BY DEF Answer
<1>3. x \in Announcement /\ x.event \in EventIds /\ x.todo \subseteq HookIds /\ x.todo # {}
  BY <1>2, Announcer DEF HooksInv, Unsent
<1>4. h \in x.todo /\ h \in HookIds
  BY <1>3, MinIsIn DEF Turn, HookIds
<1>5. y \in Announcement /\ y.event = x.event /\ y.pc = "next" /\ y.todo = x.todo \ {h}
  BY <1>3 DEF Announcement
<1>6. /\ \A d \in Calls : ann'[d] = IF d = c THEN y ELSE ann[d]
      /\ ann' \in [Calls -> Announcement \union {Quiet}]
  BY <1>2, <1>5 DEF HooksInv, HookTypes
\* The endpoint was sent nothing of this event before.
<1>7. /\ x.event \in sunk /\ h \in DOMAIN hooks /\ Wants(h, x.event)
      /\ received[<<x.event, h>>] = 0
      /\ delivery[<<x.event, h>>] = [status |-> "pending", attempts |-> 0]
      /\ x.event <= Len(stored)
  <2>1. x.event \in 1 .. Len(stored)
    BY <1>2 DEF HooksInv, OneAnnouncer
  <2>2. Len(stored) \in Nat
    BY DEF HooksInv, HookTypes
  <2> QED
    BY <2>1, <2>2, <1>2, <1>4 DEF HooksInv, Unsent
<1> DEFINE old == [status |-> "pending", attempts |-> 0]
           after == AfterAttempt(old, ok)
<1>8. after \in Delivery /\ (after.status = "delivered" => ok)
  <2>1. after = [attempts |-> 1, status |-> IF ok THEN "delivered" ELSE "pending"]
    BY DEF AfterAttempt
  <2> QED
    BY <2>1 DEF Delivery
<1>9. /\ \A e \in EventIds, i \in HookIds :
           /\ delivery'[<<e, i>>] = IF e = x.event /\ i = h THEN after ELSE delivery[<<e, i>>]
           /\ received'[<<e, i>>] = IF e = x.event /\ i = h
                                      THEN IF reached THEN 1 ELSE 0 ELSE received[<<e, i>>]
      /\ delivery' \in [EventIds \X HookIds -> Delivery \union {None}]
      /\ received' \in [EventIds \X HookIds -> 0 .. 1]
  BY <1>1, <1>3, <1>4, <1>7, <1>8 DEF HooksInv, HookTypes
<1>10. \A i, e : Wants(i, e)' <=> Wants(i, e)
  BY <1>2 DEF Wants
<1> HIDE DEF y, old, after
<1>11. HookTypes'
  BY <1>2, <1>6, <1>9 DEF HooksInv, HookTypes
<1>12. OneAnnouncer'
  BY <1>2, <1>5, <1>6 DEF HooksInv, OneAnnouncer
<1>13. Unsent'
  <2> SUFFICES ASSUME NEW d \in Calls
      PROVE  (/\ ann[d].pc = "sink" => \A i \in HookIds : received[<<ann[d].event, i>>] = 0
              /\ ann[d].pc \in {"next", "answer"} =>
                   /\ ann[d].event \in sunk
                   /\ \A i \in ann[d].todo :
                        i \in DOMAIN hooks /\ Wants(i, ann[d].event)
                        /\ received[<<ann[d].event, i>>] = 0
              /\ ann[d].pc = "answer" =>
                   /\ ann[d].todo # {}
                   /\ delivery[<<ann[d].event, Turn(d)>>] = [status |-> "pending", attempts |-> 0])'
    BY DEF Unsent
  <2>1. CASE d = c
    <3>1. ann'[d] = y
      BY <2>1, <1>6
    <3>2. /\ x.event \in sunk
          /\ \A i \in x.todo : /\ i \in DOMAIN hooks /\ Wants(i, x.event)
                               /\ received[<<x.event, i>>] = 0
      BY <1>2 DEF HooksInv, Unsent
    <3>3. \A i \in x.todo \ {h} : received'[<<x.event, i>>] = 0
      BY <3>2, <1>3, <1>9
    <3> HIDE DEF h
    <3> QED
      BY <3>1, <3>2, <3>3, <1>2, <1>5 DEF Wants
  <2>2. CASE d # c
    <3>1. ann'[d] = ann[d]
      BY <2>2, <1>6
    <3>2. \A i : Wants(i, ann[d].event)' <=> Wants(i, ann[d].event)
      BY <3>1, <1>2 DEF Wants
    <3>3. Turn(d)' = Turn(d)
      BY <3>1 DEF Turn
    <3>4. ann[d].pc # "quiet" =>
            \A i \in HookIds : /\ delivery'[<<ann[d].event, i>>] = delivery[<<ann[d].event, i>>]
                               /\ received'[<<ann[d].event, i>>] = received[<<ann[d].event, i>>]
      <4> SUFFICES ASSUME ann[d].pc # "quiet", NEW i \in HookIds
          PROVE  /\ delivery'[<<ann[d].event, i>>] = delivery[<<ann[d].event, i>>]
                 /\ received'[<<ann[d].event, i>>] = received[<<ann[d].event, i>>]
        OBVIOUS
      <4>1. ann[d].event \in EventIds
        BY Announcer DEF HooksInv
      <4>2. ann[d].event # x.event
        BY <2>2, <1>2 DEF HooksInv, OneAnnouncer
      <4> QED
        BY <4>1, <4>2, <1>9
    <3>5. ann[d].pc # "quiet" => ann[d].todo \subseteq HookIds
      BY Announcer DEF HooksInv
    <3>6. ann[d].pc = "answer" => Turn(d) \in HookIds
      <4> SUFFICES ASSUME ann[d].pc = "answer" PROVE Turn(d) \in HookIds
        OBVIOUS
      <4>1. ann[d].todo \subseteq HookIds /\ ann[d].todo # {}
        BY <3>5 DEF HooksInv, Unsent
      <4> QED
        BY <4>1, MinIsIn DEF Turn, HookIds
    <3>7. ann'[d].pc = "sink" => \A i \in HookIds : received'[<<ann'[d].event, i>>] = 0
      BY <3>1, <3>4 DEF HooksInv, Unsent
    <3>8. ann'[d].pc \in {"next", "answer"} =>
            /\ ann'[d].event \in sunk'
            /\ \A i \in ann'[d].todo : /\ i \in DOMAIN hooks' /\ Wants(i, ann[d].event)'
                                       /\ received'[<<ann'[d].event, i>>] = 0
      <4> SUFFICES ASSUME ann[d].pc \in {"next", "answer"}
          PROVE  /\ ann[d].event \in sunk'
                 /\ \A i \in ann[d].todo : /\ i \in DOMAIN hooks' /\ Wants(i, ann[d].event)'
                                           /\ received'[<<ann[d].event, i>>] = 0
        BY <3>1
      <4>1. /\ ann[d].event \in sunk
            /\ \A i \in ann[d].todo : /\ i \in DOMAIN hooks /\ Wants(i, ann[d].event)
                                      /\ received[<<ann[d].event, i>>] = 0
        BY DEF HooksInv, Unsent
      <4>2. \A i \in ann[d].todo : i \in HookIds
        BY <3>5
      <4>3. \A i \in ann[d].todo : received'[<<ann[d].event, i>>] = 0
        BY <3>4, <4>1, <4>2
      <4> QED
        BY <4>1, <4>3, <3>2, <1>2
    <3>9. ann'[d].pc = "answer" =>
            /\ ann'[d].todo # {}
            /\ delivery'[<<ann'[d].event, Turn(d)'>>] = [status |-> "pending", attempts |-> 0]
      BY <3>1, <3>3, <3>4, <3>6 DEF HooksInv, Unsent
    <3> QED
      BY <3>7, <3>8, <3>9
  <2> QED
    BY <2>1, <2>2
<1>14. NothingBefore'
  BY <1>2, <1>7, <1>9 DEF HooksInv, NothingBefore, HookTypes, EventIds
<1>15. SentToHooks'
  BY <1>2, <1>7, <1>9 DEF HooksInv, SentToHooks
<1>16. AnnouncedWasAudited'
  <2> SUFFICES ASSUME NEW e \in EventIds, NEW i \in HookIds
      PROVE  /\ received'[<<e, i>>] > 0 => e \in sunk /\ e <= Len(stored) /\ Wants(i, e)'
             /\ received'[<<e, i>>] <= 1
             /\ delivery'[<<e, i>>] # None /\ delivery'[<<e, i>>].status = "delivered"
                  => received'[<<e, i>>] = 1
    BY <1>2 DEF AnnouncedWasAudited
  <2>1. CASE e = x.event /\ i = h
    <3>1. received'[<<e, i>>] = IF reached THEN 1 ELSE 0
      BY <2>1, <1>9
    <3>2. delivery'[<<e, i>>] = after
      BY <2>1, <1>9
    <3>3. delivery'[<<e, i>>].status = "delivered" => reached
      BY <3>2, <1>8, <1>1
    <3>4. e \in sunk /\ e <= Len(stored) /\ Wants(i, e)'
      BY <2>1, <1>7, <1>10
    <3> QED
      BY <3>1, <3>3, <3>4
  <2>2. CASE ~(e = x.event /\ i = h)
    <3>1. /\ received'[<<e, i>>] = received[<<e, i>>]
          /\ delivery'[<<e, i>>] = delivery[<<e, i>>]
      BY <2>2, <1>9
    <3> QED
      BY <3>1, <1>10 DEF HooksInv, AnnouncedWasAudited
  <2> QED
    BY <2>1, <2>2
<1> QED
  BY <1>11, <1>12, <1>13, <1>14, <1>15, <1>16 DEF HooksInv

LEMMA HooksSame == HooksInv /\ UNCHANGED hookVars => HooksInv'
BY DEF hookVars, HooksInv, HookTypes, OneAnnouncer, Unsent, NothingBefore, SentToHooks,
       AnnouncedWasAudited, Wants, Turn

LEMMA StepsStart == Init => StepsExist
BY DEF Init, StepsExist

LEMMA StepsStep == IInv /\ StepsExist /\ [Next]_vars => StepsExist'
<1> SUFFICES ASSUME IInv, StepsExist, [Next]_vars PROVE StepsExist'
  OBVIOUS
<1>1. CASE UNCHANGED call
  BY <1>1 DEF StepsExist
<1>2. ASSUME NEW c \in Calls, NEW a \in Actions, NEW p \in People, ExecuteAgentAction(c, a, p)
      PROVE  StepsExist'
  <2> DEFINE x == [pc |-> "tool", id |-> a, seen |-> action[a], step |-> 1]
  <2>1. call' = [call EXCEPT ![c] = x] /\ x.step = 1 /\ x.seen = action[a]
    BY <1>2 DEF ExecuteAgentAction
  <2>2. action[a].tool \in Tools
    BY <1>2 DEF ExecuteAgentAction, IInv, AgentTypes, AgentAction
  <2>3. 1 \in 1 .. Len(Script[action[a].tool])
    <3>1. Len(Script[action[a].tool]) \in 1 .. 2
      BY <2>2, ScriptLengths
    <3>2. \A l \in 1 .. 2 : 1 \in 1 .. l
      OBVIOUS
    <3> QED
      BY <3>1, <3>2, Zenon
  <2> HIDE DEF x
  <2> QED
    BY <2>1, <2>3 DEF StepsExist, IInv, AgentTypes
<1>3. ASSUME NEW c \in Calls, RunStep(c)
      PROVE  StepsExist'
  <2>1. call[c] \in Execution /\ call[c] # Idle
    BY <1>3, UnderWay DEF RunStep, IInv
  <2> DEFINE y == [call[c] EXCEPT !.pc = "record"]
  <2>2. call' = [call EXCEPT ![c] = y] /\ y.step = call[c].step /\ y.seen = call[c].seen
    BY <1>3, <2>1 DEF RunStep, Execution
  <2> HIDE DEF y
  <2> QED
    BY <2>1, <2>2 DEF StepsExist, IInv, AgentTypes
<1>4. ASSUME NEW c \in Calls, NextStep(c)
      PROVE  StepsExist'
  <2>1. /\ call[c] \in Execution /\ call[c] # Idle /\ call[c].seen.tool \in Tools
        /\ call[c].step < Len(Script[call[c].seen.tool])
    BY <1>4, UnderWay DEF NextStep, IInv
  <2> DEFINE y == [call[c] EXCEPT !.pc = "tool", !.step = @ + 1]
             tool == call[c].seen.tool
  <2>2. y.step = call[c].step + 1 /\ y.seen = call[c].seen
    BY <2>1 DEF Execution
  <2>3. call' = [call EXCEPT ![c] = y]
    BY <1>4 DEF NextStep
  <2>4. call[c].step \in 1 .. 2
    BY <2>1 DEF Execution
  <2>5. Len(Script[tool]) \in 1 .. 2
    BY <2>1, ScriptLengths
  <2>6. \A n, l \in 1 .. 2 : n < l => n + 1 \in 1 .. l
    OBVIOUS
  <2>7. call[c].step + 1 \in 1 .. Len(Script[tool])
    BY <2>1, <2>4, <2>5, <2>6, Zenon
  <2> HIDE DEF y
  <2> QED
    BY <2>2, <2>3, <2>7 DEF StepsExist, IInv, AgentTypes
<1>5. ASSUME NEW c \in Calls, MarkExecuted(c) \/ Fail(c)
      PROVE  StepsExist'
  <2>1. call' = [call EXCEPT ![c] = Idle]
    BY <1>5 DEF MarkExecuted, Fail
  <2> QED
    BY <2>1 DEF StepsExist, IInv, AgentTypes
<1> QED
  BY <1>1, <1>2, <1>3, <1>4, <1>5
     DEF Next, vars, agentVars, Continue, CreateAgentAction, DecideAgentAction

LEMMA HooksStep == IInv /\ StepsExist /\ HooksInv /\ [Next]_vars => HooksInv'
<1> SUFFICES ASSUME IInv, StepsExist, HooksInv, [Next]_vars PROVE HooksInv'
  OBVIOUS
<1>1. CASE UNCHANGED hookVars
  BY <1>1, HooksSame
<1>2. ASSUME NEW c \in Calls, RunStep(c)
      PROVE  HooksInv'
  <2>1. call[c] # Idle /\ call[c].seen.tool \in Tools
    BY <1>2, UnderWay DEF RunStep, IInv
  <2>2. Script[call[c].seen.tool][call[c].step] \in AuditActions
    BY <2>1, ScriptRecords DEF StepsExist
  <2> QED
    BY <1>2, <2>2, HooksAnnounce DEF RunStep
<1>3. ASSUME NEW c \in Calls, NextStep(c) \/ MarkExecuted(c) \/ Fail(c)
      PROVE  HooksInv'
  BY <1>3, HooksQuiet DEF NextStep, MarkExecuted, Fail
<1>4. ASSUME NEW c \in Calls, Dispatch(c)
      PROVE  HooksInv'
  BY <1>4, HooksSink, HooksPost, HooksAnswer DEF Dispatch
<1> QED
  BY <1>1, <1>2, <1>3, <1>4, HooksCreate
     DEF Next, vars, Continue, CreateAgentAction, DecideAgentAction, ExecuteAgentAction

LEMMA HooksInvariant == Spec => [](IInv /\ StepsExist /\ HooksInv)
BY AgentInit, AgentStep, StepsStart, StepsStep, HooksStart, HooksStep, PTL DEF Spec

-----------------------------------------------------------------------------
(* What was never attempted.  Whoever announces is in the middle of a step  *)
(* of its tool, so no handler leaves a delivery on its way behind.          *)

InStep == \A c \in Calls : call[c].pc # "record" => ann[c] = Quiet

Made == \A e \in EventIds, h \in HookIds : delivery[<<e, h>>] # None => h \in DOMAIN hooks

UntriedInv == InStep /\ Made /\ UntriedIsUnopened

LEMMA UntriedStart == Init => UntriedInv
BY DEF Init, HooksInit, UntriedInv, InStep, Made, UntriedIsUnopened

\* A handler that is not waiting for an answer ends, or announces something new.
LEMMA UntriedOthers ==
  ASSUME HookTypes, Made, UntriedIsUnopened, NEW c \in Calls, NEW y,
         ann[c].pc # "answer", ann' = [ann EXCEPT ![c] = y], UNCHANGED <<hooks, delivery>>
  PROVE  Made' /\ UntriedIsUnopened'
<1>1. \A d \in Calls : d # c => ann'[d] = ann[d] /\ Turn(d)' = Turn(d)
  BY DEF HookTypes, Turn
<1> QED
  BY <1>1 DEF Made, UntriedIsUnopened

LEMMA UntriedCreate ==
  ASSUME HookTypes, Made, UntriedIsUnopened, NEW names \in Subscriptions, CreateWebhook(names)
  PROVE  Made' /\ UntriedIsUnopened'
<1>1. [names |-> names, opens |-> TRUE] \in Endpoint /\ hooks \in Seq(Endpoint)
  BY DEF HookTypes, Endpoint
<1>2. DOMAIN hooks \subseteq DOMAIN hooks' /\ \A h \in DOMAIN hooks : hooks'[h] = hooks[h]
  BY <1>1, AppendKeeps DEF CreateWebhook
<1>3. UNCHANGED <<ann, delivery>> /\ \A c \in Calls : Turn(c)' = Turn(c)
  BY DEF CreateWebhook, Turn
<1> QED
  BY <1>2, <1>3 DEF Made, UntriedIsUnopened

LEMMA UntriedPost ==
  ASSUME HooksInv, Made, UntriedIsUnopened, NEW c \in Calls, Post(c)
  PROVE  Made' /\ UntriedIsUnopened'
<1> DEFINE x == ann[c]
           h == Turn(c)
<1>1. /\ x.pc = "next" /\ x.todo # {} /\ UNCHANGED hooks
      /\ delivery' = [delivery EXCEPT ![<<x.event, h>>] = [status |-> "pending", attempts |-> 0]]
  BY DEF Post
<1>2. x \in Announcement /\ x.event \in EventIds /\ x.todo \subseteq HookIds
  BY <1>1, Announcer DEF HooksInv
<1>3. h \in x.todo /\ h \in HookIds /\ h \in DOMAIN hooks
  BY <1>1, <1>2, MinIsIn DEF Turn, HookIds, HooksInv, Unsent
<1>4. /\ \A d \in Calls : d # c => ann'[d] = ann[d] /\ Turn(d)' = Turn(d)
      /\ hooks[h].opens => ann'[c].pc = "answer" /\ ann'[c].event = x.event /\ Turn(c)' = h
  <2>1. CASE hooks[h].opens
    <3> DEFINE y == [x EXCEPT !.pc = "answer"]
    <3>1. y.event = x.event /\ y.pc = "answer" /\ y.todo = x.todo
      BY <1>2 DEF Announcement
    <3>2. ann' = [ann EXCEPT ![c] = y]
      BY <2>1 DEF Post, Became
    <3> HIDE DEF y
    <3> QED
      BY <3>1, <3>2 DEF HooksInv, HookTypes, Turn
  <2>2. CASE ~hooks[h].opens
    <3>1. ann' = [ann EXCEPT ![c] = [x EXCEPT !.todo = {}]]
      BY <2>2 DEF Post
    <3> QED
      BY <2>2, <3>1 DEF HooksInv, HookTypes, Turn
  <2> QED
    BY <2>1, <2>2
<1>5. \A e \in EventIds, i \in HookIds : e # x.event \/ i # h =>
        delivery'[<<e, i>>] = delivery[<<e, i>>]
  BY <1>1 DEF HooksInv, HookTypes
<1>6. Made'
  BY <1>1, <1>3, <1>5 DEF Made
<1>7. ASSUME NEW e \in EventIds, NEW i \in HookIds,
             delivery'[<<e, i>>] # None, delivery'[<<e, i>>].attempts = 0
      PROVE  \/ ~hooks[i].opens
             \/ \E d \in Calls : ann'[d].pc = "answer" /\ ann'[d].event = e /\ i = Turn(d)'
  <2>1. CASE e = x.event /\ i = h
    BY <2>1, <1>4
  <2>2. CASE e # x.event \/ i # h
    BY <2>2, <1>1, <1>4, <1>5, <1>7 DEF UntriedIsUnopened
  <2> QED
    BY <2>1, <2>2
<1> QED
  BY <1>1, <1>6, <1>7 DEF UntriedIsUnopened

LEMMA UntriedAnswer ==
  ASSUME HooksInv, Made, UntriedIsUnopened, NEW c \in Calls, Answer(c)
  PROVE  Made' /\ UntriedIsUnopened'
<1> DEFINE x == ann[c]
           h == Turn(c)
<1>1. PICK ok \in BOOLEAN :
        /\ x.pc = "answer" /\ UNCHANGED hooks
        /\ delivery' = [delivery EXCEPT ![<<x.event, h>>] = AfterAttempt(@, ok)]
        /\ ann' = [ann EXCEPT ![c].pc = "next", ![c].todo = @ \ {h}]
  BY DEF Answer
<1>2. x \in Announcement /\ x.event \in EventIds /\ x.todo \subseteq HookIds /\ x.todo # {}
  BY <1>1, Announcer DEF HooksInv, Unsent
<1>3. h \in HookIds /\ h \in DOMAIN hooks
  BY <1>1, <1>2, MinIsIn DEF Turn, HookIds, HooksInv, Unsent
<1>4. delivery[<<x.event, h>>] = [status |-> "pending", attempts |-> 0]
  BY <1>1 DEF HooksInv, Unsent
<1>5. delivery'[<<x.event, h>>].attempts = 1
  BY <1>1, <1>2, <1>3, <1>4 DEF HooksInv, HookTypes, AfterAttempt
<1>6. \A e \in EventIds, i \in HookIds : e # x.event \/ i # h =>
        delivery'[<<e, i>>] = delivery[<<e, i>>]
  BY <1>1 DEF HooksInv, HookTypes
<1>7. \A d \in Calls : d # c => ann'[d] = ann[d] /\ Turn(d)' = Turn(d)
  BY <1>1 DEF HooksInv, HookTypes, Turn
<1>8. Made'
  BY <1>1, <1>3, <1>6 DEF Made
<1>9. ASSUME NEW e \in EventIds, NEW i \in HookIds,
             delivery'[<<e, i>>] # None, delivery'[<<e, i>>].attempts = 0
      PROVE  \/ ~hooks[i].opens
             \/ \E d \in Calls : ann'[d].pc = "answer" /\ ann'[d].event = e /\ i = Turn(d)'
  <2>1. e # x.event \/ i # h
    BY <1>5, <1>9
  <2>2. PICK d \in Calls : hooks[i].opens => ann[d].pc = "answer" /\ ann[d].event = e /\ i = Turn(d)
    BY <2>1, <1>6, <1>9 DEF UntriedIsUnopened
  <2>3. hooks[i].opens => d # c
    BY <2>1, <2>2
  <2> QED
    BY <2>2, <2>3, <1>7
<1> QED
  BY <1>1, <1>8, <1>9 DEF UntriedIsUnopened

LEMMA InStepStep ==
  ASSUME IInv, HooksInv, InStep, [Next]_vars
  PROVE  InStep'
<1>1. call \in [Calls -> Execution \union {Idle}] /\ ann \in [Calls -> Announcement \union {Quiet}]
  BY DEF IInv, AgentTypes, HooksInv, HookTypes
<1>2. CASE UNCHANGED <<call, ann>>
  BY <1>2 DEF InStep
<1>3. ASSUME NEW c \in Calls, NEW a \in Actions, NEW p \in People, ExecuteAgentAction(c, a, p)
      PROVE  InStep'
  BY <1>1, <1>3 DEF ExecuteAgentAction, InStep, hookVars, Idle
<1>4. ASSUME NEW c \in Calls, RunStep(c) PROVE InStep'
  <2>1. call[c] \in Execution
    BY <1>4, UnderWay DEF RunStep, IInv
  <2>2. call'[c].pc = "record" /\ \A d \in Calls \ {c} : call'[d] = call[d] /\ ann'[d] = ann[d]
    BY <1>1, <1>4, <2>1 DEF RunStep, Announce, Execution
  <2> QED
    BY <2>2 DEF InStep
<1>5. ASSUME NEW c \in Calls, NextStep(c) \/ MarkExecuted(c) \/ Fail(c) PROVE InStep'
  <2>1. ann'[c] = Quiet /\ \A d \in Calls \ {c} : call'[d] = call[d] /\ ann'[d] = ann[d]
    BY <1>1, <1>5 DEF NextStep, MarkExecuted, Fail
  <2> QED
    BY <2>1 DEF InStep
<1>6. ASSUME NEW c \in Calls, Dispatch(c), UNCHANGED agentVars PROVE InStep'
  <2>1. UNCHANGED call /\ \A d \in Calls \ {c} : ann'[d] = ann[d]
    BY <1>1, <1>6 DEF Dispatch, Sink, Post, Answer, Became, agentVars
  <2>2. ann[c] # Quiet
    BY <1>6 DEF Dispatch, Sink, Post, Answer, Quiet
  <2> QED
    BY <2>1, <2>2 DEF InStep
<1> QED
  BY <1>2, <1>3, <1>4, <1>5, <1>6
     DEF Next, vars, hookVars, Continue, CreateAgentAction, DecideAgentAction, CreateWebhook, agentVars

LEMMA UntriedStep == IInv /\ HooksInv /\ UntriedInv /\ [Next]_vars => UntriedInv'
<1> SUFFICES ASSUME IInv, HooksInv, UntriedInv, [Next]_vars PROVE UntriedInv'
  OBVIOUS
<1>1. InStep'
  BY InStepStep DEF UntriedInv
<1>2. Made /\ UntriedIsUnopened /\ HookTypes
  BY DEF UntriedInv, HooksInv
<1>3. ASSUME UNCHANGED <<hooks, delivery, ann>> PROVE Made' /\ UntriedIsUnopened'
  BY <1>2, <1>3 DEF Made, UntriedIsUnopened, Turn
<1>4. ASSUME NEW c \in Calls, RunStep(c) PROVE Made' /\ UntriedIsUnopened'
  <2>1. ann[c] = Quiet
    BY <1>4 DEF UntriedInv, InStep, RunStep
  <2>2. ann[c].pc # "answer" /\ UNCHANGED <<hooks, delivery>>
    BY <1>4, <2>1 DEF RunStep, Announce, Quiet
  <2> QED
    BY <1>2, <1>4, <2>2, UntriedOthers DEF RunStep, Announce
<1>5. ASSUME NEW c \in Calls, NextStep(c) \/ MarkExecuted(c) \/ Fail(c)
      PROVE  Made' /\ UntriedIsUnopened'
  <2>1. ann[c].pc # "answer"
    BY <1>5 DEF NextStep, MarkExecuted, Fail, Dispatched, UntriedInv, InStep, Quiet
  <2>2. ann' = [ann EXCEPT ![c] = Quiet] /\ UNCHANGED <<hooks, delivery>>
    BY <1>5 DEF NextStep, MarkExecuted, Fail
  <2> QED
    BY <1>2, <2>1, <2>2, UntriedOthers
<1>6. ASSUME NEW c \in Calls, Sink(c) PROVE Made' /\ UntriedIsUnopened'
  <2>1. ann[c].pc # "answer" /\ UNCHANGED <<hooks, delivery>>
    BY <1>6 DEF Sink
  <2>2. \E y : ann' = [ann EXCEPT ![c] = y]
    BY <1>6 DEF Sink, Became
  <2> QED
    BY <1>2, <2>1, <2>2, UntriedOthers
<1>7. ASSUME NEW names \in Subscriptions, CreateWebhook(names) PROVE Made' /\ UntriedIsUnopened'
  BY <1>2, <1>7, UntriedCreate
<1>8. ASSUME NEW c \in Calls, Dispatch(c) PROVE Made' /\ UntriedIsUnopened'
  BY <1>2, <1>6, <1>8, UntriedPost, UntriedAnswer DEF Dispatch, UntriedInv
<1>9. CASE \/ UNCHANGED vars
           \/ \E a \in Actions, p \in People, tool \in Tools : CreateAgentAction(a, p, tool)
           \/ \E a \in Actions, p \in People, d \in {"approved", "denied"} : DecideAgentAction(a, p, d)
           \/ \E c \in Calls, a \in Actions, p \in People : ExecuteAgentAction(c, a, p)
  <2>1. UNCHANGED <<hooks, delivery, ann>>
    BY <1>9 DEF vars, hookVars, CreateAgentAction, DecideAgentAction, ExecuteAgentAction
  <2> QED
    BY <1>1, <1>3, <2>1 DEF UntriedInv
<1>10. (Made' /\ UntriedIsUnopened') \/ UntriedInv'
  BY <1>4, <1>5, <1>7, <1>8, <1>9 DEF Next, Continue
<1> QED
  BY <1>1, <1>10 DEF UntriedInv

-----------------------------------------------------------------------------
(* The theorems.                                                           *)

\* A tool runs only for an action that somebody entitled approved, whatever
\* executions and decisions overlap (decideAgentAction, executeAgentAction).
THEOREM RunNeedsApproval == Spec => []NoRunWithoutApproval
<1>1. IInv => NoRunWithoutApproval
  BY DEF IInv, NoRunWithoutApproval, CallsBacked, ApproversMay
<1> QED
  BY <1>1, AgentInvariant, PTL

\* An action shown as executed did run, and names somebody who approved it, although
\* the row that is written may be old.
THEOREM ExecutedIsNoLie == Spec => []ExecutedIsTrue
<1>1. IInv => ExecutedIsTrue
  BY DEF IInv, ExecutedIsTrue, RowsBacked
<1> QED
  BY <1>1, AgentInvariant, PTL

\* Every variable keeps its type: what a tool records is an event that has a
\* webhook, and no handler holds an event or an endpoint that is not there.
THEOREM AgentActionTypes == Spec => []TypeOK
<1>1. IInv /\ HooksInv => TypeOK
  <2> SUFFICES ASSUME IInv, HooksInv PROVE TypeOK
    OBVIOUS
  <2>1. hooks \in BoundedSeq(Endpoint, MaxHooks)
    BY Bounded DEF HooksInv, HookTypes
  <2>2. stored \in BoundedSeq(AuditActions, MaxEvents)
    BY Bounded DEF HooksInv, HookTypes
  <2>3. received \in [EventIds \X HookIds -> 0 .. 2]
    BY DEF HooksInv, HookTypes
  <2> QED
    BY <2>1, <2>2, <2>3 DEF TypeOK, HooksTypeOK, IInv, AgentTypes, HooksInv, HookTypes
<1> QED
  BY <1>1, HooksInvariant, PTL

\* An endpoint is sent what it asked for, once, and only what the audit store has and
\* the sink accepted, whatever handlers announce side by side and whatever endpoints
\* come up meanwhile (record, dispatchWebhooks, deliverOnce).
THEOREM HooksHearTheTruth == Spec => []AnnouncedWasAudited
<1>1. HooksInv => AnnouncedWasAudited
  BY DEF HooksInv
<1> QED
  BY <1>1, HooksInvariant, PTL

\* A delivery that was made and never attempted is on its way, or is for an endpoint
\* whose secret cannot be opened, whatever the endpoints before it answered
\* (dispatchWebhooks, deliverOnce, updateDelivery).
THEOREM NoDeliveryIsForgotten == Spec => []UntriedIsUnopened
<1>1. UntriedInv => UntriedIsUnopened
  BY DEF UntriedInv
<1> QED
  BY <1>1, HooksInvariant, UntriedStart, UntriedStep, PTL DEF Spec

=============================================================================
