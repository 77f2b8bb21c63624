---------------------------- MODULE AgentActions ----------------------------
(***************************************************************************)
(* What an agent asks for over MCP: a tool that writes becomes an action   *)
(* that a person approves or denies and somebody executes                  *)
(* (createAgentAction, decideAgentAction, executeAgentAction, invokeMcp of *)
(* packages/control-plane, the tool table of packages/mcp).  Executing     *)
(* runs a handler of the control plane, which records its events and sends *)
(* webhooks (Webhooks.tla) before the action is marked executed: that is   *)
(* where calls overlap.                                                    *)
(*                                                                         *)
(* Two of the five tools stand for all of them: blakid_suspend_user, which *)
(* the engine refuses for somebody suspended and which records twice, and  *)
(* blakid_add_group_member, which may be repeated and records once.  The   *)
(* store answers within one turn of the event loop, as MemoryStore does.   *)
(***************************************************************************)
EXTENDS Webhooks, FiniteSets

CONSTANTS
  People,   \* principals of the organisation
  RoleOf,
  Actions   \* bounds the actions that are asked for

A == INSTANCE Authz

ASSUME AgentAssumption ==
  /\ RoleOf \in [People -> A!Roles \ {A!Operator}]
  /\ None \notin People /\ MaxEvents \in Nat /\ MaxHooks \in Nat
  /\ Subscriptions \subseteq SUBSET WEBHOOK_EVENTS

VARIABLES
  action,   \* the rows of agent_actions
  call,     \* executions under way
  suspended, \* whether the identity the tools are about is; who is a member of what
             \* refuses nothing, and is left out
  ran,      \* history: the actions whose first step was done
  approved  \* history: who approved an action

agentVars == <<action, call, suspended, ran, approved>>
vars == <<hookVars, agentVars>>

----------------------------------------------------------------------------
Tools == {"blakid_suspend_user", "blakid_add_group_member"}

\* What a tool does, and records, one after the other.
Script ==
  [tool \in Tools |->
     IF tool = "blakid_suspend_user" THEN <<"identity.suspended", "session.revoked">>
     ELSE <<"group.member.added">>]

\* What the handler behind a tool asks authorize() for.
ToolPermission(tool) ==
  IF tool = "blakid_suspend_user" THEN "identity.users.suspend" ELSE "identity.memberships.write"

Holds(p, permission) == RoleOf[p] \in A!MATRIX(permission)

\* Who asked decides nothing later, and is left out.
AgentAction == [tool : Tools, status : {"pending", "approved", "denied", "executed"},
                approverId : People \union {None}]

ASSUME NoneAssumption == None \notin AgentAction

\* seen: the row as the execution read it; step: the step of its tool.
Execution == [pc : {"tool", "record"}, id : Actions, seen : AgentAction, step : 1 .. 2]
Idle == [pc |-> "idle"]

TypeOK ==
  /\ HooksTypeOK
  /\ action \in [Actions -> AgentAction \union {None}]
  /\ call \in [Calls -> Execution \union {Idle}]
  /\ suspended \in BOOLEAN
  /\ ran \subseteq Actions
  /\ approved \in [Actions -> SUBSET People]

Init ==
  /\ HooksInit
  /\ action = [a \in Actions |-> None]
  /\ call = [c \in Calls |-> Idle]
  /\ suspended = FALSE
  /\ ran = {}
  /\ approved = [a \in Actions |-> {}]

----------------------------------------------------------------------------
\* createAgentAction, from invokeMcp: both tools write and require approval.
CreateAgentAction(a, p, tool) ==
  /\ action[a] = None /\ a = CHOOSE i \in Actions : action[i] = None
  /\ Holds(p, "identity.users.read")
  /\ action' = [action EXCEPT ![a] = [tool |-> tool, status |-> "pending", approverId |-> None]]
  /\ UNCHANGED <<call, suspended, ran, approved, hookVars>>

\* No status is looked at: a decision may be made again, and after the execution.
DecideAgentAction(a, p, decision) ==
  /\ action[a] # None /\ Holds(p, "applications.access.grant")
  /\ action' = [action EXCEPT ![a].status = decision, ![a].approverId = p]
  /\ approved' = IF decision = "approved" THEN [approved EXCEPT ![a] = @ \union {p}] ELSE approved
  /\ UNCHANGED <<call, suspended, ran, hookVars>>

\* Fault: only a denial keeps an action from being executed.
Executable_NotDenied(row) == row.status # "denied"

Executable(row) == row.status = "approved"

\* executeAgentAction reads the row, and the handler of the tool asks for its
\* permission.
ExecuteAgentAction(c, a, p) ==
  /\ call[c] = Idle /\ c = CHOOSE i \in Calls : call[i] = Idle
  /\ action[a] # None /\ Executable(action[a])
  /\ Holds(p, ToolPermission(action[a].tool))
  /\ call' = [call EXCEPT ![c] = [pc |-> "tool", id |-> a, seen |-> action[a], step |-> 1]]
  /\ UNCHANGED <<action, suspended, ran, approved, hookVars>>

\* What the engine does for a step; the transition table refuses a second
\* suspension.
Done(did) ==
  /\ did = "identity.suspended" => ~suspended
  /\ suspended' = (suspended \/ did = "identity.suspended")

RunStep(c) ==
  LET x == call[c]
  IN /\ x.pc = "tool" /\ Room
     /\ Done(Script[x.seen.tool][x.step])
     /\ Announce(c, Script[x.seen.tool][x.step])
     /\ call' = [call EXCEPT ![c].pc = "record"]
     /\ ran' = ran \union {x.id}
     /\ UNCHANGED <<action, approved>>

\* The event is out, and the tool goes on.
NextStep(c) ==
  LET x == call[c]
  IN /\ x.pc = "record" /\ Dispatched(c) /\ x.step < Len(Script[x.seen.tool])
     /\ call' = [call EXCEPT ![c].pc = "tool", ![c].step = @ + 1]
     /\ ann' = [ann EXCEPT ![c] = Quiet]
     /\ UNCHANGED <<action, suspended, ran, approved, hooks, stored, sunk, delivery, received>>

\* Fault: the row is read again before it is marked.
Executed_Fresh(x) == [action[x.id] EXCEPT !.status = "executed"]

\* The row as it was read, marked.
Executed(x) == [x.seen EXCEPT !.status = "executed"]

MarkExecuted(c) ==
  LET x == call[c]
  IN /\ x.pc = "record" /\ Dispatched(c) /\ x.step = Len(Script[x.seen.tool])
     /\ action' = [action EXCEPT ![x.id] = Executed(x)]
     /\ call' = [call EXCEPT ![c] = Idle]
     /\ ann' = [ann EXCEPT ![c] = Quiet]
     /\ UNCHANGED <<suspended, ran, approved, hooks, stored, sunk, delivery, received>>

\* The engine refuses or fails, or the sink threw: the execution ends, and the
\* action is as it was.
Fail(c) ==
  /\ call[c].pc = "tool" \/ ann[c].pc = "thrown"
  /\ call' = [call EXCEPT ![c] = Idle]
  /\ ann' = [ann EXCEPT ![c] = Quiet]
  /\ UNCHANGED <<action, suspended, ran, approved, hooks, stored, sunk, delivery, received>>

Continue(c) ==
  \/ RunStep(c) \/ NextStep(c) \/ MarkExecuted(c) \/ Fail(c)
  \/ Dispatch(c) /\ UNCHANGED agentVars

Next ==
  \/ \E names \in Subscriptions : CreateWebhook(names) /\ UNCHANGED agentVars
  \/ \E a \in Actions, p \in People, tool \in Tools : CreateAgentAction(a, p, tool)
  \/ \E a \in Actions, p \in People, d \in {"approved", "denied"} : DecideAgentAction(a, p, d)
  \/ \E c \in Calls, a \in Actions, p \in People : ExecuteAgentAction(c, a, p)
  \/ \E c \in Calls : Continue(c)

\* A handler goes on: what it awaits answers, fails or times out.  Nobody has to
\* ask, decide or execute.
Fairness == \A c \in Calls : WF_vars(Continue(c))

Spec == Init /\ [][Next]_vars /\ Fairness

----------------------------------------------------------------------------

\* No tool runs for an action that nobody entitled to approve it ever approved,
\* however decisions, executions and their stale rows overlap.
NoRunWithoutApproval ==
  \A a \in Actions :
    /\ a \in ran => \E p \in approved[a] : Holds(p, "applications.access.grant")
    /\ \A c \in Calls : call[c] # Idle /\ call[c].id = a => call[c].seen.approverId \in approved[a]

\* An action shown as executed was run, and names somebody who approved it, even
\* if it was denied or decided again by others while it ran.
ExecutedIsTrue ==
  \A a \in Actions :
    action[a] # None /\ action[a].status = "executed" =>
      a \in ran /\ action[a].approverId \in approved[a]

=============================================================================
