--------------------------- MODULE AccessRequests ---------------------------
(***************************************************************************)
(* Temporary access: a person asks for a role, an owner decides, approval  *)
(* puts the person in the group of that name, and a tick takes the expired *)
(* ones out again.  Administrators change the same groups directly.        *)
(*                                                                         *)
(* A handler is a process p; its steps are                                 *)
(*     update   updateAccessRequest                                        *)
(*     groups   listGroups, and  create  createGroup when there is none    *)
(*     member   add or remove a member, memory engine                      *)
(*     read     GET the group, and  patch  PATCH its users, over HTTP      *)
(*     pick     the tick, at the next request of its snapshot              *)
(*     record   the tick, in record() (the last step of all other handlers *)
(*              changes nothing here and is left out)                      *)
(* Over the memory engine the steps up to record() are one turn of the     *)
(* event loop; over HTTP other handlers run between any two.               *)
(***************************************************************************)
EXTENDS Naturals, Sequences

CONSTANTS
  Users, Roles, Requests,
  Procs,       \* handlers in flight at once
  Engine,
  MayFail,     \* the sink may throw, the requester may be unknown to the
               \* directory; over HTTP, any request may be lost
  MaxTime,     \* the bound of the clock
  MaxGroups    \* the bound of what administrators create

ASSUME AccessAssumption ==
  /\ Engine \in {"memory", "http"} /\ MayFail \in BOOLEAN
  /\ MaxTime \in Nat /\ MaxGroups \in Nat

VARIABLES
  row,       \* the stored requests
  groups,    \* the engine's groups, oldest first; the id is the position
  now,
  procs,
  granted,   \* history: <<user, role>> somebody with the right to asked for
  standing,  \* history: memberships <<user, group>> no request answers for
  withheld   \* history: <<user, role>> taken away, or never delivered

vars == <<row, groups, now, procs, granted, standing, withheld>>
history == <<granted, standing, withheld>>

----------------------------------------------------------------------------
Never == MaxTime + 1    \* expiresAt: null
Statuses == {"pending", "approved", "denied"}

Absent == [status |-> "absent"]
AccessRequest == [status : Statuses, who : Users, role : Roles, until : 0..Never]
Group == [name : Roles, members : SUBSET Users]

Idle == [pc |-> "idle"]

\* req: for an administrator's call, Direct.  gid: 0 until known.  seen: the
\* members as read over HTTP.  todo: the rest of the tick's snapshot.
Direct == "direct"
Handler ==
  [pc : {"update", "groups", "create", "member", "read", "patch", "record"},
   op : {"approve", "deny", "expire", "add", "remove"},
   req : Requests \union {Direct}, who : Users, role : Roles, gid : Nat,
   seen : SUBSET Users, todo : SUBSET Requests]
Tick == [pc : {"pick"}, op : {"expire"}, todo : SUBSET Requests]

TypeOK ==
  /\ row \in [Requests -> AccessRequest \union {Absent}]
  /\ groups \in Seq(Group)
  /\ now \in 0..MaxTime
  /\ procs \in [Procs -> Handler \union Tick \union {Idle}]
  /\ granted \subseteq Users \X Roles
  /\ standing \subseteq Users \X Nat
  /\ withheld \subseteq Users \X Roles

Init ==
  /\ row = [r \in Requests |-> Absent]
  /\ groups = <<>> /\ now = 0
  /\ procs = [p \in Procs |-> Idle]
  /\ granted = {} /\ standing = {} /\ withheld = {}

----------------------------------------------------------------------------
\* Nobody but p is inside an uninterrupted stretch.
Turn(p) == Engine = "http" \/ \A q \in Procs \ {p} : procs[q].pc \in {"idle", "record"}
Quiet == Engine = "http" \/ \A p \in Procs : procs[p].pc \in {"idle", "record"}
At(p, pc) == procs[p].pc = pc /\ Turn(p)

Goto(p, pc) == procs' = [procs EXCEPT ![p].pc = pc]
Return(p)   == procs' = [procs EXCEPT ![p] = Idle]

Begin(p, pc, op, r, who, role, gid, todo) ==
  procs' = [procs EXCEPT ![p] =
    [pc |-> pc, op |-> op, req |-> r, who |-> who, role |-> role, gid |-> gid,
     seen |-> {}, todo |-> todo]]

\* Fault: groups are looked up in a map keyed by name, where the last one wins.
GroupNamed_Last(role) ==
  {g \in DOMAIN groups : groups[g].name = role /\
     \A h \in DOMAIN groups : groups[h].name = role => h <= g}

\* groups.find((g) => g.name === role): the first, as a set of at most one.
GroupNamed(role) ==
  {g \in DOMAIN groups : groups[g].name = role /\
     \A h \in 1..(g - 1) : groups[h].name # role}

\* Where the change of a member begins.
ToMember == IF Engine = "memory" THEN "member" ELSE "read"
AfterMember(op) == IF op = "expire" THEN "update" ELSE "idle"
Removes(op) == op \in {"remove", "expire"}

----------------------------------------------------------------------------
(* How a handler begins.                                                   *)

\* The stored expiresAt is any string the caller sent, a past one included.
CreateAccessRequest(r, who, role, until) ==
  /\ Quiet /\ row[r] = Absent
  /\ row' = [row EXCEPT ![r] = [status |-> "pending", who |-> who, role |-> role,
                                until |-> until]]
  /\ UNCHANGED <<groups, now, procs, history>>

\* decideAccessRequest asks for no status: a decision may be made again.
DecideAccessRequest(p, r, op) ==
  /\ At(p, "idle") /\ row[r] # Absent
  /\ Begin(p, "update", op, r, row[r].who, row[r].role, 0, {})
  /\ granted' = IF op = "approve" THEN granted \union {<<row[r].who, row[r].role>>}
                ELSE granted
  /\ UNCHANGED <<row, groups, now, standing, withheld>>

\* tickAccessExpiry: one listing, then one request after the other.
TickAccessExpiry(p) ==
  LET due == {r \in Requests : row[r].status = "approved" /\ row[r].until # Never}
  IN /\ At(p, "idle") /\ due # {}
     /\ procs' = [procs EXCEPT ![p] = [pc |-> "pick", op |-> "expire", todo |-> due]]
     /\ UNCHANGED <<row, groups, now, history>>

\* addGroupMember and removeGroupMember, called by an administrator.
GroupMemberCall(p, op, who, g) ==
  /\ At(p, "idle") /\ g \in DOMAIN groups
  /\ Begin(p, ToMember, op, Direct, who, groups[g].name, g, {})
  /\ granted' = IF op = "add" THEN granted \union {<<who, groups[g].name>>} ELSE granted
  /\ UNCHANGED <<row, groups, now, standing, withheld>>

\* The memory engine takes a name twice; authentik does not.
AdminCreateGroup(role) ==
  /\ Quiet /\ Len(groups) < MaxGroups
  /\ Engine = "http" => GroupNamed(role) = {}
  /\ groups' = Append(groups, [name |-> role, members |-> {}])
  /\ UNCHANGED <<row, now, procs, history>>

----------------------------------------------------------------------------
(* The steps of a handler.                                                 *)

\* The request the tick looks at next; one that is not due yet is passed over.
Pick(p, r) ==
  LET left == procs[p].todo \ {r}
  IN /\ At(p, "pick") /\ r \in procs[p].todo
     /\ IF row[r].until <= now
        THEN Begin(p, "groups", "expire", r, row[r].who, row[r].role, 0, left)
        ELSE procs' = [procs EXCEPT ![p].todo = left]
     /\ UNCHANGED <<row, groups, now, history>>

PickNone(p) ==
  /\ At(p, "pick") /\ procs[p].todo = {}
  /\ Return(p)
  /\ UNCHANGED <<row, groups, now, history>>

\* Fault: an expired request gets a status of its own, which the type lacks.
StatusOf_Expired(op) ==
  CASE op = "approve" -> "approved" [] op = "deny" -> "denied" [] OTHER -> "expired"

StatusOf(op) == IF op = "approve" THEN "approved" ELSE "denied"

\* Fault: the else of decideAccessRequest is gone.
AfterUpdate_FallThrough(op) == IF op = "expire" THEN "record" ELSE "groups"

AfterUpdate(op) ==
  CASE op = "approve" -> "groups" [] op = "expire" -> "record" [] OTHER -> "idle"

\* The row is written back as it was read; only the status can differ.  A
\* denial leaves the membership of an earlier approval where it is.
UpdateAccessRequest(p) ==
  LET c == procs[p]
      next == AfterUpdate(c.op)
  IN /\ At(p, "update")
     /\ row' = [row EXCEPT ![c.req].status = StatusOf(c.op)]
     /\ standing' = IF c.op # "deny" THEN standing
                    ELSE standing \union {<<c.who, g>> : g \in
                           {h \in GroupNamed(c.role) : c.who \in groups[h].members}}
     /\ IF next = "idle" THEN Return(p) ELSE Goto(p, next)
     /\ UNCHANGED <<groups, now, granted, withheld>>

\* Fault: an approval whose group does not exist yet stops there.
NoGroup_Stop(op) == IF op = "approve" THEN "idle" ELSE "update"

\* What follows when no group has the name of the role.
NoGroup(op) == IF op = "expire" THEN "update" ELSE "create"

ListGroups(p) ==
  LET c == procs[p]
      found == GroupNamed(c.role)
      next == NoGroup(c.op)
  IN /\ At(p, "groups")
     /\ \/ \E g \in found : procs' = [procs EXCEPT ![p].pc = ToMember, ![p].gid = g]
        \/ found = {} /\ IF next = "idle" THEN Return(p) ELSE Goto(p, next)
     /\ UNCHANGED <<row, groups, now, history>>

CreateGroup(p) ==
  /\ At(p, "create")
  /\ IF Engine = "http" /\ GroupNamed(procs[p].role) # {}
     THEN Return(p) /\ UNCHANGED groups
     ELSE /\ groups' = Append(groups, [name |-> procs[p].role, members |-> {}])
          /\ procs' = [procs EXCEPT ![p].pc = ToMember, ![p].gid = Len(groups) + 1]
  /\ UNCHANGED <<row, now, history>>

\* The list of members becomes list; history tells on whose account.
Write(p, list) ==
  LET c == procs[p]
      next == AfterMember(c.op)
  IN /\ groups' = [groups EXCEPT ![c.gid].members = list]
     /\ standing' = IF c.op = "add" THEN standing \union {<<c.who, c.gid>>}
                    ELSE IF Removes(c.op) THEN standing \ {<<c.who, c.gid>>} ELSE standing
     /\ withheld' = IF Removes(c.op) THEN withheld \union {<<c.who, c.role>>}
                    ELSE withheld \ {<<c.who, c.role>>}
     /\ IF next = "idle" THEN Return(p) ELSE Goto(p, next)
     /\ UNCHANGED <<row, now, granted>>

Changed(op, members, who) == IF Removes(op) THEN members \ {who} ELSE members \union {who}

\* MemoryAuthentikClient changes the list in place.
ChangeMember(p) ==
  LET c == procs[p]
  IN At(p, "member") /\ Write(p, Changed(c.op, groups[c.gid].members, c.who))

\* HttpAuthentikClient reads the list, changes it and sends it back whole.
ReadMembers(p) ==
  /\ At(p, "read")
  /\ procs' = [procs EXCEPT ![p].pc = "patch", ![p].seen = groups[procs[p].gid].members]
  /\ UNCHANGED <<row, groups, now, history>>

PatchMembers(p) ==
  LET c == procs[p]
  IN At(p, "patch") /\ Write(p, Changed(c.op, c.seen, c.who))

\* The tick, past record(): on to the next request.
Record(p) ==
  /\ At(p, "record")
  /\ procs' = [procs EXCEPT ![p] = [pc |-> "pick", op |-> "expire", todo |-> @.todo]]
  /\ UNCHANGED <<row, groups, now, history>>

----------------------------------------------------------------------------
(* What goes wrong.  The memory engine answers 404 for a person it does not *)
(* know, who is then in no group; the tick swallows a removal that failed. *)

Unknown(who) == \A g \in DOMAIN groups : who \notin groups[g].members

CanFail(p) ==
  \/ procs[p].pc = "record"
  \/ Engine = "http" /\ procs[p].pc \in {"groups", "create", "read", "patch"}
  \/ At(p, "member") /\ Unknown(procs[p].who)

Fail(p) ==
  LET c == procs[p]
  IN /\ MayFail /\ CanFail(p)
     /\ IF c.op = "expire" /\ c.pc \in {"member", "read", "patch"}
        THEN Goto(p, "update") ELSE Return(p)
     /\ withheld' = IF c.op = "approve" THEN withheld \union {<<c.who, c.role>>} ELSE withheld
     /\ UNCHANGED <<row, groups, now, granted, standing>>

AdvanceTime ==
  /\ now < MaxTime /\ now' = now + 1
  /\ UNCHANGED <<row, groups, procs, history>>

----------------------------------------------------------------------------
Start(p) ==
  \/ \E r \in Requests, op \in {"approve", "deny"} : DecideAccessRequest(p, r, op)
  \/ TickAccessExpiry(p)
  \/ \E op \in {"add", "remove"}, who \in Users, g \in DOMAIN groups :
       GroupMemberCall(p, op, who, g)

Continue(p) ==
  \/ UpdateAccessRequest(p) \/ ListGroups(p) \/ CreateGroup(p)
  \/ ChangeMember(p) \/ ReadMembers(p) \/ PatchMembers(p)
  \/ Record(p) \/ PickNone(p) \/ \E r \in Requests : Pick(p, r)

Outside ==
  \/ \E r \in Requests, who \in Users, role \in Roles, until \in 0..Never :
       CreateAccessRequest(r, who, role, until)
  \/ \E role \in Roles : AdminCreateGroup(role)
  \/ AdvanceTime

Next == Outside \/ \E p \in Procs : Start(p) \/ Continue(p) \/ Fail(p)

Spec == Init /\ [][Next]_vars

----------------------------------------------------------------------------
(* Properties.                                                             *)

InFlight(r) == \E p \in Procs : procs[p].pc \notin {"idle", "pick"} /\ procs[p].req = r

Backed(who, g) ==
  \/ <<who, g>> \in standing
  \/ \E r \in Requests : row[r].status = "approved" /\ row[r].who = who
                         /\ row[r].role = groups[g].name

\* Access is temporary: whoever is in a group was put there by an administrator,
\* kept by a late denial, or has an approved request the next tick will see.
\* So nothing a request gave outlasts it (decideAccessRequest, tickAccessExpiry,
\* overlapping while webhooks are out; milestone.test.ts:156, "grants and expires
\* temporary access").
MembershipBacked ==
  \A g \in DOMAIN groups : \A who \in groups[g].members : Backed(who, g)

\* When the tick records "application.access.revoked", the access is gone, or
\* somebody else's to give (milestone.test.ts:184: after the tick the requester is
\* no member).
RevokedIsOut ==
  \A p \in Procs, g \in DOMAIN groups :
    procs[p].pc = "record" /\ groups[g].name = procs[p].role
    /\ procs[p].who \in groups[g].members => Backed(procs[p].who, g)

\* The converse: an approved request of which no handler is under way has its
\* membership, unless that was removed, for another request of the same role
\* or by an administrator, or could not be added.
GrantDelivered ==
  \A r \in Requests :
    row[r].status = "approved" /\ ~InFlight(r) =>
      \/ <<row[r].who, row[r].role>> \in withheld
      \/ \E g \in DOMAIN groups : groups[g].name = row[r].role
                                  /\ row[r].who \in groups[g].members

\* Nobody is in a group whose role nobody entitled ever gave them, although
\* handlers over HTTP write back whole lists of members that may be long out of
\* date (HttpAuthentikClient.addGroupMember, removeGroupMember).
MembersWereGranted ==
  \A g \in DOMAIN groups : \A who \in groups[g].members :
    <<who, groups[g].name>> \in granted

----------------------------------------------------------------------------
(* The inductive invariant behind MembersWereGranted.  A handler may be     *)
(* long out of date, but the list it read names only people who were        *)
(* granted the role, the group it found keeps its name, and the person it   *)
(* adds was granted the role when it began.                                 *)

HandlerOK(c, rows, grps, given) ==
  /\ c.pc # "idle" => \A r \in c.todo : rows[r] # Absent
  /\ c.pc \notin {"idle", "pick"} =>
       /\ c.op \in {"approve", "deny", "expire"} => c.req \in Requests /\ rows[c.req] # Absent
       /\ c.op \in {"approve", "add"} => <<c.who, c.role>> \in given
       /\ c.op \in {"add", "remove"} => c.pc \in {"member", "read", "patch"}
       /\ c.op = "deny" => c.pc = "update"
       /\ c.pc = "create" => c.op = "approve"
       /\ c.pc \in {"member", "read", "patch"} =>
            c.gid \in DOMAIN grps /\ grps[c.gid].name = c.role
       /\ c.pc = "patch" => \A w \in c.seen : <<w, c.role>> \in given

IInv ==
  /\ TypeOK /\ MembersWereGranted
  /\ \A p \in Procs : HandlerOK(procs[p], row, groups, granted)
=============================================================================
