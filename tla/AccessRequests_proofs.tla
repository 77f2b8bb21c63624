------------------------ MODULE AccessRequests_proofs ------------------------
(***************************************************************************)
(* For any number of people, roles, requests and handlers, over either     *)
(* engine and with any failures: the types of AccessRequests, and that no  *)
(* interleaving of whole-list writes makes a member of somebody who was    *)
(* never granted the role.  Over the memory engine: that memberships and   *)
(* approved requests answer for each other.                                *)
(***************************************************************************)
EXTENDS AccessRequests, WellFoundedInduction, TLAPS

Procedures == Handler \union Tick \union {Idle}

\* What no step takes back: a request, a group's name, a grant.
Grows ==
  /\ \A r \in Requests : row[r] # Absent => row'[r] # Absent
  /\ \A g \in DOMAIN groups : g \in DOMAIN groups' /\ groups'[g].name = groups[g].name
  /\ granted \subseteq granted'

HandlersOK == \A p \in Procs : HandlerOK(procs[p], row, groups, granted)

\* What a handler knows stays true while others move on.
LEMMA StillOK ==
  ASSUME Grows, NEW c \in Procedures, HandlerOK(c, row, groups, granted)
  PROVE  HandlerOK(c, row', groups', granted')
<1>1. CASE c = Idle
  BY <1>1 DEF HandlerOK, Idle
<1>2. CASE c \in Tick
  BY <1>2 DEF HandlerOK, Tick, Grows
<1>3. CASE c \in Handler
  BY <1>3 DEF HandlerOK, Handler, Grows
<1> QED BY <1>1, <1>2, <1>3 DEF Procedures

\* A step of p disturbs no other handler.
LEMMA Frame ==
  ASSUME IInv, Grows, NEW p \in Procs, NEW c \in Procedures,
         procs' = [procs EXCEPT ![p] = c], HandlerOK(c, row', groups', granted')
  PROVE  procs' \in [Procs -> Procedures] /\ HandlersOK'
<1>1. procs \in [Procs -> Procedures]
  BY DEF IInv, TypeOK, Procedures
<1>2. procs' \in [Procs -> Procedures]
  BY <1>1
<1>3. ASSUME NEW q \in Procs PROVE HandlerOK(procs'[q], row', groups', granted')
  <2>1. CASE q = p
    BY <1>1, <2>1
  <2>2. CASE q # p
    <3>1. procs'[q] = procs[q] /\ procs[q] \in Procedures
      BY <1>1, <2>2
    <3>2. HandlerOK(procs[q], row, groups, granted)
      BY DEF IInv
    <3> QED BY <3>1, <3>2, StillOK
  <2> QED BY <2>1, <2>2
<1> QED BY <1>2, <1>3 DEF HandlersOK

\* The same when no handler moves.
LEMMA FrameOutside ==
  ASSUME IInv, Grows, UNCHANGED procs
  PROVE  procs' \in [Procs -> Procedures] /\ HandlersOK'
<1>1. procs \in [Procs -> Procedures]
  BY DEF IInv, TypeOK, Procedures
<1>2. ASSUME NEW q \in Procs PROVE HandlerOK(procs'[q], row', groups', granted')
  <2>1. HandlerOK(procs[q], row, groups, granted) /\ procs[q] \in Procedures
    BY <1>1 DEF IInv
  <2> QED BY <2>1, StillOK
<1> QED BY <1>1, <1>2 DEF HandlersOK

LEMMA StandStill ==
  ASSUME UNCHANGED <<row, groups>>, granted \subseteq granted'
  PROVE  Grows
BY DEF Grows

\* A handler that returns.
LEMMA Returned ==
  ASSUME IInv, Grows, NEW p \in Procs, Return(p)
  PROVE  procs' \in [Procs -> Procedures] /\ HandlersOK'
<1>1. Idle \in Procedures /\ HandlerOK(Idle, row', groups', granted')
  BY DEF Procedures, HandlerOK, Idle
<1> QED BY <1>1, Frame DEF Return

\* The handler at p, when it is neither idle nor between two requests.
LEMMA Busy ==
  ASSUME IInv, NEW p \in Procs, procs[p].pc \notin {"idle", "pick"}
  PROVE  procs[p] \in Handler /\ HandlerOK(procs[p], row, groups, granted)
<1>1. procs[p] \in Procedures
  BY DEF IInv, TypeOK, Procedures
<1> QED BY <1>1 DEF IInv, Procedures, Tick, Idle

\* ... and when it goes on to another step, of which it knows enough.
LEMMA WentTo ==
  ASSUME IInv, Grows, NEW p \in Procs, procs[p].pc \notin {"idle", "pick"},
         NEW pc \in {"update", "groups", "create", "record"}, Goto(p, pc),
         procs[p].op \notin {"add", "remove"},
         pc # "update" => procs[p].op # "deny",
         pc = "create" => procs[p].op = "approve"
  PROVE  procs' \in [Procs -> Procedures] /\ HandlersOK'
<1> DEFINE c == [procs[p] EXCEPT !.pc = pc]
<1>1. procs[p] \in Handler /\ HandlerOK(procs[p], row, groups, granted)
  BY Busy
<1>2. HandlerOK(procs[p], row', groups', granted')
  BY <1>1, StillOK DEF Procedures
<1>3. c \in Handler
  BY <1>1 DEF Handler
<1>4. HandlerOK(c, row', groups', granted')
  BY <1>1, <1>2 DEF HandlerOK, Handler
<1>5. procs' = [procs EXCEPT ![p] = c]
  BY DEF Goto
<1> HIDE DEF c
<1> QED BY <1>3, <1>4, <1>5, Frame DEF Procedures

----------------------------------------------------------------------------
(* What IInv needs to know of the rest of the state.                       *)

Others ==
  /\ row \in [Requests -> AccessRequest \union {Absent}]
  /\ groups \in Seq(Group) /\ now \in 0..MaxTime
  /\ granted \subseteq Users \X Roles
  /\ standing \subseteq Users \X Nat
  /\ withheld \subseteq Users \X Roles
  /\ MembersWereGranted

LEMMA Parts == IInv <=> Others /\ procs \in [Procs -> Procedures] /\ HandlersOK
BY DEF IInv, TypeOK, Others, HandlersOK, Procedures

LEMMA PartsNext ==
  ASSUME Others', procs' \in [Procs -> Procedures], HandlersOK'
  PROVE  IInv'
BY DEF IInv, TypeOK, Others, HandlersOK, Procedures

\* Nothing in Others mentions procs; more grants never hurt.
LEMMA OthersSame ==
  ASSUME Others, UNCHANGED <<row, groups, now, standing>>,
         granted \subseteq granted', granted' \subseteq Users \X Roles,
         withheld' \subseteq Users \X Roles
  PROVE  Others'
BY DEF Others, MembersWereGranted

\* A group is added at the end, empty.
LEMMA GroupAppended ==
  ASSUME Others, NEW role \in Roles,
         groups' = Append(groups, [name |-> role, members |-> {}]),
         UNCHANGED <<row, now, history>>
  PROVE  Others' /\ Grows /\ Len(groups) + 1 \in DOMAIN groups'
         /\ groups'[Len(groups) + 1].name = role
<1>1. [name |-> role, members |-> {}] \in Group
  BY DEF Group
<1>2. groups \in Seq(Group)
  BY DEF Others
<1>3. /\ groups' \in Seq(Group) /\ DOMAIN groups' = 1..(Len(groups) + 1)
      /\ DOMAIN groups = 1..Len(groups) /\ Len(groups) \in Nat
      /\ \A g \in 1..Len(groups) : groups'[g] = groups[g]
      /\ groups'[Len(groups) + 1] = [name |-> role, members |-> {}]
  BY <1>1, <1>2
<1>4. MembersWereGranted'
  <2> SUFFICES ASSUME NEW g \in DOMAIN groups', NEW who \in groups'[g].members
               PROVE  <<who, groups'[g].name>> \in granted
    BY DEF MembersWereGranted, history
  <2>1. g \in 1..Len(groups)
    BY <1>3
  <2> QED BY <2>1, <1>3 DEF Others, MembersWereGranted
<1>5. Grows
  BY <1>3 DEF Grows, history
<1> QED BY <1>3, <1>4, <1>5 DEF Others, history

\* The members of the group c.gid become Changed(...) of a list that names only
\* people who were granted the role.
LEMMA GroupWritten ==
  ASSUME IInv, NEW c \in Handler, NEW list,
         HandlerOK(c, row, groups, granted), c.pc \in {"member", "read", "patch"},
         list \subseteq Users, \A w \in list : <<w, c.role>> \in granted,
         groups' = [groups EXCEPT ![c.gid].members = Changed(c.op, list, c.who)],
         UNCHANGED <<row, now, granted>>
  PROVE  groups' \in Seq(Group) /\ MembersWereGranted' /\ Grows
<1> DEFINE new == Changed(c.op, list, c.who)
<1>1. /\ c.gid \in DOMAIN groups /\ groups[c.gid].name = c.role
      /\ c.op \in {"approve", "expire", "add", "remove"}
      /\ c.op \in {"approve", "add"} => <<c.who, c.role>> \in granted
      /\ c.who \in Users
  BY DEF HandlerOK, Handler
<1>2. new \subseteq Users /\ \A w \in new : <<w, c.role>> \in granted
  BY <1>1 DEF Changed, Removes
<1>3. groups \in Seq(Group) /\ MembersWereGranted
  BY DEF IInv, TypeOK
<1>4. groups' = [groups EXCEPT ![c.gid].members = new]
  OBVIOUS
<1> HIDE DEF new
<1>5. groups[c.gid] \in Group
  BY <1>1, <1>3
<1>6. [groups[c.gid] EXCEPT !.members = new] \in Group
  BY <1>2, <1>5 DEF Group
<1>7. /\ groups' \in Seq(Group) /\ DOMAIN groups' = DOMAIN groups
      /\ \A g \in DOMAIN groups : g # c.gid => groups'[g] = groups[g]
      /\ groups'[c.gid] = [groups[c.gid] EXCEPT !.members = new]
  BY <1>1, <1>3, <1>4, <1>6
<1>8. groups'[c.gid].name = c.role /\ groups'[c.gid].members = new
  BY <1>1, <1>7, <1>5 DEF Group
<1>9. MembersWereGranted'
  <2> SUFFICES ASSUME NEW g \in DOMAIN groups, NEW who \in groups'[g].members
               PROVE  <<who, groups'[g].name>> \in granted
    BY <1>7 DEF MembersWereGranted
  <2>1. CASE g = c.gid
    BY <2>1, <1>2, <1>8
  <2>2. CASE g # c.gid
    BY <2>2, <1>3, <1>7 DEF MembersWereGranted
  <2> QED BY <2>1, <2>2
<1>10. Grows
  BY <1>1, <1>7, <1>8 DEF Grows
<1> QED BY <1>7, <1>9, <1>10

----------------------------------------------------------------------------
(* A handler begins.                                                       *)

LEMMA Begun ==
  ASSUME IInv, Grows, NEW p \in Procs,
         NEW pc \in {"update", "groups", "member", "read"},
         NEW op \in {"approve", "deny", "expire", "add", "remove"},
         NEW r \in Requests \union {Direct}, NEW who \in Users, NEW role \in Roles,
         NEW gid \in Nat, NEW todo \in SUBSET Requests,
         Begin(p, pc, op, r, who, role, gid, todo),
         \A t \in todo : row'[t] # Absent,
         op \in {"approve", "deny", "expire"} => r \in Requests /\ row'[r] # Absent,
         op \in {"approve", "add"} => <<who, role>> \in granted',
         op \in {"add", "remove"} <=> pc \in {"member", "read"},
         op = "deny" => pc = "update",
         pc \in {"member", "read"} => gid \in DOMAIN groups' /\ groups'[gid].name = role
  PROVE  procs' \in [Procs -> Procedures] /\ HandlersOK'
<1> DEFINE c == [pc |-> pc, op |-> op, req |-> r, who |-> who, role |-> role,
                 gid |-> gid, seen |-> {}, todo |-> todo]
<1>1. c \in Handler
  BY DEF Handler
<1>2. HandlerOK(c, row', groups', granted')
  BY DEF HandlerOK
<1>3. procs' = [procs EXCEPT ![p] = c]
  BY DEF Begin
<1> HIDE DEF c
<1> QED BY <1>1, <1>2, <1>3, Frame DEF Procedures

LEMMA StartStep ==
  ASSUME IInv, NEW p \in Procs, Start(p)
  PROVE  IInv'
<1>1. ASSUME NEW r \in Requests, NEW op \in {"approve", "deny"},
             DecideAccessRequest(p, r, op)
      PROVE  IInv'
  <2>1. row[r] \in AccessRequest /\ row[r].who \in Users /\ row[r].role \in Roles
    BY <1>1 DEF IInv, TypeOK, DecideAccessRequest, AccessRequest
  <2>2. /\ granted \subseteq granted' /\ granted' \subseteq Users \X Roles
        /\ op = "approve" => <<row[r].who, row[r].role>> \in granted'
        /\ UNCHANGED <<row, groups, now, standing, withheld>>
    BY <1>1, <2>1 DEF DecideAccessRequest, IInv, TypeOK
  <2>3. Others'
    BY <2>2, OthersSame, Parts DEF Others
  <2>4. Grows
    BY <2>2, StandStill
  <2>5. Begin(p, "update", op, r, row[r].who, row[r].role, 0, {}) /\ row'[r] # Absent
    BY <1>1 DEF DecideAccessRequest
  <2>6. procs' \in [Procs -> Procedures] /\ HandlersOK'
    BY <2>1, <2>2, <2>4, <2>5, Begun
  <2> QED BY <2>3, <2>6, PartsNext
<1>2. CASE TickAccessExpiry(p)
  <2> DEFINE due == {r \in Requests : row[r].status = "approved" /\ row[r].until # Never}
             c == [pc |-> "pick", op |-> "expire", todo |-> due]
  <2>1. UNCHANGED <<row, groups, now, granted, standing, withheld>>
    BY <1>2 DEF TickAccessExpiry, history
  <2>2. Others' /\ Grows
    BY <2>1, OthersSame, Parts, StandStill DEF Others
  <2>3. c \in Tick
    BY DEF Tick
  <2>4. HandlerOK(c, row', groups', granted')
    BY <2>1 DEF HandlerOK, Absent
  <2>5. procs' = [procs EXCEPT ![p] = c]
    BY <1>2 DEF TickAccessExpiry
  <2> HIDE DEF c
  <2>6. procs' \in [Procs -> Procedures] /\ HandlersOK'
    BY <2>2, <2>3, <2>4, <2>5, Frame DEF Procedures
  <2> QED BY <2>2, <2>6, PartsNext
<1>3. ASSUME NEW op \in {"add", "remove"}, NEW who \in Users, NEW g \in DOMAIN groups,
             GroupMemberCall(p, op, who, g)
      PROVE  IInv'
  <2>1. groups[g].name \in Roles /\ g \in Nat
    <3>1. groups \in Seq(Group)
      BY DEF IInv, TypeOK
    <3>2. groups[g] \in Group /\ g \in 1..Len(groups)
      BY <3>1
    <3> QED BY <3>1, <3>2 DEF Group
  <2>2. /\ granted \subseteq granted' /\ granted' \subseteq Users \X Roles
        /\ op = "add" => <<who, groups[g].name>> \in granted'
        /\ UNCHANGED <<row, groups, now, standing, withheld>>
    BY <1>3, <2>1 DEF GroupMemberCall, IInv, TypeOK
  <2>3. Others' /\ Grows
    BY <2>2, OthersSame, Parts, StandStill DEF Others
  <2>4. Begin(p, ToMember, op, Direct, who, groups[g].name, g, {})
        /\ ToMember \in {"member", "read"}
    BY <1>3 DEF GroupMemberCall, ToMember
  <2>5. procs' \in [Procs -> Procedures] /\ HandlersOK'
    BY <2>1, <2>2, <2>3, <2>4, Begun
  <2> QED BY <2>3, <2>5, PartsNext
<1> QED BY <1>1, <1>2, <1>3 DEF Start

----------------------------------------------------------------------------
(* A handler goes on.                                                      *)

\* A step that changes procs only, and one that changes withheld with it.
LEMMA OnlyProcs ==
  ASSUME IInv, UNCHANGED <<row, groups, now, granted, standing>>,
         withheld' \subseteq Users \X Roles
  PROVE  Others' /\ Grows
<1>1. Others /\ granted \subseteq Users \X Roles
  BY Parts DEF Others
<1> QED BY <1>1, OthersSame, StandStill

LEMMA PickStep ==
  ASSUME IInv, NEW p \in Procs, NEW r \in Requests, Pick(p, r)
  PROVE  IInv'
<1> DEFINE left == procs[p].todo \ {r}
           c == [procs[p] EXCEPT !.todo = left]
<1>1. Others' /\ Grows
  BY OnlyProcs DEF Pick, history, IInv, TypeOK
<1>2. procs[p] \in Tick /\ HandlerOK(procs[p], row, groups, granted)
  BY DEF Pick, At, IInv, TypeOK, Handler, Idle
<1>3. left \in SUBSET Requests /\ \A t \in left : row'[t] # Absent
  BY <1>2 DEF Tick, HandlerOK, Pick
<1>4. row[r] # Absent
  BY <1>2 DEF Tick, HandlerOK, Pick
<1>5. row'[r] # Absent
  BY <1>4 DEF Pick
<1>6. row[r].who \in Users /\ row[r].role \in Roles
  BY <1>4 DEF IInv, TypeOK, AccessRequest
<1>7. CASE row[r].until <= now
  <2>1. Begin(p, "groups", "expire", r, row[r].who, row[r].role, 0, left)
    BY <1>7 DEF Pick
  <2> HIDE DEF left
  <2>2. procs' \in [Procs -> Procedures] /\ HandlersOK'
    BY <2>1, <1>1, <1>3, <1>5, <1>6, Begun
  <2> QED BY <1>1, <2>2, PartsNext
<1>8. CASE ~(row[r].until <= now)
  <2>1. procs' = [procs EXCEPT ![p] = c]
    BY <1>8 DEF Pick
  <2>2. c \in Tick /\ c.pc = "pick"
    BY <1>2, <1>3 DEF Tick
  <2>3. HandlerOK(c, row', groups', granted')
    BY <1>2, <1>3, <2>2 DEF HandlerOK, Tick
  <2> HIDE DEF c
  <2>4. procs' \in [Procs -> Procedures] /\ HandlersOK'
    BY <2>1, <2>2, <2>3, <1>1, Frame DEF Procedures
  <2> QED BY <1>1, <2>4, PartsNext
<1> QED BY <1>7, <1>8

LEMMA UpdateStep ==
  ASSUME IInv, NEW p \in Procs, UpdateAccessRequest(p)
  PROVE  IInv'
<1> DEFINE c == procs[p]
           left == {<<c.who, g>> : g \in
                     {h \in GroupNamed(c.role) : c.who \in groups[h].members}}
<1>1. c \in Handler /\ HandlerOK(c, row, groups, granted) /\ c.pc = "update"
  BY Busy DEF UpdateAccessRequest, At
<1>2. /\ c.req \in Requests /\ row[c.req] \in AccessRequest
      /\ c.op \in {"approve", "deny", "expire"} /\ c.who \in Users
  BY <1>1 DEF HandlerOK, Handler, IInv, TypeOK
<1>3. [row[c.req] EXCEPT !.status = StatusOf(c.op)] \in AccessRequest
  BY <1>2 DEF AccessRequest, StatusOf, Statuses
<1>4. row' \in [Requests -> AccessRequest \union {Absent}]
      /\ \A r \in Requests : row[r] # Absent => row'[r] # Absent
  <2>1. row' = [row EXCEPT ![c.req] = [row[c.req] EXCEPT !.status = StatusOf(c.op)]]
    BY DEF UpdateAccessRequest
  <2>2. [row[c.req] EXCEPT !.status = StatusOf(c.op)] # Absent
    BY <1>3 DEF AccessRequest, Absent, Statuses
  <2> QED BY <1>2, <1>3, <2>1, <2>2 DEF IInv, TypeOK
<1>5. left \subseteq Users \X Nat
  <2>1. DOMAIN groups \subseteq Nat
    BY DEF IInv, TypeOK
  <2> QED BY <1>2, <2>1 DEF GroupNamed
<1>6. standing' \subseteq Users \X Nat
  BY <1>5 DEF UpdateAccessRequest, IInv, TypeOK
<1>7. UNCHANGED <<groups, now, granted, withheld>>
  BY DEF UpdateAccessRequest
<1>8. Others' /\ Grows
  BY <1>4, <1>6, <1>7 DEF Others, Grows, IInv, TypeOK, MembersWereGranted
<1>9. procs' \in [Procs -> Procedures] /\ HandlersOK'
  <2>1. CASE c.op = "deny"
    BY <2>1, <1>8, Returned DEF UpdateAccessRequest, AfterUpdate
  <2>2. CASE c.op \in {"approve", "expire"}
    <3>1. Goto(p, AfterUpdate(c.op)) /\ AfterUpdate(c.op) \in {"groups", "record"}
      BY <2>2 DEF UpdateAccessRequest, AfterUpdate
    <3> QED BY <2>2, <3>1, <1>1, <1>8, WentTo
  <2> QED BY <2>1, <2>2, <1>2
<1> QED BY <1>8, <1>9, PartsNext

\* A handler that has found its group.
LEMMA FoundGroup ==
  ASSUME IInv, Grows, NEW p \in Procs, procs[p].pc \in {"groups", "create"},
         procs[p].op \in {"approve", "expire"}, NEW g \in Nat,
         g \in DOMAIN groups', groups'[g].name = procs[p].role,
         procs' = [procs EXCEPT ![p].pc = ToMember, ![p].gid = g]
  PROVE  procs' \in [Procs -> Procedures] /\ HandlersOK'
<1> DEFINE c == [procs[p] EXCEPT !.pc = ToMember, !.gid = g]
<1>1. procs[p] \in Handler /\ HandlerOK(procs[p], row, groups, granted)
  BY Busy
<1>2. HandlerOK(procs[p], row', groups', granted')
  BY <1>1, StillOK DEF Procedures
<1>3. ToMember \in {"member", "read"}
  BY DEF ToMember
<1>4. c \in Handler
  BY <1>1, <1>3 DEF Handler
<1>5. HandlerOK(c, row', groups', granted')
  BY <1>1, <1>2, <1>3 DEF HandlerOK, Handler
<1>6. procs' = [procs EXCEPT ![p] = c]
  OBVIOUS
<1> HIDE DEF c
<1> QED BY <1>4, <1>5, <1>6, Frame DEF Procedures

LEMMA ListStep ==
  ASSUME IInv, NEW p \in Procs, ListGroups(p)
  PROVE  IInv'
<1> DEFINE c == procs[p]
<1>1. c \in Handler /\ HandlerOK(c, row, groups, granted) /\ c.pc = "groups"
  BY Busy DEF ListGroups, At
<1>2. c.op \in {"approve", "expire"}
  BY <1>1 DEF HandlerOK, Handler
<1>3. UNCHANGED <<row, groups, now, granted, standing, withheld>>
  BY DEF ListGroups, history
<1>4. Others' /\ Grows
  BY <1>3, OnlyProcs DEF IInv, TypeOK
<1>5. ASSUME NEW g \in GroupNamed(c.role),
             procs' = [procs EXCEPT ![p].pc = ToMember, ![p].gid = g]
      PROVE  IInv'
  <2>1. g \in DOMAIN groups /\ groups[g].name = c.role
    BY <1>5 DEF GroupNamed
  <2>2. g \in Nat
    BY <2>1 DEF IInv, TypeOK
  <2>3. procs' \in [Procs -> Procedures] /\ HandlersOK'
    BY <1>1, <1>2, <1>3, <1>4, <1>5, <2>1, <2>2, FoundGroup
  <2> QED BY <1>4, <2>3, PartsNext
<1>6. CASE Goto(p, NoGroup(c.op))
  <2>1. /\ NoGroup(c.op) \in {"update", "create"}
        /\ NoGroup(c.op) = "create" => c.op = "approve"
    BY <1>2 DEF NoGroup
  <2>2. procs' \in [Procs -> Procedures] /\ HandlersOK'
    BY <1>1, <1>2, <1>4, <1>6, <2>1, WentTo
  <2> QED BY <1>4, <2>2, PartsNext
<1>7. NoGroup(c.op) # "idle"
  BY DEF NoGroup
<1> QED BY <1>5, <1>6, <1>7 DEF ListGroups

LEMMA CreateStep ==
  ASSUME IInv, NEW p \in Procs, CreateGroup(p)
  PROVE  IInv'
<1> DEFINE c == procs[p]
<1>1. c \in Handler /\ HandlerOK(c, row, groups, granted) /\ c.pc = "create"
  BY Busy DEF CreateGroup, At
<1>2. c.op = "approve" /\ c.role \in Roles
  BY <1>1 DEF HandlerOK, Handler
<1>3. UNCHANGED <<row, now, history>>
  BY DEF CreateGroup
<1>4. CASE Return(p) /\ UNCHANGED groups
  <2>1. Others' /\ Grows
    BY <1>3, <1>4, OnlyProcs DEF IInv, TypeOK, history
  <2> QED BY <1>4, <2>1, Returned, PartsNext
<1>5. CASE /\ groups' = Append(groups, [name |-> c.role, members |-> {}])
           /\ procs' = [procs EXCEPT ![p].pc = ToMember, ![p].gid = Len(groups) + 1]
  <2>1. /\ Others' /\ Grows /\ Len(groups) + 1 \in DOMAIN groups'
        /\ groups'[Len(groups) + 1].name = c.role
    BY <1>2, <1>3, <1>5, Parts, GroupAppended
  <2>2. Len(groups) + 1 \in Nat
    BY DEF IInv, TypeOK
  <2>3. procs' \in [Procs -> Procedures] /\ HandlersOK'
    BY <1>1, <1>2, <1>5, <2>1, <2>2, FoundGroup
  <2> QED BY <2>1, <2>3, PartsNext
<1> QED BY <1>4, <1>5 DEF CreateGroup

\* The write at the end of a change, of a list the history covers.
LEMMA WriteStep ==
  ASSUME IInv, NEW p \in Procs, procs[p].pc \in {"member", "patch"}, NEW list,
         list \subseteq Users, \A w \in list : <<w, procs[p].role>> \in granted,
         Write(p, Changed(procs[p].op, list, procs[p].who))
  PROVE  IInv'
<1> DEFINE c == procs[p]
<1>1. c \in Handler /\ HandlerOK(c, row, groups, granted)
  BY Busy
<1>2. c.who \in Users /\ c.role \in Roles /\ c.gid \in Nat
      /\ c.op \in {"approve", "expire", "add", "remove"}
  BY <1>1 DEF HandlerOK, Handler
<1>3. UNCHANGED <<row, now, granted>>
      /\ groups' = [groups EXCEPT ![c.gid].members = Changed(c.op, list, c.who)]
  BY DEF Write
<1>4. groups' \in Seq(Group) /\ MembersWereGranted' /\ Grows
  BY <1>1, <1>3, GroupWritten
<1>5. standing' \subseteq Users \X Nat /\ withheld' \subseteq Users \X Roles
  BY <1>2 DEF Write, IInv, TypeOK
<1>6. Others'
  BY <1>3, <1>4, <1>5 DEF Others, IInv, TypeOK
<1>7. procs' \in [Procs -> Procedures] /\ HandlersOK'
  <2>1. CASE c.op = "expire"
    <3>1. Goto(p, "update")
      BY <2>1 DEF Write, AfterMember
    <3> QED BY <2>1, <3>1, <1>1, <1>4, WentTo
  <2>2. CASE c.op # "expire"
    <3>1. Return(p)
      BY <2>2 DEF Write, AfterMember
    <3> QED BY <3>1, <1>4, Returned
  <2> QED BY <2>1, <2>2
<1> QED BY <1>6, <1>7, PartsNext

LEMMA MemberStep ==
  ASSUME IInv, NEW p \in Procs, ChangeMember(p) \/ ReadMembers(p) \/ PatchMembers(p)
  PROVE  IInv'
<1> DEFINE c == procs[p]
<1>1. /\ c \in Handler /\ HandlerOK(c, row, groups, granted)
      /\ c.pc \in {"member", "read", "patch"}
  BY Busy DEF ChangeMember, ReadMembers, PatchMembers, At
<1>2. c.gid \in DOMAIN groups /\ groups[c.gid].name = c.role
  BY <1>1 DEF HandlerOK
<1> DEFINE members == groups[c.gid].members
<1>3. members \subseteq Users /\ \A w \in members : <<w, c.role>> \in granted
  <2>1. groups[c.gid] \in Group
    BY <1>2 DEF IInv, TypeOK
  <2> QED BY <1>2, <2>1 DEF IInv, MembersWereGranted, Group
<1>4. CASE ChangeMember(p)
  BY <1>3, <1>4, WriteStep DEF ChangeMember, At
<1>5. CASE PatchMembers(p)
  <2>1. c.seen \subseteq Users /\ \A w \in c.seen : <<w, c.role>> \in granted
    BY <1>1, <1>5 DEF Handler, HandlerOK, PatchMembers, At
  <2> QED BY <1>5, <2>1, WriteStep DEF PatchMembers, At
<1>6. CASE ReadMembers(p)
  <2> DEFINE d == [c EXCEPT !.pc = "patch", !.seen = members]
  <2>1. UNCHANGED <<row, groups, now, granted, standing, withheld>>
    BY <1>6 DEF ReadMembers, history
  <2>2. Others' /\ Grows
    BY <2>1, OnlyProcs DEF IInv, TypeOK
  <2>3. d \in Handler
    BY <1>1, <1>3 DEF Handler
  <2>4. HandlerOK(d, row', groups', granted')
    BY <1>1, <1>3, <2>1 DEF HandlerOK, Handler
  <2>5. procs' = [procs EXCEPT ![p] = d]
    BY <1>6 DEF ReadMembers
  <2> HIDE DEF d
  <2>6. procs' \in [Procs -> Procedures] /\ HandlersOK'
    BY <2>2, <2>3, <2>4, <2>5, Frame DEF Procedures
  <2> QED BY <2>2, <2>6, PartsNext
<1> QED BY <1>4, <1>5, <1>6

LEMMA RecordStep ==
  ASSUME IInv, NEW p \in Procs, Record(p) \/ PickNone(p)
  PROVE  IInv'
<1> DEFINE c == [pc |-> "pick", op |-> "expire", todo |-> procs[p].todo]
<1>1. Others' /\ Grows
  BY OnlyProcs DEF IInv, TypeOK, Record, PickNone, history
<1>2. CASE PickNone(p)
  BY <1>1, <1>2, Returned, PartsNext DEF PickNone
<1>3. CASE Record(p)
  <2>1. procs[p] \in Handler /\ HandlerOK(procs[p], row, groups, granted)
    BY <1>3, Busy DEF Record, At
  <2>2. c \in Tick
    BY <2>1 DEF Tick, Handler
  <2>3. HandlerOK(c, row', groups', granted')
    BY <1>3, <2>1 DEF HandlerOK, Record, At
  <2>4. procs' = [procs EXCEPT ![p] = c]
    BY <1>3 DEF Record
  <2> HIDE DEF c
  <2>5. procs' \in [Procs -> Procedures] /\ HandlersOK'
    BY <1>1, <2>2, <2>3, <2>4, Frame DEF Procedures
  <2> QED BY <1>1, <2>5, PartsNext
<1> QED BY <1>2, <1>3

LEMMA FailStep ==
  ASSUME IInv, NEW p \in Procs, Fail(p)
  PROVE  IInv'
<1> DEFINE c == procs[p]
<1>1. c \in Handler /\ HandlerOK(c, row, groups, granted)
  BY Busy DEF Fail, CanFail, At
<1>2. c.who \in Users /\ c.role \in Roles
  BY <1>1 DEF Handler
<1>3. withheld' \subseteq Users \X Roles
  BY <1>2 DEF Fail, IInv, TypeOK
<1>4. Others' /\ Grows
  BY <1>3, OnlyProcs DEF Fail
<1>5. CASE Return(p)
  BY <1>4, <1>5, Returned, PartsNext
<1>6. CASE /\ c.op = "expire" /\ c.pc \in {"member", "read", "patch"}
           /\ Goto(p, "update")
  <2>1. procs' \in [Procs -> Procedures] /\ HandlersOK'
    BY <1>4, <1>6, WentTo
  <2> QED BY <1>4, <2>1, PartsNext
<1> QED BY <1>5, <1>6 DEF Fail

LEMMA OutsideStep ==
  ASSUME AccessAssumption, IInv, Outside
  PROVE  IInv'
<1>1. ASSUME NEW r \in Requests, NEW who \in Users, NEW role \in Roles,
             NEW until \in 0..Never, CreateAccessRequest(r, who, role, until)
      PROVE  IInv'
  <2> DEFINE new == [status |-> "pending", who |-> who, role |-> role, until |-> until]
  <2>1. new \in AccessRequest /\ new # Absent
    BY DEF AccessRequest, Absent, Statuses
  <2>2. /\ row' = [row EXCEPT ![r] = new]
        /\ UNCHANGED <<groups, now, procs, granted, standing, withheld>>
    BY <1>1 DEF CreateAccessRequest, history
  <2> HIDE DEF new
  <2>3. Others' /\ Grows
    BY <2>1, <2>2 DEF Others, Grows, IInv, TypeOK, MembersWereGranted
  <2> QED BY <2>2, <2>3, FrameOutside, PartsNext
<1>2. ASSUME NEW role \in Roles, AdminCreateGroup(role) PROVE IInv'
  <2>1. Others' /\ Grows
    BY <1>2, Parts, GroupAppended DEF AdminCreateGroup
  <2> QED BY <1>2, <2>1, FrameOutside, PartsNext DEF AdminCreateGroup
<1>3. CASE AdvanceTime
  <2>1. UNCHANGED <<row, groups, procs, granted, standing, withheld>>
        /\ now' \in 0..MaxTime
    BY <1>3 DEF AdvanceTime, history, IInv, TypeOK, AccessAssumption
  <2>2. Others' /\ Grows
    BY <2>1 DEF Others, Grows, IInv, TypeOK, MembersWereGranted
  <2> QED BY <2>1, <2>2, FrameOutside, PartsNext
<1> QED BY <1>1, <1>2, <1>3 DEF Outside

LEMMA Step ==
  ASSUME AccessAssumption, IInv, [Next]_vars
  PROVE  IInv'
<1>1. CASE UNCHANGED vars
  BY <1>1 DEF vars, IInv, TypeOK, MembersWereGranted
<1>2. ASSUME NEW p \in Procs, Continue(p) PROVE IInv'
  BY <1>2, PickStep, UpdateStep, ListStep, CreateStep, MemberStep, RecordStep DEF Continue
<1> QED BY <1>1, <1>2, OutsideStep, StartStep, FailStep DEF Next

LEMMA Invariant == Spec => []IInv
<1> USE AccessAssumption
<1>1. Init => IInv
  BY DEF Init, IInv, TypeOK, MembersWereGranted, HandlerOK, Idle
<1>2. IInv /\ [Next]_vars => IInv'
  BY Step
<1> QED BY <1>1, <1>2, PTL DEF Spec

\* Rows, groups and handlers keep their types: a stored request is never written
\* over a hole, and a handler's group id always exists (decideAccessRequest,
\* tickAccessExpiry, addGroupMember and removeGroupMember, overlapping and failing).
THEOREM AccessTypes == Spec => []TypeOK
<1>1. IInv => TypeOK
  BY DEF IInv
<1> QED BY <1>1, Invariant, PTL

\* No order of reads and writes of whole member lists, over either engine, puts
\* anybody in a group whose role nobody entitled gave them.
THEOREM OnlyTheGranted == Spec => []MembersWereGranted
<1>1. IInv => MembersWereGranted
  BY DEF IInv
<1> QED BY <1>1, Invariant, PTL

----------------------------------------------------------------------------
(* The memory engine.  Up to record() a handler is alone, so what it found *)
(* is still so when it acts on it: the request it grants is approved, and  *)
(* the group is the first of its name, where every approval puts people    *)
(* and from which every expiry takes them.                                 *)

FirstNamed(grps, role) ==
  {g \in DOMAIN grps : grps[g].name = role /\ \A h \in 1..(g - 1) : grps[h].name # role}

KnowsOK(c, rows, grps) ==
  c.pc \notin {"idle", "pick"} =>
    /\ c.pc \notin {"read", "patch"}
    /\ c.pc = "record" => c.op = "expire"
    /\ c.op \in {"approve", "deny", "expire"} =>
         rows[c.req].who = c.who /\ rows[c.req].role = c.role
    /\ c.op = "approve" /\ c.pc # "update" => rows[c.req].status = "approved"
    /\ c.pc = "create" => FirstNamed(grps, c.role) = {}
    /\ c.pc = "member" /\ c.op \in {"approve", "expire"} => c.gid \in FirstNamed(grps, c.role)
    /\ c.pc = "update" /\ c.op = "expire" =>
         \A g \in FirstNamed(grps, c.role) : c.who \notin grps[g].members

Entitled(who, role, rows) ==
  \E r \in Requests : rows[r].status = "approved" /\ rows[r].who = who /\ rows[r].role = role

\* A membership that only requests answer for is in the first group of the name.
FirstBacked ==
  \A g \in DOMAIN groups : \A who \in groups[g].members :
    \/ <<who, g>> \in standing
    \/ g \in FirstNamed(groups, groups[g].name) /\ Entitled(who, groups[g].name, row)

Member(who, role, grps) == \E g \in DOMAIN grps : grps[g].name = role /\ who \in grps[g].members

\* An approval on its way to the group.
Granting(c, r) ==
  c.pc \in {"groups", "create", "member"} /\ c.op = "approve" /\ c.req = r

Delivered ==
  \A r \in Requests : row[r].status = "approved" =>
    \/ <<row[r].who, row[r].role>> \in withheld
    \/ Member(row[r].who, row[r].role, groups)
    \/ \E p \in Procs : Granting(procs[p], r)

MemoryInv ==
  /\ IInv /\ \A p \in Procs : KnowsOK(procs[p], row, groups)
  /\ FirstBacked /\ Delivered

\* Who asked, and for what, never changes.
Stable == \A r \in Requests : row[r] # Absent => /\ row'[r].who = row[r].who
                                                /\ row'[r].role = row[r].role

\* A step of p that changes nothing the others look at, or that p takes alone.
LEMMA KnowsFrame ==
  ASSUME Engine = "memory", MemoryInv, NEW p \in Procs, Stable,
         \A q \in Procs \ {p} : procs'[q] = procs[q],
         Turn(p) \/ UNCHANGED <<row, groups>>,
         KnowsOK(procs'[p], row', groups')
  PROVE  \A q \in Procs : KnowsOK(procs'[q], row', groups')
<1> SUFFICES ASSUME NEW q \in Procs \ {p} PROVE KnowsOK(procs[q], row', groups')
  OBVIOUS
<1>1. KnowsOK(procs[q], row, groups)
  BY DEF MemoryInv
<1>2. CASE UNCHANGED <<row, groups>>
  BY <1>1, <1>2
<1>3. CASE procs[q].pc = "record"
  <2>1. procs[q].op = "expire"
    BY <1>1, <1>3 DEF KnowsOK
  <2>2. procs[q].req \in Requests /\ row[procs[q].req] # Absent
    BY <1>3, <2>1, Busy DEF MemoryInv, HandlerOK
  <2> QED
    BY <1>1, <1>3, <2>1, <2>2 DEF KnowsOK, Stable
<1>4. CASE procs[q].pc = "idle"
  BY <1>4 DEF KnowsOK
<1> QED
  BY <1>2, <1>3, <1>4 DEF Turn

\* The same for a step outside the handlers.
LEMMA KnowsOutside ==
  ASSUME Engine = "memory", MemoryInv, Stable, UNCHANGED procs,
         Quiet \/ UNCHANGED <<row, groups>>
  PROVE  \A q \in Procs : KnowsOK(procs'[q], row', groups')
<1> SUFFICES ASSUME NEW q \in Procs PROVE KnowsOK(procs[q], row', groups')
  OBVIOUS
<1>1. KnowsOK(procs[q], row, groups)
  BY DEF MemoryInv
<1>2. CASE UNCHANGED <<row, groups>>
  BY <1>1, <1>2
<1>3. CASE procs[q].pc = "record"
  <2>1. procs[q].op = "expire"
    BY <1>1, <1>3 DEF KnowsOK
  <2>2. procs[q].req \in Requests /\ row[procs[q].req] # Absent
    BY <1>3, <2>1, Busy DEF MemoryInv, HandlerOK
  <2> QED
    BY <1>1, <1>3, <2>1, <2>2 DEF KnowsOK, Stable
<1>4. CASE procs[q].pc = "idle"
  BY <1>4 DEF KnowsOK
<1> QED
  BY <1>2, <1>3, <1>4 DEF Quiet

\* A new request, at most.
LEMMA RowsKept ==
  ASSUME \A r \in Requests : row'[r] = row[r] \/ (row[r] = Absent /\ row'[r].status = "pending")
  PROVE  /\ Stable
         /\ \A r \in Requests : row'[r].status = "approved" => row'[r] = row[r]
         /\ \A r \in Requests : row[r].status = "approved" => row'[r] = row[r]
BY DEF Stable, Absent

\* Groups keep what they had, and those that are new are last and empty.
LEMMA BackedKept ==
  ASSUME FirstBacked, standing \subseteq standing', groups \in Seq(Group),
         groups' \in Seq(Group), Len(groups) <= Len(groups'),
         \A r \in Requests : row[r].status = "approved" => row'[r] = row[r],
         \A g \in DOMAIN groups : groups'[g] = groups[g],
         \A g \in DOMAIN groups' \ DOMAIN groups : groups'[g].members = {}
  PROVE  FirstBacked'
<1> SUFFICES ASSUME NEW g \in DOMAIN groups', NEW who \in groups'[g].members
             PROVE  \/ <<who, g>> \in standing'
                    \/ g \in FirstNamed(groups', groups'[g].name)
                       /\ Entitled(who, groups'[g].name, row')
  BY DEF FirstBacked
<1>1. g \in DOMAIN groups /\ groups'[g] = groups[g]
  OBVIOUS
<1>2. CASE <<who, g>> \in standing
  BY <1>2
<1>3. CASE g \in FirstNamed(groups, groups[g].name) /\ Entitled(who, groups[g].name, row)
  <2>1. Entitled(who, groups[g].name, row')
    BY <1>1, <1>3 DEF Entitled
  <2>2. \A h \in 1..(g - 1) : h \in DOMAIN groups
    BY <1>1
  <2>3. g \in FirstNamed(groups', groups'[g].name)
    BY <1>1, <1>3, <2>2 DEF FirstNamed
  <2> QED
    BY <1>1, <2>1, <2>3
<1> QED
  BY <1>1, <1>2, <1>3 DEF FirstBacked

LEMMA DeliveredKept ==
  ASSUME Delivered, withheld \subseteq withheld',
         \A r \in Requests : row'[r].status = "approved" => row'[r] = row[r],
         \A g \in DOMAIN groups : g \in DOMAIN groups' /\ groups'[g] = groups[g],
         \A p \in Procs, r \in Requests : Granting(procs[p], r) /\ row[r].status = "approved" =>
           \/ Granting(procs'[p], r)
           \/ <<row[r].who, row[r].role>> \in withheld'
  PROVE  Delivered'
<1> SUFFICES ASSUME NEW r \in Requests, row'[r].status = "approved"
             PROVE  \/ <<row'[r].who, row'[r].role>> \in withheld'
                    \/ Member(row'[r].who, row'[r].role, groups')
                    \/ \E p \in Procs : Granting(procs'[p], r)
  BY DEF Delivered
<1>1. row'[r] = row[r] /\ row[r].status = "approved"
  OBVIOUS
<1>2. Member(row[r].who, row[r].role, groups) => Member(row'[r].who, row'[r].role, groups')
  BY <1>1 DEF Member
<1> QED
  BY <1>1, <1>2 DEF Delivered

\* A step of one handler that writes neither a row nor a group.
LEMMA HandlerMoves ==
  ASSUME Engine = "memory", MemoryInv, IInv', NEW p \in Procs,
         UNCHANGED <<row, groups, standing>>, withheld \subseteq withheld',
         \A q \in Procs \ {p} : procs'[q] = procs[q],
         KnowsOK(procs'[p], row, groups),
         \A r \in Requests : Granting(procs[p], r) /\ row[r].status = "approved" =>
           Granting(procs'[p], r) \/ <<row[r].who, row[r].role>> \in withheld'
  PROVE  MemoryInv'
<1>1. Stable
  BY DEF Stable
<1>2. KnowsOK(procs'[p], row', groups')
  OBVIOUS
<1>3. \A q \in Procs : KnowsOK(procs'[q], row', groups')
  BY <1>1, <1>2, KnowsFrame
<1>4. FirstBacked'
  <2>1. groups \in Seq(Group) /\ Len(groups) \in Nat
    BY DEF MemoryInv, IInv, TypeOK
  <2> QED
    BY <2>1, BackedKept DEF MemoryInv
<1>5. \A q \in Procs, r \in Requests : Granting(procs[q], r) /\ row[r].status = "approved" =>
        Granting(procs'[q], r) \/ <<row[r].who, row[r].role>> \in withheld'
  OBVIOUS
<1>6. Delivered'
  BY <1>5, DeliveredKept DEF MemoryInv
<1> QED
  BY <1>3, <1>4, <1>6 DEF MemoryInv


\* Whom a handler is about, and what it holds.
LEMMA Hand ==
  ASSUME MemoryInv, NEW p \in Procs, procs[p].pc \notin {"idle", "pick"}
  PROVE  /\ procs[p] \in Handler /\ HandlerOK(procs[p], row, groups, granted)
         /\ KnowsOK(procs[p], row, groups)
BY Busy DEF MemoryInv

\* An approval of r is about r's person and role.
LEMMA GrantingWhom ==
  ASSUME MemoryInv, NEW p \in Procs, NEW r \in Requests, Granting(procs[p], r)
  PROVE  procs[p].who = row[r].who /\ procs[p].role = row[r].role
BY Hand DEF Granting, KnowsOK

\* What a call starts with.
LEMMA BeginsKnowing ==
  ASSUME TypeOK, NEW p \in Procs, NEW pc \in {"update", "groups", "member"}, NEW op, NEW r,
         NEW who, NEW role, NEW gid, NEW todo, Begin(p, pc, op, r, who, role, gid, todo),
         op \in {"approve", "deny", "expire"} => row[r].who = who /\ row[r].role = role,
         op = "approve" => pc = "update",
         pc = "member" => op \in {"add", "remove"},
         op = "expire" => pc = "groups"
  PROVE  KnowsOK(procs'[p], row, groups)
<1>1. /\ procs'[p].pc = pc /\ procs'[p].op = op /\ procs'[p].req = r
      /\ procs'[p].who = who /\ procs'[p].role = role
  BY DEF Begin, TypeOK
<1> QED
  BY <1>1 DEF KnowsOK

LEMMA MemoryStart ==
  ASSUME Engine = "memory", MemoryInv, IInv', NEW p \in Procs, Start(p)
  PROVE  MemoryInv'
<1>1. /\ UNCHANGED <<row, groups, standing, withheld>> /\ procs[p].pc = "idle"
      /\ \A q \in Procs \ {p} : procs'[q] = procs[q]
  BY DEF Start, DecideAccessRequest, TickAccessExpiry, GroupMemberCall, Begin, At, history,
         MemoryInv, IInv, TypeOK
<1>2. KnowsOK(procs'[p], row, groups)
  <2>1. TypeOK
    BY DEF MemoryInv, IInv
  <2>2. ASSUME NEW r \in Requests, NEW op \in {"approve", "deny"},
               DecideAccessRequest(p, r, op)
        PROVE  KnowsOK(procs'[p], row, groups)
    BY <2>1, <2>2, BeginsKnowing DEF DecideAccessRequest
  <2>3. CASE TickAccessExpiry(p)
    BY <2>1, <2>3 DEF TickAccessExpiry, TypeOK, KnowsOK
  <2>4. ASSUME NEW op \in {"add", "remove"}, NEW who \in Users, NEW g \in DOMAIN groups,
               GroupMemberCall(p, op, who, g)
        PROVE  KnowsOK(procs'[p], row, groups)
    <3>1. Begin(p, "member", op, Direct, who, groups[g].name, g, {})
      BY <2>4 DEF GroupMemberCall, ToMember
    <3> QED
      BY <2>1, <3>1, BeginsKnowing
  <2> QED
    BY <2>2, <2>3, <2>4 DEF Start
<1>3. \A r \in Requests : ~Granting(procs[p], r)
  BY <1>1 DEF Granting
<1> QED
  BY <1>1, <1>2, <1>3, HandlerMoves

\* The steps that look, or come back.
LEMMA MemoryMoves ==
  ASSUME Engine = "memory", MemoryInv, IInv', NEW p \in Procs,
         \/ ListGroups(p) \/ Record(p) \/ PickNone(p) \/ Fail(p)
         \/ \E r \in Requests : Pick(p, r)
  PROVE  MemoryInv'
<1> DEFINE c == procs[p]
<1>1. TypeOK
  BY DEF MemoryInv, IInv
<1>2. /\ UNCHANGED <<row, groups, standing>>
      /\ \A q \in Procs \ {p} : procs'[q] = procs[q]
  BY <1>1 DEF ListGroups, Record, PickNone, Fail, Pick, Begin, Return, Goto, history, TypeOK
<1>3. CASE ListGroups(p)
  <2>1. c \in Handler /\ HandlerOK(c, row, groups, granted) /\ KnowsOK(c, row, groups)
        /\ c.pc = "groups" /\ c.op \in {"approve", "expire"} /\ UNCHANGED withheld
    BY <1>3, Hand DEF ListGroups, At, HandlerOK, Handler, history
  <2>2. GroupNamed(c.role) = FirstNamed(groups, c.role)
    BY DEF GroupNamed, FirstNamed
  <2>3. ASSUME NEW g \in GroupNamed(c.role),
               procs' = [procs EXCEPT ![p].pc = ToMember, ![p].gid = g]
        PROVE  MemoryInv'
    <3> DEFINE d == [c EXCEPT !.pc = "member", !.gid = g]
    <3>1. procs'[p] = d
      BY <1>1, <2>3 DEF TypeOK, ToMember
    <3>2. /\ d.pc = "member" /\ d.gid = g /\ d.op = c.op /\ d.req = c.req
          /\ d.who = c.who /\ d.role = c.role
      BY <2>1 DEF Handler
    <3> HIDE DEF d
    <3>3. KnowsOK(d, row, groups)
      BY <2>1, <2>2, <2>3, <3>2 DEF KnowsOK
    <3>4. \A r \in Requests : Granting(c, r) => Granting(d, r)
      BY <3>2 DEF Granting
    <3> QED
      BY <1>2, <2>1, <3>1, <3>3, <3>4, HandlerMoves
  <2>4. CASE GroupNamed(c.role) = {} /\ Goto(p, NoGroup(c.op))
    <3> DEFINE next == NoGroup(c.op)
               d == [c EXCEPT !.pc = next]
    <3>1. procs'[p] = d
      BY <1>1, <2>4 DEF TypeOK, Goto
    <3>2. /\ d.pc = next /\ d.op = c.op /\ d.req = c.req
          /\ d.who = c.who /\ d.role = c.role
      BY <2>1 DEF Handler
    <3>3. next = IF c.op = "expire" THEN "update" ELSE "create"
      BY DEF NoGroup
    <3> HIDE DEF d, next
    <3>4. KnowsOK(d, row, groups)
      BY <2>1, <2>2, <2>4, <3>2, <3>3 DEF KnowsOK
    <3>5. \A r \in Requests : Granting(c, r) => Granting(d, r)
      BY <3>2, <3>3 DEF Granting
    <3> QED
      BY <1>2, <2>1, <3>1, <3>4, <3>5, HandlerMoves
  <2>5. NoGroup(c.op) # "idle"
    BY DEF NoGroup
  <2> QED
    BY <1>3, <2>3, <2>4, <2>5 DEF ListGroups
<1>4. CASE Record(p) \/ PickNone(p) \/ \E r \in Requests : Pick(p, r)
  <2>1. KnowsOK(procs'[p], row, groups)
    <3>1. CASE Record(p) \/ PickNone(p)
      BY <1>1, <3>1 DEF Record, PickNone, Return, Idle, TypeOK, KnowsOK
    <3>2. ASSUME NEW r \in Requests, Pick(p, r) PROVE KnowsOK(procs'[p], row, groups)
      <4> DEFINE left == c.todo \ {r}
      <4>1. CASE Begin(p, "groups", "expire", r, row[r].who, row[r].role, 0, left)
        <5> HIDE DEF left
        <5> QED
          BY <1>1, <4>1, BeginsKnowing
      <4>2. CASE procs' = [procs EXCEPT ![p].todo = left]
        <5>1. c \in Tick
          BY <3>2, <1>1 DEF Pick, At, TypeOK, Handler, Idle
        <5>2. procs'[p].pc = "pick"
          BY <1>1, <4>2, <5>1 DEF TypeOK, Tick
        <5> QED
          BY <5>2 DEF KnowsOK
      <4> QED
        BY <3>2, <4>1, <4>2 DEF Pick
    <3> QED
      BY <1>4, <3>1, <3>2
  <2>2. \A r \in Requests : ~Granting(c, r)
    BY <1>4 DEF Record, PickNone, Pick, At, Granting
  <2>3. UNCHANGED withheld
    BY <1>4 DEF Record, PickNone, Pick, history
  <2> QED
    BY <1>2, <2>1, <2>2, <2>3, HandlerMoves
<1>5. CASE Fail(p)
  <2>1. /\ c \in Handler /\ KnowsOK(c, row, groups) /\ HandlerOK(c, row, groups, granted)
        /\ c.pc \in {"record", "member"} /\ withheld \subseteq withheld'
        /\ c.pc = "member" => Unknown(c.who)
    BY <1>5, Hand DEF Fail, CanFail, At
  <2>2. KnowsOK(procs'[p], row, groups)
    <3>1. CASE Return(p)
      BY <1>1, <3>1 DEF Return, Idle, TypeOK, KnowsOK
    <3>2. CASE Goto(p, "update") /\ c.op = "expire" /\ c.pc = "member"
      <4>1. /\ procs'[p].pc = "update" /\ procs'[p].op = c.op /\ procs'[p].req = c.req
            /\ procs'[p].who = c.who /\ procs'[p].role = c.role
        BY <1>1, <2>1, <3>2 DEF Goto, TypeOK, Handler
      <4>2. \A g \in FirstNamed(groups, c.role) : c.who \notin groups[g].members
        BY <2>1, <3>2 DEF Unknown, FirstNamed
      <4> QED
        BY <2>1, <3>2, <4>1, <4>2 DEF KnowsOK
    <3> QED
      BY <1>5, <2>1, <3>1, <3>2 DEF Fail
  <2>3. ASSUME NEW r \in Requests, Granting(c, r)
        PROVE  <<row[r].who, row[r].role>> \in withheld'
    <3>1. c.who = row[r].who /\ c.role = row[r].role /\ c.op = "approve"
      BY <2>3, GrantingWhom DEF Granting
    <3> QED
      BY <1>5, <3>1 DEF Fail
  <2> QED
    BY <1>2, <2>1, <2>2, <2>3, HandlerMoves
<1> QED
  BY <1>3, <1>4, <1>5


\* The steps that write.
LEMMA MemoryUpdate ==
  ASSUME Engine = "memory", MemoryInv, IInv', NEW p \in Procs, UpdateAccessRequest(p)
  PROVE  MemoryInv'
<1> DEFINE c == procs[p]
           status == StatusOf(c.op)
           next == AfterUpdate(c.op)
<1>1. TypeOK
  BY DEF MemoryInv, IInv
<1>2. /\ c \in Handler /\ HandlerOK(c, row, groups, granted) /\ KnowsOK(c, row, groups)
      /\ c.pc = "update" /\ c.op \in {"approve", "deny", "expire"}
      /\ c.req \in Requests /\ row[c.req] \in AccessRequest
      /\ row[c.req].who = c.who /\ row[c.req].role = c.role
  <2>1. /\ c \in Handler /\ HandlerOK(c, row, groups, granted) /\ KnowsOK(c, row, groups)
        /\ c.pc = "update"
    BY Hand DEF UpdateAccessRequest, At
  <2>2. c.op \in {"approve", "deny", "expire"} /\ c.req \in Requests /\ row[c.req] # Absent
    BY <2>1 DEF HandlerOK, Handler
  <2> QED
    BY <1>1, <2>1, <2>2 DEF KnowsOK, TypeOK
<1>3. /\ row' = [row EXCEPT ![c.req].status = status] /\ UNCHANGED <<groups, withheld>>
      /\ procs' = [procs EXCEPT ![p] = IF next = "idle" THEN Idle ELSE [c EXCEPT !.pc = next]]
      /\ Turn(p)
  BY DEF UpdateAccessRequest, At, Goto, Return
<1>4. status = IF c.op = "approve" THEN "approved" ELSE "denied"
  BY DEF StatusOf
<1>5. next = CASE c.op = "approve" -> "groups" [] c.op = "expire" -> "record" [] OTHER -> "idle"
  BY DEF AfterUpdate
<1> HIDE DEF status, next
<1>6. /\ \A r \in Requests \ {c.req} : row'[r] = row[r]
      /\ row'[c.req].status = status /\ row'[c.req].who = c.who /\ row'[c.req].role = c.role
  BY <1>1, <1>2, <1>3 DEF TypeOK, AccessRequest
<1>7. Stable
  BY <1>2, <1>6 DEF Stable
<1>8. /\ \A q \in Procs \ {p} : procs'[q] = procs[q]
      /\ procs'[p] = IF next = "idle" THEN Idle ELSE [c EXCEPT !.pc = next]
  BY <1>1, <1>3 DEF TypeOK
<1>9. \/ procs'[p].pc = "idle" /\ c.op = "deny"
      \/ /\ procs'[p].pc = next /\ c.op # "deny" /\ procs'[p].op = c.op
         /\ procs'[p].req = c.req /\ procs'[p].who = c.who /\ procs'[p].role = c.role
  BY <1>2, <1>5, <1>8 DEF Idle, Handler
<1>10. KnowsOK(procs'[p], row', groups')
  BY <1>2, <1>4, <1>5, <1>6, <1>9 DEF KnowsOK
<1>11. \A q \in Procs : KnowsOK(procs'[q], row', groups')
  BY <1>3, <1>7, <1>8, <1>10, KnowsFrame
<1>12. FirstBacked'
  <2> SUFFICES ASSUME NEW g \in DOMAIN groups, NEW who \in groups[g].members
               PROVE  \/ <<who, g>> \in standing'
                      \/ /\ g \in FirstNamed(groups, groups[g].name)
                         /\ Entitled(who, groups[g].name, row')
    BY <1>3 DEF FirstBacked
  <2>1. standing \subseteq standing'
    BY DEF UpdateAccessRequest
  <2>2. CASE <<who, g>> \in standing
    BY <2>1, <2>2
  <2>3. ASSUME g \in FirstNamed(groups, groups[g].name), NEW r \in Requests,
               row[r].status = "approved", row[r].who = who, row[r].role = groups[g].name
        PROVE  \/ <<who, g>> \in standing'
               \/ Entitled(who, groups[g].name, row')
    <3>1. CASE r # c.req \/ c.op = "approve"
      <4>1. row'[r].status = "approved" /\ row'[r].who = who /\ row'[r].role = groups[g].name
        BY <1>2, <1>4, <1>6, <2>3, <3>1
      <4> QED
        BY <4>1 DEF Entitled
    <3>2. CASE r = c.req /\ c.op = "expire"
      BY <1>2, <2>3, <3>2 DEF KnowsOK
    <3>3. CASE r = c.req /\ c.op = "deny"
      <4>1. g \in GroupNamed(c.role) /\ c.who \in groups[g].members
        BY <1>2, <2>3, <3>3 DEF FirstNamed, GroupNamed
      <4>2. standing' = standing \union {<<c.who, k>> : k \in
                           {h \in GroupNamed(c.role) : c.who \in groups[h].members}}
        BY <3>3 DEF UpdateAccessRequest
      <4> QED
        BY <1>2, <2>3, <3>3, <4>1, <4>2
    <3> QED
      BY <1>2, <3>1, <3>2, <3>3
  <2> QED
    BY <2>2, <2>3 DEF MemoryInv, FirstBacked, Entitled
<1>13. Delivered'
  <2> SUFFICES ASSUME NEW r \in Requests, row'[r].status = "approved"
               PROVE  \/ <<row'[r].who, row'[r].role>> \in withheld'
                      \/ Member(row'[r].who, row'[r].role, groups')
                      \/ \E q \in Procs : Granting(procs'[q], r)
    BY DEF Delivered
  <2>1. CASE r = c.req
    <3>1. c.op = "approve"
      BY <1>2, <1>4, <1>6, <2>1
    <3>2. Granting(procs'[p], r)
      BY <1>5, <1>9, <2>1, <3>1 DEF Granting
    <3> QED
      BY <3>2
  <2>2. CASE r # c.req
    <3>1. row'[r] = row[r]
      BY <1>6, <2>2
    <3>2. \A q \in Procs : Granting(procs[q], r) => Granting(procs'[q], r)
      BY <1>2, <1>8 DEF Granting
    <3>3. \/ <<row[r].who, row[r].role>> \in withheld
          \/ Member(row[r].who, row[r].role, groups)
          \/ \E q \in Procs : Granting(procs[q], r)
      BY <3>1 DEF MemoryInv, Delivered
    <3>4. groups' = groups /\ withheld' = withheld
      BY <1>3
    <3> QED
      BY <3>1, <3>2, <3>3, <3>4
  <2> QED
    BY <2>1, <2>2
<1> QED
  BY <1>11, <1>12, <1>13 DEF MemoryInv

\* Where there is a group of the name there is a first one.
LEMMA FirstExists ==
  ASSUME groups \in Seq(Group), NEW role, FirstNamed(groups, role) = {}
  PROVE  \A g \in DOMAIN groups : groups[g].name # role
<1> DEFINE S == {g \in DOMAIN groups : groups[g].name = role}
<1>1. DOMAIN groups = 1..Len(groups) /\ Len(groups) \in Nat
  OBVIOUS
<1>2. S \in SUBSET Nat
  BY <1>1
<1>3. ASSUME NEW g \in S, \A h \in S : <<h, g>> \notin OpToRel(<, Nat) PROVE FALSE
  <2>1. \A h \in S : <<h, g>> \in Nat \X Nat
    BY <1>2
  <2>2. \A h \in S : ~(h < g)
    BY <1>3, <2>1, Zenon DEF OpToRel
  <2>3. g \in DOMAIN groups /\ groups[g].name = role
    OBVIOUS
  <2>4. \A h \in 1..(g - 1) : h \in DOMAIN groups /\ h < g
    BY <1>1, <2>3
  <2>5. \A h \in 1..(g - 1) : groups[h].name # role
    BY <2>2, <2>4
  <2> QED
    BY <2>3, <2>5 DEF FirstNamed
<1>4. S = {}
  BY <1>2, <1>3, NatLessThanWellFounded, WFMin
<1> QED
  BY <1>4

\* A group that is appended has no members, and is the first of a new name.
LEMMA AppendKeeps ==
  ASSUME MemoryInv, NEW role \in Roles,
         groups' = Append(groups, [name |-> role, members |-> {}])
  PROVE  /\ groups \in Seq(Group) /\ groups' \in Seq(Group) /\ Len(groups) <= Len(groups')
         /\ \A g \in DOMAIN groups : g \in DOMAIN groups' /\ groups'[g] = groups[g]
         /\ \A g \in DOMAIN groups' \ DOMAIN groups : groups'[g].members = {}
         /\ FirstNamed(groups, role) = {} => Len(groups) + 1 \in FirstNamed(groups', role)
<1>1. groups \in Seq(Group) /\ [name |-> role, members |-> {}] \in Group
  BY DEF MemoryInv, IInv, TypeOK, Group
<1>2. /\ groups' \in Seq(Group) /\ DOMAIN groups' = 1..(Len(groups) + 1)
      /\ DOMAIN groups = 1..Len(groups) /\ Len(groups) \in Nat /\ Len(groups') = Len(groups) + 1
      /\ \A g \in 1..Len(groups) : groups'[g] = groups[g]
      /\ groups'[Len(groups) + 1] = [name |-> role, members |-> {}]
  BY <1>1
<1>3. (\A g \in DOMAIN groups : groups[g].name # role) =>
         Len(groups) + 1 \in FirstNamed(groups', role)
  BY <1>2 DEF FirstNamed
<1> QED
  BY <1>1, <1>2, <1>3, FirstExists

LEMMA MemoryCreate ==
  ASSUME Engine = "memory", MemoryInv, IInv', NEW p \in Procs, CreateGroup(p)
  PROVE  MemoryInv'
<1> DEFINE c == procs[p]
           new == Len(groups) + 1
           d == [c EXCEPT !.pc = "member", !.gid = new]
<1>1. TypeOK
  BY DEF MemoryInv, IInv
<1>2. /\ c \in Handler /\ HandlerOK(c, row, groups, granted) /\ KnowsOK(c, row, groups)
      /\ c.pc = "create" /\ c.op = "approve" /\ c.role \in Roles /\ Turn(p)
  BY Hand DEF CreateGroup, At, HandlerOK, Handler
<1>3. /\ groups' = Append(groups, [name |-> c.role, members |-> {}])
      /\ procs' = [procs EXCEPT ![p].pc = ToMember, ![p].gid = new]
      /\ UNCHANGED <<row, standing, withheld>>
  BY DEF CreateGroup, history
<1>4. procs'[p] = d /\ \A q \in Procs \ {p} : procs'[q] = procs[q]
  BY <1>1, <1>3 DEF TypeOK, ToMember
<1>5. /\ d.pc = "member" /\ d.gid = new /\ d.op = c.op /\ d.req = c.req
      /\ d.who = c.who /\ d.role = c.role
  BY <1>2 DEF Handler
<1> HIDE DEF d
<1>6. KnowsOK(procs'[p], row', groups')
  <2>1. new \in FirstNamed(groups', c.role)
    BY <1>2, <1>3, AppendKeeps DEF KnowsOK
  <2> HIDE DEF new
  <2> QED
    BY <1>2, <1>3, <1>4, <1>5, <2>1 DEF KnowsOK
<1>7. \A q \in Procs : KnowsOK(procs'[q], row', groups')
  <2>1. Stable
    BY <1>3 DEF Stable
  <2> QED
    BY <1>2, <1>4, <1>6, <2>1, KnowsFrame
<1>8. FirstBacked'
  BY <1>2, <1>3, AppendKeeps, BackedKept DEF MemoryInv
<1>9. Delivered'
  <2>1. \A q \in Procs, r \in Requests : Granting(procs[q], r) => Granting(procs'[q], r)
    BY <1>4, <1>5 DEF Granting
  <2> QED
    BY <1>2, <1>3, <2>1, AppendKeeps, DeliveredKept DEF MemoryInv
<1> QED
  BY <1>7, <1>8, <1>9 DEF MemoryInv

LEMMA MemoryOutside ==
  ASSUME Engine = "memory", MemoryInv, IInv', Outside
  PROVE  MemoryInv'
<1>1. TypeOK
  BY DEF MemoryInv, IInv
<1>2. ASSUME \A r \in Requests : row'[r] = row[r] \/ (row[r] = Absent /\ row'[r].status = "pending"),
             UNCHANGED <<groups, procs, standing, withheld>>, Quiet \/ UNCHANGED row
      PROVE  MemoryInv'
  <2>1. /\ Stable
        /\ \A r \in Requests : row'[r].status = "approved" => row'[r] = row[r]
        /\ \A r \in Requests : row[r].status = "approved" => row'[r] = row[r]
    BY <1>2, RowsKept
  <2>2. \A q \in Procs : KnowsOK(procs'[q], row', groups')
    BY <1>2, <2>1, KnowsOutside
  <2>3. groups \in Seq(Group) /\ Len(groups) \in Nat
    BY <1>1 DEF TypeOK
  <2>4. FirstBacked'
    BY <1>2, <2>1, <2>3, BackedKept DEF MemoryInv
  <2>5. Delivered'
    BY <1>2, <2>1, DeliveredKept DEF MemoryInv
  <2> QED
    BY <2>2, <2>4, <2>5 DEF MemoryInv
<1>3. ASSUME NEW r \in Requests, NEW who \in Users, NEW role \in Roles,
             NEW until \in 0..Never, CreateAccessRequest(r, who, role, until)
      PROVE  MemoryInv'
  <2>1. \A q \in Requests : row'[q] = row[q] \/ (row[q] = Absent /\ row'[q].status = "pending")
    BY <1>1, <1>3 DEF CreateAccessRequest, TypeOK
  <2> QED
    BY <1>2, <1>3, <2>1 DEF CreateAccessRequest, history
<1>4. ASSUME NEW role \in Roles, AdminCreateGroup(role) PROVE MemoryInv'
  <2>1. /\ Quiet /\ groups' = Append(groups, [name |-> role, members |-> {}])
        /\ UNCHANGED <<row, procs, standing, withheld>> /\ Stable
    BY <1>4 DEF AdminCreateGroup, history, Stable
  <2>2. \A q \in Procs : KnowsOK(procs'[q], row', groups')
    BY <2>1, KnowsOutside
  <2>3. FirstBacked'
    BY <2>1, AppendKeeps, BackedKept DEF MemoryInv
  <2>4. Delivered'
    BY <2>1, AppendKeeps, DeliveredKept DEF MemoryInv
  <2> QED
    BY <2>2, <2>3, <2>4 DEF MemoryInv
<1>5. CASE AdvanceTime
  BY <1>2, <1>5 DEF AdvanceTime, history
<1> QED
  BY <1>3, <1>4, <1>5 DEF Outside

\* There is at most one first group of a name.
LEMMA OneFirst ==
  ASSUME groups \in Seq(Group), NEW role,
         NEW g \in FirstNamed(groups, role), NEW h \in FirstNamed(groups, role)
  PROVE  g = h
<1>1. DOMAIN groups = 1..Len(groups) /\ Len(groups) \in Nat
  OBVIOUS
<1>2. /\ g \in 1..Len(groups) /\ groups[g].name = role
      /\ h \in 1..Len(groups) /\ groups[h].name = role
      /\ \A k \in 1..(g - 1) : groups[k].name # role
      /\ \A k \in 1..(h - 1) : groups[k].name # role
  BY <1>1 DEF FirstNamed
<1>3. ~(g < h) /\ ~(h < g)
  BY <1>1, <1>2
<1> QED
  BY <1>1, <1>2, <1>3

\* What the change of a member does to the groups, and what it leaves alone.
LEMMA MemberChanged ==
  ASSUME Engine = "memory", MemoryInv, NEW p \in Procs, ChangeMember(p), NEW c, c = procs[p]
  PROVE  /\ c \in Handler /\ HandlerOK(c, row, groups, granted) /\ KnowsOK(c, row, groups)
         /\ c.pc = "member" /\ c.op \in {"approve", "expire", "add", "remove"} /\ Turn(p)
         /\ c.gid \in DOMAIN groups /\ groups[c.gid].name = c.role
         /\ DOMAIN groups' = DOMAIN groups
         /\ \A g \in DOMAIN groups : groups'[g].name = groups[g].name
         /\ \A g \in DOMAIN groups \ {c.gid} : groups'[g].members = groups[g].members
         /\ groups'[c.gid].members = Changed(c.op, groups[c.gid].members, c.who)
         /\ \A role : FirstNamed(groups', role) = FirstNamed(groups, role)
<1>1. TypeOK
  BY DEF MemoryInv, IInv
<1>2. /\ c \in Handler /\ HandlerOK(c, row, groups, granted) /\ KnowsOK(c, row, groups)
      /\ c.pc = "member" /\ Turn(p)
  BY Hand DEF ChangeMember, At
<1>3. /\ c.gid \in DOMAIN groups /\ groups[c.gid].name = c.role
      /\ c.op \in {"approve", "expire", "add", "remove"}
  BY <1>2 DEF HandlerOK, Handler
<1> DEFINE new == Changed(c.op, groups[c.gid].members, c.who)
<1>4. groups' = [groups EXCEPT ![c.gid].members = new]
  BY DEF ChangeMember, Write
<1>5. groups \in Seq(Group) /\ groups[c.gid] \in Group
  BY <1>1, <1>3 DEF TypeOK
<1> HIDE DEF new
<1>6. /\ DOMAIN groups' = DOMAIN groups
      /\ \A g \in DOMAIN groups \ {c.gid} : groups'[g] = groups[g]
      /\ groups'[c.gid] = [groups[c.gid] EXCEPT !.members = new]
  BY <1>3, <1>4, <1>5
<1>7. groups'[c.gid].name = groups[c.gid].name /\ groups'[c.gid].members = new
  BY <1>5, <1>6 DEF Group
<1>8. \A g \in DOMAIN groups : groups'[g].name = groups[g].name
  BY <1>6, <1>7
<1>9. DOMAIN groups = 1..Len(groups) /\ Len(groups) \in Nat
  BY <1>5
<1>10. ASSUME NEW role PROVE FirstNamed(groups', role) = FirstNamed(groups, role)
  <2>1. \A g \in DOMAIN groups : \A h \in 1..(g - 1) : h \in DOMAIN groups
    BY <1>9
  <2> QED
    BY <1>6, <1>8, <2>1 DEF FirstNamed
<1>11. groups'[c.gid].members = Changed(c.op, groups[c.gid].members, c.who)
  BY <1>7 DEF new
<1> QED
  BY <1>2, <1>3, <1>6, <1>8, <1>10, <1>11

LEMMA MemoryChange ==
  ASSUME Engine = "memory", MemoryInv, IInv', NEW p \in Procs, ChangeMember(p)
  PROVE  MemoryInv'
<1>1. TypeOK
  BY DEF MemoryInv, IInv
<1>2. PICK c : c = procs[p]
  OBVIOUS
<1>3. /\ c \in Handler /\ HandlerOK(c, row, groups, granted) /\ KnowsOK(c, row, groups)
      /\ c.pc = "member" /\ c.op \in {"approve", "expire", "add", "remove"} /\ Turn(p)
      /\ c.gid \in DOMAIN groups /\ groups[c.gid].name = c.role
      /\ DOMAIN groups' = DOMAIN groups
      /\ \A g \in DOMAIN groups : groups'[g].name = groups[g].name
      /\ \A g \in DOMAIN groups \ {c.gid} : groups'[g].members = groups[g].members
      /\ groups'[c.gid].members = Changed(c.op, groups[c.gid].members, c.who)
      /\ \A role : FirstNamed(groups', role) = FirstNamed(groups, role)
  BY <1>2, MemberChanged
<1>4. /\ UNCHANGED <<row, granted>>
      /\ standing' = IF c.op = "add" THEN standing \union {<<c.who, c.gid>>}
                     ELSE IF Removes(c.op) THEN standing \ {<<c.who, c.gid>>} ELSE standing
      /\ withheld' = IF Removes(c.op) THEN withheld \union {<<c.who, c.role>>}
                     ELSE withheld \ {<<c.who, c.role>>}
      /\ IF AfterMember(c.op) = "idle" THEN Return(p) ELSE Goto(p, AfterMember(c.op))
  BY <1>2 DEF ChangeMember, Write
<1>5. /\ \A q \in Procs \ {p} : procs'[q] = procs[q]
      /\ \/ procs'[p].pc = "idle" /\ c.op # "expire"
         \/ /\ procs'[p].pc = "update" /\ c.op = "expire" /\ procs'[p].op = c.op
            /\ procs'[p].req = c.req /\ procs'[p].who = c.who /\ procs'[p].role = c.role
  BY <1>1, <1>2, <1>3, <1>4 DEF AfterMember, Return, Goto, Idle, TypeOK, Handler
<1>6. groups \in Seq(Group)
  BY <1>1 DEF TypeOK
<1>7. Removes(c.op) <=> c.op \in {"expire", "remove"}
  BY DEF Removes
<1>8. groups'[c.gid].members = IF Removes(c.op) THEN groups[c.gid].members \ {c.who}
                               ELSE groups[c.gid].members \union {c.who}
  BY <1>3 DEF Changed
<1>9. KnowsOK(procs'[p], row', groups')
  <2>1. CASE procs'[p].pc = "idle"
    BY <2>1 DEF KnowsOK
  <2>2. CASE /\ procs'[p].pc = "update" /\ c.op = "expire" /\ procs'[p].op = c.op
             /\ procs'[p].req = c.req /\ procs'[p].who = c.who /\ procs'[p].role = c.role
    <3>1. c.gid \in FirstNamed(groups, c.role)
      BY <1>3, <2>2 DEF KnowsOK
    <3>2. \A g \in FirstNamed(groups', c.role) : g = c.gid
      BY <1>3, <1>6, <3>1, OneFirst
    <3>3. \A g \in FirstNamed(groups', c.role) : c.who \notin groups'[g].members
      BY <1>7, <1>8, <2>2, <3>2
    <3>4. row[c.req].who = c.who /\ row[c.req].role = c.role
      BY <1>3, <2>2 DEF KnowsOK
    <3> QED
      BY <1>4, <2>2, <3>3, <3>4 DEF KnowsOK
  <2> QED
    BY <1>5, <2>1, <2>2
<1>10. \A q \in Procs : KnowsOK(procs'[q], row', groups')
  <2>1. Stable
    BY <1>4 DEF Stable
  <2> QED
    BY <1>3, <1>5, <1>9, <2>1, KnowsFrame
<1>11. FirstBacked'
  <2> SUFFICES ASSUME NEW g \in DOMAIN groups, NEW who \in groups'[g].members
               PROVE  \/ <<who, g>> \in standing'
                      \/ /\ g \in FirstNamed(groups, groups[g].name)
                         /\ Entitled(who, groups[g].name, row)
    BY <1>3, <1>4 DEF FirstBacked
  <2>1. CASE who \in groups[g].members /\ <<who, g>> # <<c.who, c.gid>>
    <3>1. <<who, g>> \in standing => <<who, g>> \in standing'
      BY <1>4, <2>1
    <3> QED
      BY <2>1, <3>1 DEF MemoryInv, FirstBacked
  <2>2. CASE g = c.gid /\ who = c.who
    <3>1. c.op \in {"add", "approve"}
      BY <1>3, <1>7, <1>8, <2>2
    <3>2. CASE c.op = "add"
      BY <1>4, <2>2, <3>2
    <3>3. CASE c.op = "approve"
      <4>1. /\ g \in FirstNamed(groups, c.role) /\ c.req \in Requests
            /\ row[c.req].status = "approved" /\ row[c.req].who = who
            /\ row[c.req].role = c.role
        BY <1>3, <2>2, <3>3 DEF KnowsOK, HandlerOK
      <4> QED
        BY <1>3, <2>2, <4>1 DEF Entitled
    <3> QED
      BY <3>1, <3>2, <3>3
  <2>3. who \in groups[g].members \/ (g = c.gid /\ who = c.who)
    BY <1>3, <1>8
  <2> QED
    BY <2>1, <2>2, <2>3
<1>12. Delivered'
  <2> SUFFICES ASSUME NEW r \in Requests, row[r].status = "approved"
               PROVE  \/ <<row[r].who, row[r].role>> \in withheld'
                      \/ Member(row[r].who, row[r].role, groups')
                      \/ \E q \in Procs : Granting(procs'[q], r)
    BY <1>4 DEF Delivered
  <2>1. CASE <<row[r].who, row[r].role>> = <<c.who, c.role>>
    <3>1. CASE Removes(c.op)
      BY <1>4, <2>1, <3>1
    <3>2. CASE ~Removes(c.op)
      <4>1. c.who \in groups'[c.gid].members /\ groups'[c.gid].name = c.role
        BY <1>3, <1>8, <3>2
      <4>2. Member(c.who, c.role, groups')
        BY <1>3, <4>1 DEF Member
      <4> QED
        BY <2>1, <4>2
    <3> QED
      BY <3>1, <3>2
  <2>2. CASE <<row[r].who, row[r].role>> # <<c.who, c.role>>
    <3>1. CASE <<row[r].who, row[r].role>> \in withheld
      BY <1>4, <2>2, <3>1
    <3>2. ASSUME NEW g \in DOMAIN groups, groups[g].name = row[r].role,
                 row[r].who \in groups[g].members
          PROVE  Member(row[r].who, row[r].role, groups')
      <4>1. row[r].who \in groups'[g].members
        BY <1>3, <1>8, <2>2, <3>2
      <4> QED
        BY <1>3, <3>2, <4>1 DEF Member
    <3>3. ASSUME NEW q \in Procs, Granting(procs[q], r) PROVE Granting(procs'[q], r)
      <4>1. q # p
        BY <1>2, <2>2, <3>3, GrantingWhom
      <4> QED
        BY <1>5, <3>3, <4>1
    <3> QED
      BY <3>1, <3>2, <3>3 DEF MemoryInv, Delivered, Member
  <2> QED
    BY <2>1, <2>2
<1> QED
  BY <1>10, <1>11, <1>12 DEF MemoryInv

LEMMA MemoryStep ==
  ASSUME AccessAssumption, Engine = "memory", MemoryInv, [Next]_vars
  PROVE  MemoryInv'
<1>1. IInv'
  BY Step DEF MemoryInv
<1>2. CASE UNCHANGED vars
  BY <1>1, <1>2 DEF vars, MemoryInv, FirstBacked, Delivered
<1>3. ASSUME NEW p \in Procs, Continue(p) PROVE MemoryInv'
  <2>1. ~ReadMembers(p) /\ ~PatchMembers(p)
    BY Hand DEF ReadMembers, PatchMembers, At, KnowsOK
  <2> QED
    BY <1>1, <1>3, <2>1, MemoryUpdate, MemoryMoves, MemoryCreate, MemoryChange DEF Continue
<1> QED
  BY <1>1, <1>2, <1>3, MemoryOutside, MemoryStart, MemoryMoves DEF Next

LEMMA MemoryInvariant == ASSUME Engine = "memory" PROVE Spec => []MemoryInv
<1> USE AccessAssumption
<1>1. Init => MemoryInv
  <2> SUFFICES ASSUME Init PROVE MemoryInv
    OBVIOUS
  <2>1. IInv
    BY DEF Init, IInv, TypeOK, MembersWereGranted, HandlerOK, Idle
  <2> QED
    BY <2>1 DEF Init, MemoryInv, KnowsOK, FirstBacked, Delivered, Absent, Idle
<1>2. MemoryInv /\ [Next]_vars => MemoryInv'
  BY MemoryStep
<1> QED
  BY <1>1, <1>2, PTL DEF Spec

\* Over the memory engine nobody keeps a membership no administrator gave, no late
\* denial left and no approved request accounts for, however many handlers wait
\* on their webhooks: what a request gave ends with it (decideAccessRequest,
\* tickAccessExpiry; milestone.test.ts:156, "grants and expires temporary access").
THEOREM AccessIsTemporary == ASSUME Engine = "memory" PROVE Spec => []MembershipBacked
<1>1. MemoryInv => MembershipBacked
  BY DEF MemoryInv, FirstBacked, Entitled, MembershipBacked, Backed
<1> QED
  BY <1>1, MemoryInvariant, PTL

\* ... and an approved request of which no handler is under way has its membership,
\* unless that was taken away or could not be given.
THEOREM ApprovedMeansMember == ASSUME Engine = "memory" PROVE Spec => []GrantDelivered
<1>1. MemoryInv => GrantDelivered
  BY DEF MemoryInv, Delivered, Member, Granting, GrantDelivered, InFlight
<1> QED
  BY <1>1, MemoryInvariant, PTL

=============================================================================
