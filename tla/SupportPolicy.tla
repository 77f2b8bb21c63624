--------------------------- MODULE SupportPolicy ---------------------------
(***************************************************************************)
(* What ADR 0006 promises of support access, without handlers, rows or     *)
(* clocks: request -> customer approval -> scoped session -> expiry -> later review. *)
(* A request is opened by one signature of the organisation, a break-glass *)
(* request by two people; a session is granted only for an opened request; *)
(* a closed one is reviewed and nothing reopens it.                        *)
(***************************************************************************)
CONSTANTS Requests, People

VARIABLES
  phase,     \* where each request is in the workflow
  urgent,    \* break-glass?
  signers,   \* who in the organisation has approved it
  granted    \* requests for which an operator was given a session

vars == <<phase, urgent, signers, granted>>

Init ==
  /\ phase = [r \in Requests |-> "absent"]
  /\ urgent = [r \in Requests |-> FALSE]
  /\ signers = [r \in Requests |-> {}]
  /\ granted = {}

Move(r, from, to) == phase[r] \in from /\ phase' = [phase EXCEPT ![r] = to]

Ask(r) ==
  /\ Move(r, {"absent"}, "asked")
  /\ \E u \in BOOLEAN : urgent' = [urgent EXCEPT ![r] = u]
  /\ UNCHANGED <<signers, granted>>

\* The first of two signatures: still asked, no longer refusable.
FirstSign(r, person) ==
  /\ phase[r] = "asked" /\ urgent[r] /\ signers[r] = {}
  /\ signers' = [signers EXCEPT ![r] = {person}]
  /\ UNCHANGED <<phase, urgent, granted>>

Open(r, person) ==
  /\ Move(r, {"asked"}, "open")
  /\ urgent[r] => signers[r] # {}
  /\ person \notin signers[r]
  /\ signers' = [signers EXCEPT ![r] = @ \union {person}]
  /\ UNCHANGED <<urgent, granted>>

Deny(r) ==
  /\ Move(r, {"asked"}, "denied") /\ signers[r] = {}
  /\ UNCHANGED <<urgent, signers, granted>>

Enter(r) == Move(r, {"open"}, "in_use") /\ UNCHANGED <<urgent, signers, granted>>

\* The operator gets the session once, and may get it late.
Grant(r) ==
  /\ phase[r] \in {"in_use", "closed", "reviewed"}
  /\ granted' = granted \union {r}
  /\ UNCHANGED <<phase, urgent, signers>>

Close(r) ==
  /\ Move(r, {"open", "in_use"}, "closed")
  /\ UNCHANGED <<urgent, signers, granted>>

\* Closing with the review notes at hand is one step for break-glass.
Review(r) ==
  /\ Move(r, {"closed"} \union IF urgent[r] THEN {"open", "in_use"} ELSE {}, "reviewed")
  /\ UNCHANGED <<urgent, signers, granted>>

Next == \E r \in Requests :
  \/ Ask(r) \/ Deny(r) \/ Enter(r) \/ Grant(r) \/ Close(r) \/ Review(r)
  \/ \E person \in People : FirstSign(r, person) \/ Open(r, person)

Spec == Init /\ [][Next]_vars
=============================================================================
