------------------------------ MODULE Webhooks ------------------------------
(***************************************************************************)
(* record() of packages/control-plane and the webhooks it sends: an event  *)
(* goes to the audit store, to the audit sink, and then, one endpoint      *)
(* after the other, to the endpoints of the organisation that asked for    *)
(* it.  The handler that records waits for all of this.                    *)
(*                                                                         *)
(* Events are numbered in the order they are stored, endpoints in the      *)
(* order they are created.  One organisation; another organisation's       *)
(* endpoints are not listed.                                               *)
(***************************************************************************)
EXTENDS Naturals, SequencesExt

CONSTANTS
  Calls,         \* handlers in flight
  Subscriptions, \* the sets of events that administrators create endpoints for
  MaxEvents, MaxHooks,   \* bound the events and the endpoints
  None

VARIABLES
  hooks,     \* the endpoints: what each asked for, and whether its secret opens
  stored,    \* the events of the audit store: their actions
  sunk,      \* the events the sink accepted
  delivery,  \* of each event and endpoint
  received,  \* how often an endpoint was sent an event
  ann        \* what each handler is announcing

hookVars == <<hooks, stored, sunk, delivery, received, ann>>

\* The actions that the tools record; each of them has a webhook.
AUDIT_TO_WEBHOOK ==
  [action \in {"identity.suspended", "session.revoked", "group.member.added"} |->
     CASE action = "identity.suspended" -> "user.suspended"
       [] action = "session.revoked"    -> "session.revoked"
       [] action = "group.member.added" -> "group.updated"]

AuditActions == DOMAIN AUDIT_TO_WEBHOOK
WEBHOOK_EVENTS == {AUDIT_TO_WEBHOOK[a] : a \in AuditActions}

EventIds == 1 .. MaxEvents
HookIds  == 1 .. MaxHooks

\* opens: openWebhookSecret can open the secret.  It cannot if another data key
\* sealed it, before the process was started with this one.
Endpoint == [names : Subscriptions, opens : BOOLEAN]

\* deliverOnce could reach "dead" at its fifth attempt; nothing attempts again.
Delivery == [status : {"pending", "delivered", "dead"}, attempts : 0 .. 5]

Announcement == [pc : {"sink", "next", "answer", "thrown"},
                 event : EventIds, todo : SUBSET HookIds]
Quiet == [pc |-> "quiet"]

HooksTypeOK ==
  /\ hooks \in BoundedSeq(Endpoint, MaxHooks)
  /\ stored \in BoundedSeq(AuditActions, MaxEvents)
  /\ sunk \subseteq EventIds
  /\ delivery \in [EventIds \X HookIds -> Delivery \union {None}]
  /\ received \in [EventIds \X HookIds -> 0 .. 2]
  /\ ann \in [Calls -> Announcement \union {Quiet}]

\* The store may hold endpoints from before.
HooksInit ==
  /\ hooks \in BoundedSeq(Endpoint, MaxHooks) /\ stored = << >> /\ sunk = {}
  /\ delivery = [d \in EventIds \X HookIds |-> None]
  /\ received = [d \in EventIds \X HookIds |-> 0]
  /\ ann = [c \in Calls |-> Quiet]

\* createWebhook seals the secret and inserts the endpoint.
CreateWebhook(names) ==
  /\ Len(hooks) < MaxHooks
  /\ hooks' = Append(hooks, [names |-> names, opens |-> TRUE])
  /\ UNCHANGED <<stored, sunk, delivery, received, ann>>

----------------------------------------------------------------------------
(* record().                                                               *)

Room == Len(stored) < MaxEvents

Became(c, pc) == ann' = [ann EXCEPT ![c].pc = pc]

\* The event is in the audit store.
Announce(c, action) ==
  /\ stored' = Append(stored, action)
  /\ ann' = [ann EXCEPT ![c] = [pc |-> "sink", event |-> Len(stored) + 1, todo |-> {}]]
  /\ UNCHANGED <<hooks, sunk, delivery, received>>

Wants(h, event) == AUDIT_TO_WEBHOOK[stored[event]] \in hooks[h].names

\* The endpoints there are now that asked for an event.
Listening(event) == {h \in DOMAIN hooks : Wants(h, event)}

\* They are taken in the order they were created.
Turn(c) == Min(ann[c].todo)

\* Fault: a sink that throws is ignored.
Sink_Ignored(c) ==
  /\ ann[c].pc = "sink"
  /\ \/ sunk' = sunk \union {ann[c].event}
     \/ sunk' = sunk
  /\ ann' = [ann EXCEPT ![c].pc = "next", ![c].todo = Listening(ann[c].event)]
  /\ UNCHANGED <<hooks, stored, delivery, received>>

\* The sink takes the event and dispatchWebhooks lists the endpoints; a sink that
\* throws ends record(), and the handler with it.
Sink(c) ==
  /\ ann[c].pc = "sink"
  /\ \/ /\ sunk' = sunk \union {ann[c].event}
        /\ ann' = [ann EXCEPT ![c].pc = "next", ![c].todo = Listening(ann[c].event)]
     \/ sunk' = sunk /\ Became(c, "thrown")
  /\ UNCHANGED <<hooks, stored, delivery, received>>

\* The delivery is inserted, and its request goes out once the secret is open.  A
\* secret that cannot be opened throws: the dispatch is over, which record() does
\* not mind, and the delivery stays as it is.
Post(c) ==
  /\ ann[c].pc = "next" /\ ann[c].todo # {}
  /\ delivery' = [delivery EXCEPT ![<<ann[c].event, Turn(c)>>] =
                     [status |-> "pending", attempts |-> 0]]
  /\ IF hooks[Turn(c)].opens THEN Became(c, "answer")
     ELSE ann' = [ann EXCEPT ![c].todo = {}]
  /\ UNCHANGED <<hooks, stored, sunk, received>>

\* Fault: an attempt that failed has a status of its own.
AfterAttempt_Failed(d, ok) ==
  [attempts |-> d.attempts + 1, status |-> IF ok THEN "delivered" ELSE "failed"]

\* Fault: only an attempt that was answered is written back.
AfterAttempt_OkOnly(d, ok) ==
  IF ok THEN [attempts |-> d.attempts + 1, status |-> "delivered"] ELSE d

\* What deliverOnce makes of an answer: ok, or an error or an exception.
AfterAttempt(d, ok) ==
  [attempts |-> d.attempts + 1,
   status |-> IF ok THEN "delivered" ELSE IF d.attempts + 1 >= 5 THEN "dead" ELSE "pending"]

\* Fault: an endpoint that fails ends the dispatch.
Answer_Stops(c) ==
  LET d == <<ann[c].event, Turn(c)>>
  IN /\ ann[c].pc = "answer"
     /\ \E reached, ok \in BOOLEAN :
          /\ ok => reached
          /\ received' = [received EXCEPT ![d] = IF reached THEN @ + 1 ELSE @]
          /\ delivery' = [delivery EXCEPT ![d] = AfterAttempt(@, ok)]
          /\ ann' = [ann EXCEPT ![c].pc = "next", ![c].todo = IF ok THEN @ \ {Turn(c)} ELSE {}]
     /\ UNCHANGED <<hooks, stored, sunk>>

\* The endpoint was reached and said ok, was reached and said something else or
\* was not heard, or was not reached at all.
Answer(c) ==
  LET d == <<ann[c].event, Turn(c)>>
  IN /\ ann[c].pc = "answer"
     /\ \E reached, ok \in BOOLEAN :
          /\ ok => reached
          /\ received' = [received EXCEPT ![d] = IF reached THEN @ + 1 ELSE @]
          /\ delivery' = [delivery EXCEPT ![d] = AfterAttempt(@, ok)]
     /\ ann' = [ann EXCEPT ![c].pc = "next", ![c].todo = @ \ {Turn(c)}]
     /\ UNCHANGED <<hooks, stored, sunk>>

\* record() returns when no endpoint is left to try.
Dispatched(c) == ann[c].pc = "next" /\ ann[c].todo = {}

Dispatch(c) == Sink(c) \/ Post(c) \/ Answer(c)

----------------------------------------------------------------------------

\* What an endpoint is sent is in the audit store and was accepted by the sink, is
\* what it asked for, and comes once; a delivery is shown delivered only when it
\* was.  (Handlers announce side by side, and endpoints come up meanwhile.)
AnnouncedWasAudited ==
  \A e \in EventIds, h \in HookIds :
    /\ received[<<e, h>>] > 0 => e \in sunk /\ e <= Len(stored) /\ Wants(h, e)
    /\ received[<<e, h>>] <= 1
    /\ delivery[<<e, h>>] # None /\ delivery[<<e, h>>].status = "delivered" => received[<<e, h>>] = 1

\* An endpoint that a dispatch has listed is tried, whatever the endpoints before
\* it answer, unless its secret or that of one before it cannot be opened.
EveryEndpointIsTried ==
  \A e \in EventIds, h \in HookIds :
    (\E c \in Calls : /\ ann[c].pc = "next" /\ ann[c].event = e /\ h \in ann[c].todo
                     /\ \A g \in ann[c].todo : g <= h => hooks[g].opens)
      ~> (delivery[<<e, h>>] # None /\ delivery[<<e, h>>].attempts = 1)

\* A delivery that was made and never attempted is being attempted, or belongs to
\* an endpoint whose secret cannot be opened: no answer and no error loses one.
UntriedIsUnopened ==
  \A e \in EventIds, h \in HookIds :
    delivery[<<e, h>>] # None /\ delivery[<<e, h>>].attempts = 0 =>
      \/ ~hooks[h].opens
      \/ \E c \in Calls : ann[c].pc = "answer" /\ ann[c].event = e /\ h = Turn(c)

=============================================================================
