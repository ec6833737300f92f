------------------------------- MODULE Messaging -------------------------------
(***************************************************************************)
(* From the Outbox row to the settled Inbox row: the dispatchers of Outbox  *)
(* publish one event among others, the traced one, and the transport hands  *)
(* every copy it accepts to the consumer of Inbox.  Both sides run in the   *)
(* same API processes: the in-memory transport dies with its dispatchers.   *)
(***************************************************************************)
EXTENDS Inbox, Outbox

CONSTANT Traced   \* the event that Inbox is about

ASSUME TracedAssumption == Traced \in Events

messagingVars == <<inboxVars, outboxVars>>

TypeOK == InboxTypeOK /\ OutboxTypeOK /\ copies = sent[Traced]

Init == InboxInit /\ OutboxInit

-------------------------------------------------------------------------------
\* What a dispatcher hands over is accepted by the transport in the same step.
\* (The in-memory publish also waits for the handlers; here the dispatcher may
\* go on at once, which allows more.)
HandedOver ==
    IF sent'[Traced] > sent[Traced] THEN Accept ELSE UNCHANGED inboxVars

\* A crash of the process of delivery d.
ProcessDies(d) ==
    /\ Crash(d)
    /\ IF transport = "in-memory"
       THEN /\ disp' = [p \in Dispatchers |-> Idle]
            /\ UNCHANGED <<outbox, deadLetters, sent, tried, dispatches>>
       ELSE UNCHANGED outboxVars

Next ==
    \/ /\ OutboxNext
       /\ HandedOver
    \/ /\ \/ \E d \in Deliveries : Handle(d) \/ EffectThrows(d) \/ HookThrows(d)
          \/ RetryExpires
       /\ UNCHANGED outboxVars
    \/ \E d \in Deliveries : ProcessDies(d)

Spec == Init /\ [][Next]_messagingVars

\* A live process runs its handlers, and a message's time to live passes.
\* Nothing obliges anybody to call dispatch.
FairSpec ==
    /\ Spec
    /\ \A d \in Deliveries : WF_messagingVars(Handle(d) /\ UNCHANGED outboxVars)
    /\ WF_messagingVars(RetryExpires /\ UNCHANGED outboxVars)

-------------------------------------------------------------------------------
(* Properties of the composition.                                          *)

\* What the transport survives: the in-memory one effects and callbacks that
\* throw, RabbitMQ the death of replicas.
Survivable ==
    IF transport = "in-memory" THEN crashes = 0
    ELSE failures = 0 /\ hookFailures = 0

\* Once the Outbox has handed over a copy of an event, the event ends processed
\* or dead-lettered, whatever copies overlap and whatever the dispatchers still
\* do, as long as the transport survives what happens.
EventuallyHandled == (sent[Traced] > 0) ~> (Settled \/ ~Survivable)

\* A row marked PUBLISHED is more than a message sent: while nothing died, the
\* consumer has settled the event, or a copy of it is still on its way.
PublishedIsNotLost ==
    outbox[Traced].status = "PUBLISHED" /\ Survivable => Settled \/ ~Quiet
=============================================================================
