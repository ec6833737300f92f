----------------------------- MODULE OrderLifecycle -----------------------------
(***************************************************************************)
(* One Order as docs/domain/state-models.md has it: a transition at a time, *)
(* each under the next aggregate version, and the integration events carry  *)
(* the version of the transition they announce.  An Order that its customer *)
(* or store cancels, and one that is completed, say so (workflows.md); one  *)
(* that Payment ends is cancelled without an event.                         *)
(*                                                                          *)
(* The code completes an Order in another way, CompleteSilently.  Spec is   *)
(* what the documents say, AsBuilt the same lifecycle with that deviation   *)
(* and no other.                                                            *)
(***************************************************************************)
EXTENDS Naturals

VARIABLES status, version, events

States == {"ABSENT", "AWAITING_PAYMENT", "CONFIRMED", "PREPARING",
           "READY_FOR_DELIVERY", "DELIVERING", "COMPLETED", "CANCELLED"}

\* The rows of the table Order State.
Transitions ==
    { <<"ABSENT", "AWAITING_PAYMENT">>,
      <<"AWAITING_PAYMENT", "CONFIRMED">>,
      <<"AWAITING_PAYMENT", "CANCELLED">>,
      <<"CONFIRMED", "PREPARING">>,
      <<"CONFIRMED", "CANCELLED">>,
      <<"PREPARING", "READY_FOR_DELIVERY">>,
      <<"READY_FOR_DELIVERY", "DELIVERING">>,
      <<"DELIVERING", "COMPLETED">> }

\* The sets of events that a transition may announce.
Announces(from, to) ==
    CASE to = "AWAITING_PAYMENT"   -> {{"OrderPlaced"}}
      [] to = "CONFIRMED"          -> {{"OrderConfirmed"}}
      [] to = "PREPARING"          -> {{"OrderPreparationStarted"}}
      [] to = "READY_FOR_DELIVERY" -> {{"OrderReadyForDelivery"}}
      [] to = "COMPLETED"          -> {{"OrderCompleted"}}
      [] to = "CANCELLED" /\ from = "AWAITING_PAYMENT" -> {{}, {"OrderCancelled"}}
      [] to = "CANCELLED" /\ from = "CONFIRMED" -> {{"OrderCancelled"}}
      [] OTHER -> {{}}

Init ==
    /\ status = "ABSENT"
    /\ version = 0
    /\ events = {}

Move(from, to) ==
    /\ status = from
    /\ status' = to
    /\ version' = version + 1
    /\ \E types \in Announces(from, to) :
         events' = events \cup {[type |-> t, version |-> version'] : t \in types}

Next == \E m \in Transitions : Move(m[1], m[2])

Spec == Init /\ [][Next]_<<status, version, events>>

-------------------------------------------------------------------------------
\* The deviation: DeliveryCompleted completes an Order that is not yet on its
\* way as well, and no OrderCompleted is enqueued.
CompleteSilently ==
    /\ status \in {"READY_FOR_DELIVERY", "DELIVERING"}
    /\ status' = "COMPLETED"
    /\ version' = version + 1
    /\ UNCHANGED events

NextAsBuilt ==
    \/ \E m \in {t \in Transitions : t[2] # "COMPLETED"} : Move(m[1], m[2])
    \/ CompleteSilently

AsBuilt == Init /\ [][NextAsBuilt]_<<status, version, events>>
=============================================================================
