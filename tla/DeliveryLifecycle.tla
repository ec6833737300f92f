--------------------------- MODULE DeliveryLifecycle ---------------------------
(***************************************************************************)
(* What Delivery promises of the delivery of one Order: it is requested    *)
(* once, becomes ready, and is then delivered, or fails and is retried in  *)
(* the next generation while its failure allows it.  Every decision is     *)
(* announced in the step that takes it, and none is announced twice.       *)
(***************************************************************************)
EXTENDS Naturals

VARIABLES status, generation, retryable, announced

Init ==
    /\ status = "ABSENT"
    /\ generation = 1
    /\ retryable = FALSE
    /\ announced = {}

Announce(events) ==
    /\ events \cap announced = {}
    /\ announced' = announced \cup events

Create ==
    /\ status = "ABSENT"
    /\ status' = "REQUESTED"
    /\ Announce({<<"DeliveryCreated", 0>>})
    /\ UNCHANGED <<generation, retryable>>

Accept ==
    /\ status = "REQUESTED"
    /\ status' = "READY"
    /\ UNCHANGED <<generation, retryable, announced>>

\* A refusal that leaves another attempt only marks the delivery.
Refuse ==
    /\ status = "READY"
    /\ retryable' = TRUE
    /\ UNCHANGED <<status, generation, announced>>

Arrive ==
    /\ status = "READY"
    /\ status' = "DELIVERED"
    /\ retryable' = FALSE
    /\ Announce({<<"DeliveryStarted", 0>>, <<"DeliveryCompleted", 0>>})
    /\ UNCHANGED generation

Fail ==
    /\ status = "READY"
    /\ status' = "FAILED"
    /\ retryable' \in BOOLEAN
    /\ Announce({<<"DeliveryFailed", generation>>})
    /\ UNCHANGED generation

Retry ==
    /\ status = "FAILED" /\ retryable
    /\ status' = "READY"
    /\ generation' = generation + 1
    /\ UNCHANGED <<retryable, announced>>

Next == Create \/ Accept \/ Refuse \/ Arrive \/ Fail \/ Retry

Spec == Init /\ [][Next]_<<status, generation, retryable, announced>>
=============================================================================
