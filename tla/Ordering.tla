-------------------------------- MODULE Ordering --------------------------------
(***************************************************************************)
(* The Ordering context: one Order, the requests that cancel, prepare and  *)
(* finish it, and the consumers of Payment's and Delivery's events.  Orders*)
(* share no row.                                                           *)
(*                                                                         *)
(* A transaction is two steps, its SELECT of the order and its guarded     *)
(* UPDATE with the commit: the request or consumer holds the status it     *)
(* read in between.  Payment and Delivery are external: they announce what *)
(* their own contexts may announce of this Order, in any order, and the    *)
(* transport may deliver an event again.                                   *)
(***************************************************************************)
EXTENDS Naturals, FiniteSets

CONSTANTS
    Requests,          \* HTTP requests that may overlap
    PaymentConsumers,  \* replicas of the consumer ordering.payment
    DeliveryConsumers, \* replicas of the consumer ordering.delivery
    Foreign,           \* the events Payment and Delivery may announce
    SharedQueue,       \* TRUE: RabbitMQ, one queue for both consumers
    MaxRedeliveries,   \* bound on events delivered again
    MaxAborts          \* bound on transactions that are rolled back

Consumers == PaymentConsumers \cup DeliveryConsumers
Processes == Requests \cup Consumers

PaymentEvents == {"PaymentSucceeded", "PaymentFailed", "PaymentFailedRetryable",
                  "PaymentExpired"}
DeliveryEvents == {"DeliveryCreated", "DeliveryStarted", "DeliveryCompleted",
                   "DeliveryFailed"}

ASSUME OrderingAssumption ==
    /\ Foreign \subseteq PaymentEvents \cup DeliveryEvents
    /\ SharedQueue \in BOOLEAN
    /\ MaxRedeliveries \in Nat
    /\ MaxAborts \in Nat
    /\ Requests \cap Consumers = {}
    /\ PaymentConsumers \cap DeliveryConsumers = {}

VARIABLES
    status,       \* orders.status, "ABSENT" before the insert
    version,      \* orders.aggregate_version
    outbox,       \* Outbox rows that Ordering enqueued
    announced,    \* events of Payment and Delivery, ever published
    queue,        \* those waiting for a consumer, or held by one
    open,         \* the open transaction of each process
    redeliveries, aborts

vars == <<status, version, outbox, announced, queue, open, redeliveries, aborts>>

-------------------------------------------------------------------------------
Lifecycle == INSTANCE OrderLifecycle
    WITH events <- {[type |-> e.type, version |-> e.version] : e \in outbox}

Statuses == Lifecycle!States
Cancellable == {"AWAITING_PAYMENT", "CONFIRMED"}

Commands == {"cancel", "startPreparation", "markReadyForDelivery"}
EventTypes == {"OrderPlaced", "OrderConfirmed", "OrderPreparationStarted",
               "OrderReadyForDelivery", "OrderCancelled"}

Idle == [work |-> "none", seen |-> "ABSENT"]

TypeOK ==
    /\ status \in Statuses
    /\ version \in Nat
    /\ outbox \subseteq [type : EventTypes, version : Nat, refund : BOOLEAN]
    /\ announced \subseteq Foreign
    /\ queue \subseteq announced
    /\ open \in [Processes ->
                   [work : {"none"} \cup Commands \cup Foreign, seen : Statuses]]
    /\ redeliveries \in 0..MaxRedeliveries
    /\ aborts \in 0..MaxAborts

Init ==
    /\ status = "ABSENT"
    /\ version = 0
    /\ outbox = {}
    /\ announced = {} /\ queue = {}
    /\ open = [p \in Processes |-> Idle]
    /\ redeliveries = 0 /\ aborts = 0

Enqueued(type) == \E e \in outbox : e.type = type

-------------------------------------------------------------------------------
(* Payment and Delivery.                                                   *)

\* Payment hears of the Order through OrderPlaced; Delivery creates its row
\* on OrderConfirmed and works on it from OrderReadyForDelivery on.
MayAnnounce(e) ==
    CASE e \in PaymentEvents     -> Enqueued("OrderPlaced")
      [] e = "DeliveryCreated"   -> Enqueued("OrderConfirmed")
      [] e = "DeliveryCompleted" -> "DeliveryStarted" \in announced
      [] OTHER                   -> Enqueued("OrderReadyForDelivery")

Announce(e) ==
    /\ e \notin announced
    /\ MayAnnounce(e)
    /\ announced' = announced \cup {e}
    /\ queue' = queue \cup {e}
    /\ UNCHANGED <<status, version, outbox, open, redeliveries, aborts>>

Redeliver(e) ==
    /\ e \in announced \ queue
    /\ redeliveries < MaxRedeliveries
    /\ redeliveries' = redeliveries + 1
    /\ queue' = queue \cup {e}
    /\ UNCHANGED <<status, version, outbox, announced, open, aborts>>

-------------------------------------------------------------------------------
(* Opening a transaction: the order is read.                               *)

\* The order, its items and OrderPlaced are inserted in one transaction.
Place ==
    /\ status = "ABSENT"
    /\ status' = "AWAITING_PAYMENT"
    /\ version' = 1
    /\ outbox' = {[type |-> "OrderPlaced", version |-> 1, refund |-> FALSE]}
    /\ UNCHANGED <<announced, queue, open, redeliveries, aborts>>

\* The statuses in which each piece of work goes on to its UPDATE.
Advances(work) ==
    CASE work = "cancel" -> Cancellable
      [] work = "startPreparation" -> {"CONFIRMED"}
      [] work = "markReadyForDelivery" -> {"PREPARING"}
      [] work \in {"PaymentSucceeded", "PaymentFailed", "PaymentExpired"} ->
           {"AWAITING_PAYMENT"}
      [] work = "DeliveryStarted" -> {"READY_FOR_DELIVERY"}
      [] work = "DeliveryCompleted" -> {"DELIVERING", "READY_FOR_DELIVERY"}
      [] OTHER -> {}

Open(p, work) ==
    /\ open[p] = Idle
    /\ status \in Advances(work)
    /\ open' = [open EXCEPT ![p] = [work |-> work, seen |-> status]]
    /\ UNCHANGED <<status, version, outbox, announced, queue, redeliveries, aborts>>

Request(p) == \E c \in Commands : Open(p, c)

\* A consumer is handed the events its queue is bound to.  The consumers of
\* one context declare the same RabbitMQ queue, so each may get any event.
Bound(p) == IF SharedQueue THEN Foreign
            ELSE IF p \in PaymentConsumers THEN PaymentEvents
            ELSE DeliveryEvents

\* Of an event of the other context ordering.payment makes nothing, and
\* ordering.delivery throws.
Misrouted(p, e) ==
    \/ p \in PaymentConsumers /\ e \in DeliveryEvents
    \/ p \in DeliveryConsumers /\ e \in PaymentEvents

Consume(p) == \E e \in queue \cap Bound(p) : ~Misrouted(p, e) /\ Open(p, e)

\* An early return, or a throw: nothing is written and the message leaves
\* the queue.  The retry of one whose effect threw is the Inbox's business.
Ignore(p) ==
    /\ open[p] = Idle
    /\ \E e \in queue \cap Bound(p) :
         /\ Misrouted(p, e) \/ status \notin Advances(e)
         /\ queue' = queue \ {e}
    /\ UNCHANGED <<status, version, outbox, announced, open, redeliveries, aborts>>

-------------------------------------------------------------------------------
(* The rest of the transaction.                                            *)

\* The transaction of p ends; a consumer's message is acknowledged.
Close(p) ==
    /\ open' = [open EXCEPT ![p] = Idle]
    /\ queue' = queue \ {open[p].work}
    /\ UNCHANGED <<announced, redeliveries, aborts>>

Event(type, refund) == [type |-> type, version |-> version + 1, refund |-> refund]

\* The UPDATE guarded by the statuses in from; the events are enqueued if it
\* found the row.
Update(from, to, events) ==
    IF status \in from
    THEN /\ status' = to
         /\ version' = version + 1
         /\ outbox' = outbox \cup events
    ELSE UNCHANGED <<status, version, outbox>>

\* Slip: the UPDATE repeats a weaker condition than the SELECT's.
CancelUnlessFinal(p) ==
    /\ open[p].work = "cancel"
    /\ Update({"AWAITING_PAYMENT", "CONFIRMED", "PREPARING"}, "CANCELLED",
              {Event("OrderCancelled", open[p].seen = "CONFIRMED")})
    /\ Close(p)

\* refundRequired comes from the status that was read.
Cancel(p) ==
    /\ open[p].work = "cancel"
    /\ Update(Cancellable, "CANCELLED",
              {Event("OrderCancelled", open[p].seen = "CONFIRMED")})
    /\ Close(p)

\* Slip: the UPDATE is not guarded by the status.
StartPreparationUnguarded(p) ==
    /\ open[p].work = "startPreparation"
    /\ Update(Statuses, "PREPARING", {Event("OrderPreparationStarted", FALSE)})
    /\ Close(p)

StartPreparation(p) ==
    /\ open[p].work = "startPreparation"
    /\ Update({"CONFIRMED"}, "PREPARING", {Event("OrderPreparationStarted", FALSE)})
    /\ Close(p)

MarkReadyForDelivery(p) ==
    /\ open[p].work = "markReadyForDelivery"
    /\ Update({"PREPARING"}, "READY_FOR_DELIVERY",
              {Event("OrderReadyForDelivery", FALSE)})
    /\ Close(p)

\* Slip: the UPDATE is not guarded by the status.
ConfirmUnguarded(p) ==
    /\ open[p].work = "PaymentSucceeded"
    /\ Update(Statuses, "CONFIRMED", {Event("OrderConfirmed", FALSE)})
    /\ Close(p)

PaymentSucceeded(p) ==
    /\ open[p].work = "PaymentSucceeded"
    /\ Update({"AWAITING_PAYMENT"}, "CONFIRMED", {Event("OrderConfirmed", FALSE)})
    /\ Close(p)

\* Slip: the Order takes the status of the Payment.
PaymentEndedAsPayment(p) ==
    /\ open[p].work \in {"PaymentFailed", "PaymentExpired"}
    /\ Update({"AWAITING_PAYMENT"}, "EXPIRED", {})
    /\ Close(p)

PaymentEnded(p) ==
    /\ open[p].work \in {"PaymentFailed", "PaymentExpired"}
    /\ Update({"AWAITING_PAYMENT"}, "CANCELLED", {})
    /\ Close(p)

DeliveryStarted(p) ==
    /\ open[p].work = "DeliveryStarted"
    /\ Update({"READY_FOR_DELIVERY"}, "DELIVERING", {})
    /\ Close(p)

\* Slip: a completion that overtakes the start is ignored.
CompletedAfterStarted(p) ==
    /\ open[p].work = "DeliveryCompleted"
    /\ Update({"DELIVERING"}, "COMPLETED", {})
    /\ Close(p)

DeliveryCompleted(p) ==
    /\ open[p].work = "DeliveryCompleted"
    /\ Update({"DELIVERING", "READY_FOR_DELIVERY"}, "COMPLETED", {})
    /\ Close(p)

\* The transaction is rolled back, by an error or because the process died;
\* a consumer's message stays in its queue.
Abort(p) ==
    /\ open[p] # Idle
    /\ aborts < MaxAborts
    /\ aborts' = aborts + 1
    /\ open' = [open EXCEPT ![p] = Idle]
    /\ UNCHANGED <<status, version, outbox, announced, queue, redeliveries>>

-------------------------------------------------------------------------------
Commit(p) ==
    \/ Cancel(p) \/ StartPreparation(p) \/ MarkReadyForDelivery(p)
    \/ PaymentSucceeded(p) \/ PaymentEnded(p)
    \/ DeliveryStarted(p) \/ DeliveryCompleted(p)

Next ==
    \/ Place
    \/ \E e \in Foreign : Announce(e) \/ Redeliver(e)
    \/ \E p \in Requests : Request(p)
    \/ \E p \in Consumers : Consume(p) \/ Ignore(p)
    \/ \E p \in Processes : Commit(p) \/ Abort(p)

Spec == Init /\ [][Next]_vars

\* A consumer takes the messages of its queue and ends its transactions;
\* nothing obliges a user, Payment or Delivery.
Serve(p) == Consume(p) \/ Ignore(p) \/ Commit(p)

FairSpec == Spec /\ \A p \in Consumers : WF_vars(Serve(p))

-------------------------------------------------------------------------------
(* Properties.                                                             *)

\* The Order moves along its documented lifecycle and says so: it is completed
\* when it was on its way, and OrderCompleted is committed with it.
LifecycleKept == Lifecycle!Spec

\* Every commit moves the Order along its lifecycle, under the next version
\* and with the event of that transition, whatever transactions overlap and
\* whatever is delivered late, twice or out of order, except that completion
\* may skip DELIVERING and is silent (the guarded UPDATEs of OrderingService).
LifecycleAsBuilt == Lifecycle!AsBuilt

\* An idempotency key is used for one event: enqueue never meets another
\* event under the key OrderConfirmed:<id>, and so never throws.
OneEventPerKey == \A e, f \in outbox : e.type = f.type => e = f

\* An Order whose cancellation was announced is not prepared, and one whose
\* preparation was announced is not cancelled, also by requests that
\* overlap (cancel against startPreparation).
CancelledNotPrepared ==
    /\ ~(Enqueued("OrderCancelled") /\ Enqueued("OrderPreparationStarted"))
    /\ Enqueued("OrderCancelled") => status = "CANCELLED"

\* The versions of the announced events follow the lifecycle, so a consumer
\* that sorts by aggregateVersion sees the Order confirmed, prepared and
\* ready in this order.
VersionsFollowLifecycle ==
    \A e, f \in outbox :
        \/ e.type = "OrderPlaced" /\ f.type # "OrderPlaced"
        \/ e.type = "OrderConfirmed" /\ f.type \notin {"OrderPlaced", "OrderConfirmed"}
        \/ e.type = "OrderPreparationStarted" /\ f.type = "OrderReadyForDelivery"
        => e.version < f.version

\* A Delivery event never meets an Order it cannot advance: the throws of
\* applyDeliveryEvent are for events that no Delivery announces.
DeliveryNeverThrows ==
    queue \cap {"DeliveryStarted", "DeliveryCompleted"} # {} =>
        status \in {"READY_FOR_DELIVERY", "DELIVERING", "COMPLETED"}

\* A delivery that completed completes its Order.
CompletesWhenDelivered ==
    "DeliveryCompleted" \in announced ~> status = "COMPLETED"
=============================================================================
