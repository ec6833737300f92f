----------------------------- MODULE OrderingProofs -----------------------------
(***************************************************************************)
(* Proofs about Ordering, for every number of overlapping requests and     *)
(* replicas, every set of foreign events, and both queue layouts.          *)
(***************************************************************************)
EXTENDS Ordering, TLAPS

-------------------------------------------------------------------------------
(* What a step can do to the order's row and its events.                   *)

Moved(from, to, type) ==
    /\ status \in from
    /\ status' = to
    /\ version' = version + 1
    /\ \E r \in BOOLEAN :
         outbox' = outbox \cup {[type |-> type, version |-> version + 1, refund |-> r]}

MovedSilently(from, to) ==
    /\ status \in from
    /\ status' = to
    /\ version' = version + 1
    /\ outbox' = outbox

RowStep ==
    \/ UNCHANGED <<status, version, outbox>>
    \/ Place
    \/ Moved(Cancellable, "CANCELLED", "OrderCancelled")
    \/ Moved({"CONFIRMED"}, "PREPARING", "OrderPreparationStarted")
    \/ Moved({"PREPARING"}, "READY_FOR_DELIVERY", "OrderReadyForDelivery")
    \/ Moved({"AWAITING_PAYMENT"}, "CONFIRMED", "OrderConfirmed")
    \/ MovedSilently({"AWAITING_PAYMENT"}, "CANCELLED")
    \/ MovedSilently({"READY_FOR_DELIVERY"}, "DELIVERING")
    \/ MovedSilently({"DELIVERING", "READY_FOR_DELIVERY"}, "COMPLETED")

\* A commit is one of the transitions, or nothing: every UPDATE is guarded.
LEMMA CommitShape ==
    ASSUME NEW p \in Processes, Commit(p)
    PROVE  RowStep
<1>1. CASE Cancel(p)
  <2>1. (open[p].seen = "CONFIRMED") \in BOOLEAN
    OBVIOUS
  <2> QED
    BY <1>1, <2>1 DEF Cancel, Update, Event, RowStep, Moved
<1>2. CASE StartPreparation(p)
  BY <1>2 DEF StartPreparation, Update, Event, RowStep, Moved
<1>3. CASE MarkReadyForDelivery(p)
  BY <1>3 DEF MarkReadyForDelivery, Update, Event, RowStep, Moved
<1>4. CASE PaymentSucceeded(p)
  BY <1>4 DEF PaymentSucceeded, Update, Event, RowStep, Moved
<1>5. CASE PaymentEnded(p)
  BY <1>5 DEF PaymentEnded, Update, RowStep, MovedSilently
<1>6. CASE DeliveryStarted(p)
  BY <1>6 DEF DeliveryStarted, Update, RowStep, MovedSilently
<1>7. CASE DeliveryCompleted(p)
  BY <1>7 DEF DeliveryCompleted, Update, RowStep, MovedSilently
<1> QED
  BY <1>1, <1>2, <1>3, <1>4, <1>5, <1>6, <1>7 DEF Commit

LEMMA StepShape ==
    ASSUME [Next]_vars
    PROVE  RowStep
<1>1. CASE \E p \in Processes : Commit(p)
  BY <1>1, CommitShape
<1>2. CASE Place
  BY <1>2 DEF RowStep
<1>3. CASE \E e \in Foreign : Announce(e) \/ Redeliver(e)
  BY <1>3 DEF RowStep, Announce, Redeliver
<1>4. CASE \E p \in Requests : Request(p)
  BY <1>4 DEF RowStep, Request, Open
<1>5. CASE \E p \in Consumers : Consume(p) \/ Ignore(p)
  BY <1>5 DEF RowStep, Consume, Open, Ignore
<1>6. CASE \E p \in Processes : Abort(p)
  BY <1>6 DEF RowStep, Abort
<1>7. CASE UNCHANGED vars
  BY <1>7 DEF RowStep, vars
<1> QED
  BY <1>1, <1>2, <1>3, <1>4, <1>5, <1>6, <1>7 DEF Next

-------------------------------------------------------------------------------
(* Types.                                                                  *)

LEMMA RowTypes ==
    ASSUME TypeOK, RowStep
    PROVE  /\ status' \in Statuses
           /\ version' \in Nat
           /\ outbox' \subseteq [type : EventTypes, version : Nat, refund : BOOLEAN]
<1> DEFINE Rows == [type : EventTypes, version : Nat, refund : BOOLEAN]
<1> USE DEF Statuses, Lifecycle!States, TypeOK
<1>1. ASSUME NEW from, NEW to \in Statuses, NEW type \in EventTypes,
             Moved(from, to, type)
      PROVE  status' \in Statuses /\ version' \in Nat /\ outbox' \subseteq Rows
  <2>1. PICK r \in BOOLEAN :
          outbox' = outbox \cup {[type |-> type, version |-> version + 1, refund |-> r]}
    BY <1>1 DEF Moved
  <2>2. [type |-> type, version |-> version + 1, refund |-> r] \in Rows
    OBVIOUS
  <2> QED
    BY <1>1, <2>1, <2>2 DEF Moved
<1>2. ASSUME NEW from, NEW to \in Statuses, MovedSilently(from, to)
      PROVE  status' \in Statuses /\ version' \in Nat /\ outbox' \subseteq Rows
  BY <1>2 DEF MovedSilently
<1>3. CASE Place
  <2>1. [type |-> "OrderPlaced", version |-> 1, refund |-> FALSE] \in Rows
    BY DEF EventTypes
  <2> QED
    BY <1>3, <2>1 DEF Place
<1>4. CASE UNCHANGED <<status, version, outbox>>
  BY <1>4
<1>5. \A x \in {"OrderCancelled", "OrderPreparationStarted", "OrderReadyForDelivery",
                "OrderConfirmed"} : x \in EventTypes
  BY DEF EventTypes
<1> QED
  BY <1>1, <1>2, <1>3, <1>4, <1>5 DEF RowStep

LEMMA CloseTypes ==
    ASSUME TypeOK, NEW p \in Processes, Close(p)
    PROVE  /\ announced' \subseteq Foreign
           /\ queue' \subseteq announced'
           /\ open' \in [Processes -> [work : {"none"} \cup Commands \cup Foreign,
                                       seen : Statuses]]
           /\ redeliveries' \in 0..MaxRedeliveries
           /\ aborts' \in 0..MaxAborts
BY DEF TypeOK, Close, Idle, Statuses, Lifecycle!States

LEMMA CommitCloses ==
    ASSUME NEW p \in Processes, Commit(p)
    PROVE  Close(p)
BY DEF Commit, Cancel, StartPreparation, MarkReadyForDelivery, PaymentSucceeded,
       PaymentEnded, DeliveryStarted, DeliveryCompleted

LEMMA OpenTypes ==
    ASSUME TypeOK, NEW p \in Processes, NEW work \in Commands \cup Foreign,
           Open(p, work)
    PROVE  TypeOK'
BY DEF TypeOK, Open

LEMMA TypeStep == TypeOK /\ [Next]_vars => TypeOK'
<1> SUFFICES ASSUME TypeOK, [Next]_vars PROVE TypeOK'
  OBVIOUS
<1> USE OrderingAssumption
<1>1. CASE Place
  BY <1>1, RowTypes DEF RowStep, Place, TypeOK
<1>2. CASE \E e \in Foreign : Announce(e)
  BY <1>2 DEF Announce, TypeOK
<1>3. CASE \E e \in Foreign : Redeliver(e)
  BY <1>3 DEF Redeliver, TypeOK
<1>4. CASE \E p \in Requests : Request(p)
  BY <1>4, OpenTypes DEF Request, Processes
<1>5. CASE \E p \in Consumers : Consume(p)
  <2>1. PICK p \in Consumers : Consume(p)
    BY <1>5
  <2>2. PICK e \in queue : Open(p, e)
    BY <2>1 DEF Consume
  <2> QED
    BY <2>1, <2>2, OpenTypes DEF TypeOK, Processes
<1>6. CASE \E p \in Consumers : Ignore(p)
  BY <1>6 DEF Ignore, TypeOK
<1>7. CASE \E p \in Processes : Commit(p)
  <2>1. PICK p \in Processes : Commit(p)
    BY <1>7
  <2> QED
    BY <2>1, CommitShape, CommitCloses, CloseTypes, RowTypes DEF TypeOK
<1>8. CASE \E p \in Processes : Abort(p)
  BY <1>8 DEF Abort, TypeOK, Idle, Statuses, Lifecycle!States
<1>9. CASE UNCHANGED vars
  BY <1>9 DEF vars, TypeOK
<1> QED
  BY <1>1, <1>2, <1>3, <1>4, <1>5, <1>6, <1>7, <1>8, <1>9 DEF Next

-------------------------------------------------------------------------------
(* The inductive invariant: which events each status can have behind it,   *)
(* and that the events' versions are those of transitions that happened.   *)

Prepared == {"PREPARING", "READY_FOR_DELIVERY", "DELIVERING", "COMPLETED"}
Ready == {"READY_FOR_DELIVERY", "DELIVERING", "COMPLETED"}

Behind ==
    /\ status = "ABSENT" => version = 0 /\ outbox = {}
    /\ \A e \in outbox :
         /\ e.version <= version
         /\ e.type = "OrderConfirmed" => status \notin {"ABSENT", "AWAITING_PAYMENT"}
         /\ e.type = "OrderPreparationStarted" => status \in Prepared
         /\ e.type = "OrderReadyForDelivery" => status \in Ready
         /\ e.type = "OrderCancelled" => status = "CANCELLED"

\* Delivery starts on the strength of OrderReadyForDelivery.
StartedAfterReady ==
    announced \cap {"DeliveryStarted", "DeliveryCompleted"} # {}
        => Enqueued("OrderReadyForDelivery")

IInv == TypeOK /\ Behind /\ StartedAfterReady

LEMMA BehindStep ==
    ASSUME TypeOK, Behind, RowStep
    PROVE  Behind'
<1>1. CASE UNCHANGED <<status, version, outbox>>
  BY <1>1 DEF Behind
<1>2. CASE Place
  BY <1>2 DEF Behind, Place
<1>3. CASE Moved(Cancellable, "CANCELLED", "OrderCancelled")
  BY <1>3 DEF Behind, Moved, Cancellable, TypeOK, Prepared, Ready
<1>4. CASE Moved({"CONFIRMED"}, "PREPARING", "OrderPreparationStarted")
  BY <1>4 DEF Behind, Moved, TypeOK, Prepared, Ready
<1>5. CASE Moved({"PREPARING"}, "READY_FOR_DELIVERY", "OrderReadyForDelivery")
  BY <1>5 DEF Behind, Moved, TypeOK, Prepared, Ready
<1>6. CASE Moved({"AWAITING_PAYMENT"}, "CONFIRMED", "OrderConfirmed")
  BY <1>6 DEF Behind, Moved, TypeOK, Prepared, Ready
<1>7. CASE MovedSilently({"AWAITING_PAYMENT"}, "CANCELLED")
  BY <1>7 DEF Behind, MovedSilently, TypeOK, Prepared, Ready
<1>8. CASE MovedSilently({"READY_FOR_DELIVERY"}, "DELIVERING")
  BY <1>8 DEF Behind, MovedSilently, TypeOK, Prepared, Ready
<1>9. CASE MovedSilently({"DELIVERING", "READY_FOR_DELIVERY"}, "COMPLETED")
  BY <1>9 DEF Behind, MovedSilently, TypeOK, Prepared, Ready
<1> QED
  BY <1>1, <1>2, <1>3, <1>4, <1>5, <1>6, <1>7, <1>8, <1>9 DEF RowStep

\* No event is ever taken back.
LEMMA OutboxGrows ==
    ASSUME Behind, RowStep
    PROVE  outbox \subseteq outbox'
BY DEF RowStep, Behind, Place, Moved, MovedSilently

LEMMA StartedStep ==
    ASSUME TypeOK, Behind, StartedAfterReady, [Next]_vars
    PROVE  StartedAfterReady'
<1>1. outbox \subseteq outbox'
  BY StepShape, OutboxGrows
<1>2. Enqueued("OrderReadyForDelivery") => Enqueued("OrderReadyForDelivery")'
  BY <1>1 DEF Enqueued
<1>3. CASE announced' = announced
  BY <1>2, <1>3 DEF StartedAfterReady
<1>4. CASE \E e \in Foreign : Announce(e)
  <2>1. PICK e \in Foreign : Announce(e)
    BY <1>4
  <2>2. CASE e \notin {"DeliveryStarted", "DeliveryCompleted"}
    BY <1>2, <2>1, <2>2 DEF Announce, StartedAfterReady
  <2>3. CASE e = "DeliveryCompleted"
    BY <1>2, <2>1, <2>3 DEF Announce, MayAnnounce, PaymentEvents, StartedAfterReady
  <2>4. CASE e = "DeliveryStarted"
    BY <1>2, <2>1, <2>4 DEF Announce, MayAnnounce, PaymentEvents, StartedAfterReady
  <2> QED
    BY <2>2, <2>3, <2>4
<1>5. announced' = announced \/ \E e \in Foreign : Announce(e)
  <2>1. \A p \in Processes : Commit(p) => announced' = announced
    BY CommitCloses DEF Close
  <2> QED
    BY <2>1 DEF Next, vars, Place, Redeliver, Request, Consume, Open, Ignore, Abort
<1> QED
  BY <1>3, <1>4, <1>5

LEMMA InitHolds == Init => IInv
BY OrderingAssumption
   DEF Init, IInv, TypeOK, Behind, StartedAfterReady, Idle, Statuses,
       Lifecycle!States

LEMMA StepHolds == IInv /\ [Next]_vars => IInv'
BY TypeStep, StepShape, BehindStep, StartedStep DEF IInv

LEMMA Invariance == Spec => []IInv
BY InitHolds, StepHolds, PTL DEF Spec

-------------------------------------------------------------------------------
(* The theorems.                                                           *)

\* The rows keep their types; in particular the order's status is one the
\* table's check constraint admits (OrderingService's UPDATEs).
THEOREM TypeCorrect == Spec => []TypeOK
<1>1. IInv => TypeOK
  BY DEF IInv
<1> QED
  BY <1>1, Invariance, PTL

\* No Order is both announced as cancelled and announced as being prepared,
\* whatever cancel and startPreparation requests overlap.
THEOREM NotCancelledAndPrepared == Spec => []CancelledNotPrepared
<1>1. IInv => CancelledNotPrepared
  BY DEF IInv, Behind, CancelledNotPrepared, Enqueued, Prepared
<1> QED
  BY <1>1, Invariance, PTL

\* applyDeliveryEvent never throws for an event of this Order's Delivery.
THEOREM DeliveryIsWelcome == Spec => []DeliveryNeverThrows
<1>1. IInv => DeliveryNeverThrows
  BY DEF IInv, TypeOK, Behind, StartedAfterReady, DeliveryNeverThrows, Enqueued,
         Ready
<1> QED
  BY <1>1, Invariance, PTL

\* An idempotency key names one event, so enqueue never throws.
THEOREM KeysAreUnique == Spec => []OneEventPerKey
<1>1. Init => OneEventPerKey
  BY DEF Init, OneEventPerKey
<1>2. IInv /\ OneEventPerKey /\ [Next]_vars => OneEventPerKey'
  <2> SUFFICES ASSUME IInv, OneEventPerKey, RowStep PROVE OneEventPerKey'
    BY StepShape
  <2>1. CASE UNCHANGED <<status, version, outbox>>
    BY <2>1 DEF OneEventPerKey
  <2>2. CASE Place
    BY <2>2 DEF OneEventPerKey, Place
  <2>3. CASE Moved(Cancellable, "CANCELLED", "OrderCancelled")
    BY <2>3 DEF IInv, Behind, Moved, Cancellable, OneEventPerKey
  <2>4. CASE Moved({"CONFIRMED"}, "PREPARING", "OrderPreparationStarted")
    BY <2>4 DEF IInv, Behind, Moved, Prepared, OneEventPerKey
  <2>5. CASE Moved({"PREPARING"}, "READY_FOR_DELIVERY", "OrderReadyForDelivery")
    BY <2>5 DEF IInv, Behind, Moved, Ready, OneEventPerKey
  <2>6. CASE Moved({"AWAITING_PAYMENT"}, "CONFIRMED", "OrderConfirmed")
    BY <2>6 DEF IInv, Behind, Moved, OneEventPerKey
  <2> QED
    BY <2>1, <2>2, <2>3, <2>4, <2>5, <2>6 DEF RowStep, MovedSilently, OneEventPerKey
<1> QED
  BY <1>1, <1>2, Invariance, PTL DEF Spec

\* The versions of the events follow the lifecycle.
THEOREM VersionsAreOrdered == Spec => []VersionsFollowLifecycle
<1>1. Init => VersionsFollowLifecycle
  BY DEF Init, VersionsFollowLifecycle
<1>2. IInv /\ VersionsFollowLifecycle /\ [Next]_vars => VersionsFollowLifecycle'
  <2> SUFFICES ASSUME IInv, VersionsFollowLifecycle, RowStep
               PROVE  VersionsFollowLifecycle'
    BY StepShape
  <2>1. CASE UNCHANGED <<status, version, outbox>>
    BY <2>1 DEF VersionsFollowLifecycle
  <2>2. CASE Place
    BY <2>2 DEF VersionsFollowLifecycle, Place
  <2>3. CASE Moved(Cancellable, "CANCELLED", "OrderCancelled")
    BY <2>3 DEF IInv, TypeOK, Behind, Moved, Cancellable, Prepared, Ready,
                VersionsFollowLifecycle
  <2>4. CASE Moved({"CONFIRMED"}, "PREPARING", "OrderPreparationStarted")
    BY <2>4 DEF IInv, TypeOK, Behind, Moved, Prepared, Ready, VersionsFollowLifecycle
  <2>5. CASE Moved({"PREPARING"}, "READY_FOR_DELIVERY", "OrderReadyForDelivery")
    BY <2>5 DEF IInv, TypeOK, Behind, Moved, Prepared, Ready, VersionsFollowLifecycle
  <2>6. CASE Moved({"AWAITING_PAYMENT"}, "CONFIRMED", "OrderConfirmed")
    BY <2>6 DEF IInv, TypeOK, Behind, Moved, Prepared, Ready, VersionsFollowLifecycle,
                EventTypes
  <2> QED
    BY <2>1, <2>2, <2>3, <2>4, <2>5, <2>6
       DEF RowStep, MovedSilently, VersionsFollowLifecycle
<1> QED
  BY <1>1, <1>2, Invariance, PTL DEF Spec

-------------------------------------------------------------------------------
(* Ordering implements OrderLifecycle as it is built.                      *)

Events == {[type |-> e.type, version |-> e.version] : e \in outbox}

\* One announced transition of the abstract specification.
LEMMA MoveRefines ==
    ASSUME NEW from, NEW to, NEW type,
           <<from, to>> \in Lifecycle!Transitions, to # "COMPLETED",
           {type} \in Lifecycle!Announces(from, to),
           status = from, Moved({from}, to, type)
    PROVE  Lifecycle!NextAsBuilt
<1>1. PICK r \in BOOLEAN :
        outbox' = outbox \cup {[type |-> type, version |-> version + 1, refund |-> r]}
  BY DEF Moved
<1>2. Events' = Events \cup {[type |-> t, version |-> version'] : t \in {type}}
  <2> DEFINE new == [type |-> type, version |-> version + 1, refund |-> r]
             image(e) == [type |-> e.type, version |-> e.version]
  <2>1. image(new) = [type |-> type, version |-> version']
    BY DEF Moved
  <2>2. Events' = {image(e) : e \in outbox} \cup {image(new)}
    BY <1>1 DEF Events
  <2>3. {[type |-> t, version |-> version'] : t \in {type}}
          = {[type |-> type, version |-> version']}
    OBVIOUS
  <2> QED
    BY <2>1, <2>2, <2>3 DEF Events
<1>3. Lifecycle!Move(from, to)
  BY <1>2 DEF Lifecycle!Move, Moved, Events
<1> QED
  BY <1>3 DEF Lifecycle!NextAsBuilt

LEMMA SilentMoveRefines ==
    ASSUME NEW from, NEW to,
           <<from, to>> \in Lifecycle!Transitions, to # "COMPLETED",
           {} \in Lifecycle!Announces(from, to),
           status = from, MovedSilently({from}, to)
    PROVE  Lifecycle!NextAsBuilt
<1>1. Events' = Events \cup {[type |-> t, version |-> version'] : t \in {}}
  BY DEF Events, MovedSilently
<1>2. Lifecycle!Move(from, to)
  BY <1>1 DEF Lifecycle!Move, MovedSilently, Events
<1> QED
  BY <1>2 DEF Lifecycle!NextAsBuilt

LEMMA StepRefines ==
    ASSUME Behind, RowStep
    PROVE  [Lifecycle!NextAsBuilt]_<<status, version, Events>>
<1> USE DEF Lifecycle!Transitions, Lifecycle!Announces
<1>1. CASE UNCHANGED <<status, version, outbox>>
  BY <1>1 DEF Events
<1>2. CASE Place
  <2>1. Moved({"ABSENT"}, "AWAITING_PAYMENT", "OrderPlaced")
    <3>1. outbox' = outbox \cup
            {[type |-> "OrderPlaced", version |-> version + 1, refund |-> FALSE]}
      BY <1>2 DEF Place, Behind
    <3>2. version' = version + 1
      BY <1>2 DEF Place, Behind
    <3> QED
      BY <1>2, <3>1, <3>2 DEF Place, Moved
  <2> QED
    BY <2>1, MoveRefines DEF Moved
<1>3. CASE Moved(Cancellable, "CANCELLED", "OrderCancelled")
  <2>1. CASE status = "AWAITING_PAYMENT"
    <3>1. Moved({"AWAITING_PAYMENT"}, "CANCELLED", "OrderCancelled")
      BY <1>3, <2>1 DEF Moved
    <3> QED
      BY <2>1, <3>1, MoveRefines
  <2>2. CASE status = "CONFIRMED"
    <3>1. Moved({"CONFIRMED"}, "CANCELLED", "OrderCancelled")
      BY <1>3, <2>2 DEF Moved
    <3> QED
      BY <2>2, <3>1, MoveRefines
  <2> QED
    BY <1>3, <2>1, <2>2 DEF Moved, Cancellable
<1>4. CASE Moved({"CONFIRMED"}, "PREPARING", "OrderPreparationStarted")
  BY <1>4, MoveRefines DEF Moved
<1>5. CASE Moved({"PREPARING"}, "READY_FOR_DELIVERY", "OrderReadyForDelivery")
  BY <1>5, MoveRefines DEF Moved
<1>6. CASE Moved({"AWAITING_PAYMENT"}, "CONFIRMED", "OrderConfirmed")
  BY <1>6, MoveRefines DEF Moved
<1>7. CASE MovedSilently({"AWAITING_PAYMENT"}, "CANCELLED")
  BY <1>7, SilentMoveRefines DEF MovedSilently
<1>8. CASE MovedSilently({"READY_FOR_DELIVERY"}, "DELIVERING")
  BY <1>8, SilentMoveRefines DEF MovedSilently
<1>9. CASE MovedSilently({"DELIVERING", "READY_FOR_DELIVERY"}, "COMPLETED")
  <2>1. Lifecycle!CompleteSilently
    BY <1>9 DEF MovedSilently, Lifecycle!CompleteSilently, Events
  <2> QED
    BY <2>1 DEF Lifecycle!NextAsBuilt
<1> QED
  BY <1>1, <1>2, <1>3, <1>4, <1>5, <1>6, <1>7, <1>8, <1>9 DEF RowStep

\* Ordering implements the lifecycle but for the way it completes an Order:
\* whatever transactions overlap and whatever is delivered, each commit is one
\* transition with its event and version, a silent completion, or changes
\* nothing (the guarded UPDATEs of OrderingService).
THEOREM ImplementsLifecycle == Spec => LifecycleAsBuilt
<1>1. Init => Lifecycle!Init
  BY DEF Init, Lifecycle!Init
<1>2. IInv /\ [Next]_vars => [Lifecycle!NextAsBuilt]_<<status, version, Events>>
  BY StepShape, StepRefines DEF IInv
<1> QED
  BY <1>1, <1>2, Invariance, PTL DEF Spec, LifecycleAsBuilt, Lifecycle!AsBuilt, Events
=============================================================================
