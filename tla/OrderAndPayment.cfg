\* Ordering: one queue per context consumer, overlapping requests and replicas,
\* redeliveries and rollbacks.  Payment: both runtimes, crashes, failing steps
\* and redeliveries, without callbacks.
SPECIFICATION FairBoth
CONSTANTS
    r1 = r1
    r2 = r2
    pay1 = pay1
    del1 = del1
    del2 = del2
    Requests <- TwoRequests
    PaymentConsumers <- OnePayment
    DeliveryConsumers <- TwoDeliveries
    Foreign <- MixedEvents
    SharedQueue = FALSE
    MaxRedeliveries = 2
    MaxAborts = 1
    Callers <- NoCaller
    Answers <- AllAnswers
    MaxAttempts = 3
    MaxGeneration = 2
    MaxCrashes = 2
    MaxStepErrors = 2
    Runtimes <- BothRuntimes
INVARIANTS
    TypeOK
    CancelledNotPrepared
    DeliveryNeverThrows
    OneChargePerGeneration
PROPERTIES
    LifecycleAsBuilt
    CompletesWhenDelivered
    RunDecides
\* The model rests once no event is left and every run is done.
CHECK_DEADLOCK FALSE
