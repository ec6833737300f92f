\* One request and one replica of each consumer, each on its own queue.
SPECIFICATION FairSpec
CONSTANTS
    r1 = r1
    pay1 = pay1
    del1 = del1
    Requests <- OneRequest
    PaymentConsumers <- OnePayment
    DeliveryConsumers <- OneDelivery
    Foreign <- HappyEvents
    SharedQueue = FALSE
    MaxRedeliveries = 0
    MaxAborts = 0
PROPERTIES
    LifecycleKept
\* The model rests once no event is left.
CHECK_DEADLOCK FALSE
