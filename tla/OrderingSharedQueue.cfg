\* RabbitMQ: both consumers of the context read one queue.
SPECIFICATION FairSpec
CONSTANTS
    r1 = r1
    pay1 = pay1
    del1 = del1
    Requests <- OneRequest
    PaymentConsumers <- OnePayment
    DeliveryConsumers <- OneDelivery
    Foreign <- HappyEvents
    SharedQueue = TRUE
    MaxRedeliveries = 0
    MaxAborts = 0
PROPERTIES
    CompletesWhenDelivered
\* The model rests once no event is left.
CHECK_DEADLOCK FALSE
