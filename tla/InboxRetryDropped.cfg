\* InboxRetryDropped: one effect throws once and RabbitMQ holds the retry.
SPECIFICATION InboxSpec
CONSTANTS
    d1 = d1
    d2 = d2
    Deliveries <- OneDelivery
    Transports <- RabbitMQ
    MaxCopies = 1
    MaxAttempts = 3
    MaxFaults = 1
INVARIANTS
    NoSilentLoss
\* The model rests once every message is settled.
CHECK_DEADLOCK FALSE
