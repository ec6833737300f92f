\* Both transports, overlapping consumers and dispatchers, two faults.
SPECIFICATION FairSpec
CONSTANTS
    d1 = d1
    d2 = d2
    Deliveries <- TwoDeliveries
    Transports <- BothTransports
    MaxAttempts = 2
    MaxCopies = 3
    MaxFaults = 2
    NumEvents = 2
    Traced = 1
    Limit = 2
    PublishAttempts = 2
    MaxDispatches = 3
CONSTRAINT OneComplication
INVARIANTS
    TypeOK
    EffectOnce
    DeadLetterKept
    HookNotForgotten
    PublishedIsNotLost
    AttemptsBackedByTries
PROPERTIES
    HandledForGood
    PublishedForGood
    EventuallyHandled
\* The model rests once every message is settled and no call is left.
CHECK_DEADLOCK FALSE
