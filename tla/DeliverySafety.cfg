\* Two replicas, two generations of three attempts, throwing or lost steps, a crash.
SPECIFICATION Spec
CONSTANTS
    p1 = p1
    p2 = p2
    t1 = t1
    t2 = t2
    Replicas <- TwoReplicas
    Durable = "durable"
    Tags <- TwoTags
    Answers <- AllAnswers
    MaxAttempts = 3
    MaxDeliveries = 3
    MaxGeneration = 2
    MaxThrows = 2
    MaxCrashes = 1
    Runtimes <- BothRuntimes
INVARIANTS
    TypeOK
    DeliveredOnce
    SuccessIsDelivered
    DoneRunDecided
PROPERTIES
    LifecycleKept
SYMMETRY ReplicaSymmetry
\* The model rests once every run is done and nobody retries.
CHECK_DEADLOCK FALSE
