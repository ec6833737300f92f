\* Two replicas, two refunds of which both together are refused, and a debit.
SPECIFICATION FairSpec
CONSTANTS
    p1 = p1
    p2 = p2
    Replicas <- TwoReplicas
    Durable = "durable"
    Refunds <- TwoRefunds
    Amount <- SmallAmounts
    Gross = 8
    FeeBasisPoints = 1500
    Adjustment <- Debit
    MaxAmount = 8
    MaxDeliveries = 3
    MaxThrows = 1
    MaxCrashes = 1
    Fates <- AllFates
    Runtimes <- BothRuntimes
INVARIANTS
    TypeOK
    FactsMakeEligible
    DoneRunRecorded
PROPERTIES
    LedgerKept
    EligibleRecorded
\* The model rests once every message is handled or dead.
CHECK_DEADLOCK FALSE
