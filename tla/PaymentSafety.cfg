\* Two generations of two attempts with an overlapping callback, and one more
\* complication in each behaviour.
SPECIFICATION Spec
CONSTANTS
    c1 = c1
    Callers <- OneCaller
    Answers <- KeyAnswers
    MaxAttempts = 2
    MaxGeneration = 2
    MaxCrashes = 1
    MaxStepErrors = 1
    Runtimes <- BothRuntimes
CONSTRAINT OneComplication
INVARIANTS
    TypeOK
    DecisionsAnnounced
    RetryOnlyAfterRefusal
    OneCharge
    AttemptReflectsCallback
PROPERTIES
    FinalDecision
\* The model rests once every run is done and nobody calls.
CHECK_DEADLOCK FALSE
