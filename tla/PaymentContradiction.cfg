\* PaymentContradiction: a success that commits after the expiry.
SPECIFICATION Spec
CONSTANTS
    c1 = c1
    Callers <- OneCaller
    Answers <- HonestAnswers
    MaxAttempts = 1
    MaxGeneration = 1
    MaxCrashes = 0
    MaxStepErrors = 0
    Runtimes <- BothRuntimes
INVARIANTS
    NoContradiction
\* The model rests once every run is done and nobody calls.
CHECK_DEADLOCK FALSE
