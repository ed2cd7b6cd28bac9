SPECIFICATION Spec
CONSTANTS
    Jobs = {j1}
    Workers = {w1, w2}
    MaxRetry = 2
    Concurrency = 1
    MaxFaults <- RedeliveryFaults
    Nobody = nobody
INVARIANTS
    TypeOK
    HandlerHoldsTask
    SuccessHasAnswer
    AnswersBounded
    StrandedBounded
    ChargesHaveCause
PROPERTY
    ResultStays
CHECK_DEADLOCK FALSE
