SPECIFICATION Spec
CONSTANTS
    Jobs = {j1}
    Workers = {w1, w2}
    MaxRetry = 2
    Concurrency = 1
    MaxFaults <- LifecycleFaults
    Nobody = nobody
INVARIANTS
    AttemptsBounded
    StrandedBounded
PROPERTIES
    LifecycleSpec
CHECK_DEADLOCK FALSE
