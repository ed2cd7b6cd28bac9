SPECIFICATION Spec
CONSTANTS
    Jobs = {j1}
    Workers = {w1}
    MaxRetry = 3
    Concurrency = 2
    MaxFaults <- Timeout
    Nobody = nobody
INVARIANT RejectedJobIsNotRun
CHECK_DEADLOCK FALSE
