SPECIFICATION FairSpec
CONSTANTS
    Jobs = {j1, j2}
    Workers = {w1}
    MaxRetry = 2
    Concurrency = 1
    MaxFaults <- QueueFaults
    Nobody = nobody
INVARIANT
    UnfinishedJobHasTask
PROPERTIES
    TaskSettles
    AcceptedJobEnds
CHECK_DEADLOCK FALSE
