SPECIFICATION Spec
CONSTANTS
    e1 = e1
    e2 = e2
    e3 = e3
    Events = {e2, e3}
    Type <- LongKeys
    Awaited = {e2}
    Binding <- ChatStar
    MaxNacks = 1
    Nobody = nobody
INVARIANT
    PublishedIsLogged
CHECK_DEADLOCK FALSE
