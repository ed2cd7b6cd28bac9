SPECIFICATION FairSpec
CONSTANTS
    e1 = e1
    e2 = e2
    e3 = e3
    Events = {e1, e2, e3}
    Type <- MixedEvents
    Awaited = {e2}
    Binding <- ChatStar
    MaxNacks = 1
    Nobody = nobody
INVARIANTS
    TypeOK
    AnswersAreOwn
PROPERTY
    PublishEnds
CHECK_DEADLOCK FALSE
