SPECIFICATION FairSpec
CONSTANTS
    chat = chat
    stream = stream
    complete = complete
    completeStream = completeStream
    Turns = {chat, stream, complete, completeStream}
    Kind <- OfEachKind
    Stalled = {completeStream}
    MaxConcurrentLLM = 1
    MaxPieces = 2
    Nothing = nothing
INVARIANTS
    TypeOK
    SlotsAreHeld
    DoneIsWhole
PROPERTY
    TurnEnds
CHECK_DEADLOCK FALSE
