SPECIFICATION Spec
CONSTANTS
    Generators = {server}
    Callers = {c1, c2}
    Node <- SameNode
    NodeRange = 4
    SequenceRange = 3
    MaxClock = 4
    MaxSetBack = 2
    MaxRestarts = 1
    Nobody = nobody
INVARIANT
    TypeOK
PROPERTY
    IdsIncrease
CHECK_DEADLOCK FALSE
