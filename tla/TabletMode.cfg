SPECIFICATION FairSpec
CONSTANTS
    Nodes <- SomeNodes
    QueueSize = 6
    MaxTurns = 5
INVARIANTS TypeOK
PROPERTIES NeverBackward LidFollows
CHECK_DEADLOCK FALSE
