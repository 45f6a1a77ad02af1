SPECIFICATION FairSpec
CONSTANTS
    Tablets <- SomeTablets
    Requested = {"none", "pp"}
    ResponseSize = 9
    MaxFaults = 3
    MaxLate = 2
INVARIANTS TypeOK SetUpFits
PROPERTIES StreamFits ResetEnds
CHECK_DEADLOCK FALSE
