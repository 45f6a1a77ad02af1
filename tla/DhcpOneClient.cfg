SPECIFICATION Spec
CONSTANTS
    c1 = c1
    Clients <- OneClient
    Pool = {11, 12}
    MaxXid = 5
INVARIANTS TypeOK BoundIsLeased
CHECK_DEADLOCK FALSE
