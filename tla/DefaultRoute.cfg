SPECIFICATION Spec
CONSTANTS
    Addrs = {1}
    Gateways = {8, 9}
    Mtus = {0}
    NoGateway = FALSE
    Refusable = {}
    MaxIndex = 1
INVARIANT RouteIsReplaced
CHECK_DEADLOCK FALSE
