SPECIFICATION FairSpec
CONSTANTS
    Addrs = {1, 2}
    Gateways = {8, 9}
    Mtus = {0, 1400}
    NoGateway = FALSE
    Refusable = {"send", "flags", "mtu", "addr", "ack", "route"}
    MaxIndex = 3
INVARIANTS TypeOK SuccessIsApplied RouteHasAddress
PROPERTY HandlerEnds
CHECK_DEADLOCK FALSE
