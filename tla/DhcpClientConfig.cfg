SPECIFICATION Spec
CONSTANTS
    InitialTimeout = 1
    MaxTimeout = 16
    TimeoutSpan = 0
    MillisSpan = 20
    SecondsSpan = 1024
    NoGateway = FALSE
    Offers <- TwoOffers
    Acks <- ConfigAcks
    FailingCalls = {"bringUp", "bringDown", "setMtu", "setAddress", "route"}
    Horizon = 4
INVARIANTS ReplyAnswersLastMsg BoundIsConfigured HaltedHasNoLease
PROPERTY ImplementsLease
