SPECIFICATION FairSpec
CONSTANTS
    InitialTimeout = 1
    MaxTimeout = 16
    TimeoutSpan = 1
    MillisSpan = 20
    SecondsSpan = 1024
    NoGateway = FALSE
    Offers <- OneOffer
    Acks <- TimedAcks
    FailingCalls = {"route"}
    Horizon = 60
INVARIANTS TypeOK WakesBeforeLeaseEnds GivesUpInTime
PROPERTIES WaitsEnd RenewalEndsOrIsPutOff
