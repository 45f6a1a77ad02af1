SPECIFICATION Spec
CONSTANTS
    Options <- SomeOptions
    Xids <- SomeXids
    MaxOptions = 3
    MaxDamaged = 2
    MaxCut = 3
INVARIANTS TypeOK ReadsWhatWasWritten SentVerifies
PROPERTY ParsingEnds
CHECK_DEADLOCK FALSE
