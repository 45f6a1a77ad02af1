SPECIFICATION Spec
CONSTANTS
    Parsers = {"V", "IV_1_4", "IV_1_3", "IV_1_2", "IV_1_1", "TabletPC"}
    Samples <- SomeSamples
    minPress = 20
    MaxLost = 2
INVARIANTS TypeOK ShownIsTool DecodedIsSent
PROPERTIES ToolIsKept
