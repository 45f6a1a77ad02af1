SPECIFICATION Spec
CONSTANTS
    Suffixes = {"_a", "_b"}
    Keys <- BothKeys
    Lines = 3
    LineOf <- ThreeLines
    Failing = {"impl", "open", "write", "unwritable", "loop", "print", "mv", "klog"}
    CallsPerBoot = 2
    MaxBoots = 1
INVARIANTS TypeOK OneSlot  ModeIsSet
PROPERTIES OnlyHalTruncates
CHECK_DEADLOCK FALSE
