SPECIFICATION FairSpec
CONSTANTS
    Suffixes = {"_a", "_b"}
    Keys <- ModeKey
    Lines = 3
    LineOf <- ThreeLines
    Failing = {"unwritable", "loop", "print", "mv", "klog"}
    CallsPerBoot = 1
    MaxBoots = 2
PROPERTIES ScriptReports
CHECK_DEADLOCK FALSE
