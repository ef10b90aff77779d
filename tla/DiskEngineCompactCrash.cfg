CONSTANTS
    Keys <- MCKeys
    Vals <- MCVals
    ValLen <- MCValLen
    NoValue = NoValue
    MaxLogCells = 9
SPECIFICATION SpecCrashAnywhere
INVARIANTS
    KeyDirDerivedFromLog
CHECK_DEADLOCK FALSE
