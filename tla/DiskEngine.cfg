CONSTANTS
    Keys <- MCKeys
    Vals <- MCVals
    ValLen <- MCValLen
    NoValue = NoValue
    MaxLogCells = 9
SPECIFICATION Spec
INVARIANTS
    TypeOK
    KeyDirDerivedFromLog
PROPERTIES
    KVSpec
    RecoveryPreservesContents
