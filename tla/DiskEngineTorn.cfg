CONSTANTS
    Keys <- MCKeys
    Vals <- MCVals
    ValLen <- MCValLen
    NoValue = NoValue
    MaxLogCells = 9
SPECIFICATION SpecTorn
INVARIANTS
    RunningEngineServesWrittenValues
CHECK_DEADLOCK FALSE
