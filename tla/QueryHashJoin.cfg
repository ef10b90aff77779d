CONSTANTS
    LKeys <- MCLKeys
    LVals <- MCVals
    RKeys <- MCRKeys
    RVals <- MCVals

SPECIFICATION Spec

INVARIANTS
    HashJoinMatchesNestedLoop
