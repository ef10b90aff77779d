CONSTANTS
    LKeys <- MCLKeys
    LVals <- MCVals
    RKeys <- MCRKeys
    RVals <- MCVals

SPECIFICATION Spec

INVARIANTS
    TypeOK
    OrderSortsComparableKeys
    AggregateMatchesSpec
    HashJoinMatchesNestedLoopOnIntegerKeys
    SelectPageMatchesSpec
    HavingSelectsGroups
    SelectWhereMatchesFilter
    ResultsAreRectangular
