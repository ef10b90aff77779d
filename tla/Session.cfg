CONSTANTS
    Tables <- MCTables
    ColNames <- MCColNames
    Vals <- MCVals
    Stmts <- MCStmts

SPECIFICATION Spec

INVARIANTS
    TypeOK
    IndexConsistent
    NoOrphans
    RowStoredUnderItsKey
