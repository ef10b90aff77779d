CONSTANTS
    Tables <- MCTables
    ColNames <- MCColNames
    Vals <- MCVals
    Stmts <- MCStmts

SPECIFICATION Spec

PROPERTIES
    DmlActsOnSelectedRows
