CONSTANTS
    Tables <- MCTables
    ColNames <- MCColNames
    Vals <- MCVals
    Stmts <- MCStmtsFitting

SPECIFICATION Spec

INVARIANTS
    RowsConformToSchema
