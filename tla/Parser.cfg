CONSTANTS
    Texts <- MCTexts
    CaseMap <- MCCaseMap
    Keywords <- MCKeywords
    MaxTokens = 4
    NumberLit <- MCNumberLit
    MathTokens <- MCMathTokens
    MaxMathLen = 6
    Statements <- MCStatements

SPECIFICATION MCSpec

\* The lexer's stream ends (None) or fails; neither is a deadlock.
CHECK_DEADLOCK FALSE

INVARIANTS
    TypeOK
    TokensSpellText
    MathFoldMatchesReference
    ParsesSpecGrammar

PROPERTIES
    LexTerminates
