SPECIFICATION Spec
CONSTANTS
    Images <- MCImages
    Paths <- MCPaths
    Names <- MCNames
    RootId <- MCRoot
    NoTable = NoTable
INVARIANTS
    TypeOK
    LookupReadsInside
    RootIsRegistered
    AnswerIsPathMeaning
PROPERTY
    FindReturns
CHECK_DEADLOCK FALSE
