SPECIFICATION Spec
CONSTANTS
    N = 2
    Jobs = {j1, j2, j3, j4}
    NULL = NULL
    Smart = {j1, j2, j3, j4}
    Joins <- JoinOnce
    Forkers <- AnyFunction
    Joiners <- NobodyElse
    Exiters = {j1, j2, j3, j4}
    ContextLimit = 10000
    Sessions = 2
SYMMETRY JobSymmetry
INVARIANTS
    IdleCountExact
    NoVPLeavesBeforeTerminate
    IInv
    ContextMatchesStack
    NotBuried
    NoUseAfterDelete
PROPERTIES
    JoinReadsFinalResult
