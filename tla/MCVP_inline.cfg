SPECIFICATION FairSpec
CONSTANTS
    N = 1
    Jobs = {j1, j2, j3}
    NULL = NULL
    Smart = {}
    Joins <- JoinOnce
    Forkers <- AnyFunction
    Joiners <- NobodyElse
    Exiters = {}
    ContextLimit = 0
    Sessions = 1
PROPERTIES
    JoinReturns
