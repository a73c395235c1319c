SPECIFICATION FairSpec
CONSTANTS
    N = 2
    Jobs = {j1, j2, j3}
    NULL = NULL
    Smart = {}
    Joins <- JoinOnce
    Forkers <- AnyFunction
    Joiners <- NobodyElse
    Exiters = {}
    ContextLimit = 10000
    Sessions = 1
PROPERTIES
    JoinReturns
    ForkedJobFinishes
    LastVPLeaves
