SPECIFICATION Spec
CONSTANTS
    N = 3
    Jobs = {j1, j2, j3}
    NULL = NULL
    Smart = {}
    Joins <- JoinTwice
    Forkers <- AnyFunction
    Joiners <- OtherJobs
    Exiters = {}
    ContextLimit = 10000
    Sessions = 1
SYMMETRY JobSymmetry
INVARIANTS
    EveryJobInOnePlace
    NothingLeftBehind
PROPERTIES
    ImplementsForkJoin
