SPECIFICATION Spec
CONSTANTS
    N = 1
    Jobs = {j1, j2}
    NULL = NULL
    Smart = {}
    Joins <- JoinOnce
    Forkers <- AnyFunction
    Joiners <- NobodyElse
    Exiters = {j1, j2}
    ContextLimit = 10000
    Sessions = 1
PROPERTIES
    ExitDefinesResult
