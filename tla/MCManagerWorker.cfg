SPECIFICATION Spec
CONSTANTS
    NumManagers = 2
    WorkersPerManager = 2
    InitialWork = 2
    MaxWork = 3
    NULL = NULL
CHECK_DEADLOCK FALSE
INVARIANTS
    WorkInOnePlace
    SentHomeOnlyWhenDone
    HangsExplained
PROPERTIES
    EndsAfterMainWorker
