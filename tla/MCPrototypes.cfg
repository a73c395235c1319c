SPECIFICATION Spec
CONSTANTS
    NULL = NULL
    NumDaemons = 2
    VPsPerDaemon = 2
    NumJobs = 2
    NumVPs = 3
    GraphJobs = {j1, j2, j3, j4}
    Main = Main
    N = 3
    ListJobs = {j1, j2, j3}
    Joins = 2
    ContextLimit = 0
SYMMETRY JobSymmetry
CHECK_DEADLOCK FALSE
INVARIANTS
    RunOnce
    OneAnswerPerRequest
    EventStopsExplained
    OneExecutor
    MonitorStopsExplained
    UseAfterDeleteNeedsRace
    CounterCoversJoins
    NothingLeftBehind
PROPERTIES
    RerunOnlyUnanswered
