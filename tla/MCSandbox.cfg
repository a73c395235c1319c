SPECIFICATION Spec
CONSTANTS
    num_vps = 3
    num_tasks = 2
    MaxTasks = 2
    MaxSpurious = 2
    Uint = 16
    Ulong = 1048576
    CommandLines <- MCCommandLines
    Machines <- MCMachines
    Options <- MCOptions
INVARIANTS
    FinishedMeansDone
    PairInRange
    TableSpansRange
    DefinedWhenWellSet
    NotBelowWatermark
    UnitUniform
PROPERTIES
    ProgramEnds
    ThreadsFinish
CHECK_DEADLOCK FALSE
