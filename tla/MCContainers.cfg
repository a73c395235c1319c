SPECIFICATION ContainersSpec
CONSTANTS
    Elements <- SixteenIds
    None = None
    MinCapacity = 4
    Size = 3
    Increasing = TRUE
    MaxSteals = 1
    Values = {job}
    Garbage = Garbage
    StackMinCapacity = 12
    StackSize = 4
    MaxDepth = 100
INVARIANTS
    InBounds
    InForkOrderUntilTheft
    ContextsKept
PROPERTIES
    IsPool
    CallReturns
