SPECIFICATION Spec
CONSTANTS
    Elements <- SevenIds
    None = None
    MinCapacity = 4
    Size = 3
    Increasing = TRUE
    MaxSteals = 7
PROPERTIES
    MinIsReturned
