SPECIFICATION FairSpec
CONSTANTS
    Keys = {16777248, 16777249, 16777251, 71, 49}
    Buttons = {1, 3}
    MaxInput = 3
    MaxFlight = 1
    MaxLeaves = 1
    MaxCopies = 2
    MaxRestarts = 1
INVARIANTS
    TypeOK
    NothingStuck
    PasteCurrent

    
CHECK_DEADLOCK FALSE
