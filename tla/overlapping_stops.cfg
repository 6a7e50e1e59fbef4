SPECIFICATION Spec
CONSTANTS
    k1 = k1
    k2 = k2
    Stops <- TwoStops
    MaxTurns = 1
    MaxStops = 2
    MaxCrashes = 0
    MaxAge = 0
    Timely = TRUE
    Text <- OwnText
INVARIANTS
    DuplicateStopIsSafe
CHECK_DEADLOCK FALSE
