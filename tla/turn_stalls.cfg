SPECIFICATION Spec
CONSTANTS
    k1 = k1
    k2 = k2
    Stops <- OneStop
    MaxTurns = 2
    MaxStops = 1
    MaxCrashes = 1
    MaxAge = 2
    Timely = FALSE
    Text <- OwnText
INVARIANTS
    RowsInTurnOrder
    PromptsAreKept
CHECK_DEADLOCK FALSE
