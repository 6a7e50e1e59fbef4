SPECIFICATION Spec
CONSTANTS
    k1 = k1
    k2 = k2
    Stops <- OneStop
    MaxTurns = 1
    MaxStops = 1
    MaxCrashes = 0
    MaxAge = 0
    Timely = TRUE
    Text <- OwnText
PROPERTIES
    CancellingStays
CHECK_DEADLOCK FALSE
