SPECIFICATION FairSpec
CONSTANTS
    k1 = k1
    k2 = k2
    Stops <- OneStop
    MaxTurns = 2
    MaxStops = 1
    MaxCrashes = 1
    MaxAge = 2
    Timely = TRUE
    Text <- SameText
PROPERTIES
    StopFreesTheSession
    TurnsAreSettled
CHECK_DEADLOCK FALSE
