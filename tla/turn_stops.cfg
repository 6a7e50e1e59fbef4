SPECIFICATION Spec
CONSTANTS
    k1 = k1
    k2 = k2
    Stops <- TwoStops
    MaxTurns = 2
    MaxStops = 2
    MaxCrashes = 1
    MaxAge = 2
    Timely = TRUE
    Text <- SameText
SYMMETRY Symmetry
INVARIANTS
    TypeOK
    RowsInTurnOrder
    PromptsAreKept
    NothingTwice
    AgentsDoNotOverlap
    StoppedAgentIsInterrupted
    VerdictIsSaved
    StreamIsClosed
    FinishedTurnIsForgotten
    RunsHaveTheirOwner
    CompletedIsOnDisk
PROPERTIES
    SavedRowsStay
CHECK_DEADLOCK FALSE
