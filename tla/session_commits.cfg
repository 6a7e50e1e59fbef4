SPECIFICATION Spec
CONSTANTS
    a1 = a1
    a2 = a2
    t1 = t1
    t2 = t2
    s1 = s1
    NoAgent = NoAgent
    Sessions <- MCSessions
    Agents <- MCAgents
    Threads <- MCThreads
    MarkAgents <- OwnedTurns
    MaxTurns = 2
    MaxFailures = 1
SYMMETRY Symmetry
INVARIANTS
    TypeOK
    SegmentsCutTheUncommittedWork
    CommitsAreSerialised
    CommittedTurnsWereExtracted
    DirtyTurnsKeepTheirOwner
    DrainLeavesNothingBehind
PROPERTIES
    ImplementsExtraction
CHECK_DEADLOCK FALSE
