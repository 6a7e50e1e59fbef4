SPECIFICATION FairSpec
CONSTANTS
    a1 = a1
    a2 = a2
    t1 = t1
    t2 = t2
    s1 = s1
    NoAgent = NoAgent
    Sessions <- MCSessions
    Agents <- OneAgent
    Threads <- MCThreads
    MarkAgents <- AnyTurns
    MaxTurns = 1
    MaxFailures = 1
PROPERTIES
    WaitersGetOut
    DrainReturns
CHECK_DEADLOCK FALSE
