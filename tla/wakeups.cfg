SPECIFICATION FairSpec
CONSTANTS
    p1 = p1
    p2 = p2
    d1 = d1
    d2 = d2
    u1 = u1
    u2 = u2
    u3 = u3
    Processes = {p1, p2}
    Delegations = {d1, d2}
    Turns = {u1, u2, u3}
    MaxDeliveries = 2
    Budgets <- Mixes
INVARIANTS
    TypeOK
    DeliveredOnce
    NothingIsDropped
    WakeupsAreAwaited
PROPERTIES
    CompletionsSettle
CHECK_DEADLOCK FALSE
