SPECIFICATION FairSpec
CONSTANTS
    t1 = t1
    t2 = t2
    own = own
    root = root
    c1 = c1
    c2 = c2
    c3 = c3
    s1 = s1
    s2 = s2
    x1 = x1
    none = none
    Tabs = {t1, t2}
    Profiles = {own, root}
    Root = root
    Published = {c1, c2, c3}
    External = {x1}
    Unscoped = none
    ProfileOf <- ScopedProfileOf
    SessionOf <- ScopedSessionOf
    TabProfile <- OneProfile
    Confined = {t1}
    MaxAttempts = 2
    Budgets <- EventsOrRequests
INVARIANTS
    TypeOK
    NoRefreshIsLost
    NoStaleEntry
    ListsAreFresh
    SingleFlight
PROPERTIES
    EventsArrive
    RequestsEnd
CHECK_DEADLOCK FALSE
