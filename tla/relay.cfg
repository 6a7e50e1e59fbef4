SPECIFICATION FairSpec
CONSTANTS
    t1 = t1
    t2 = t2
    Tabs = {t1, t2}
    Sender = t1
    MaxEvents = 4
    Cap = 2
    Budgets <- Visits
INVARIANTS
    TypeOK
PROPERTIES
    
    TabsFinish
CHECK_DEADLOCK FALSE
