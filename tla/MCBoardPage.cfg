SPECIFICATION FairSpec
CONSTANTS
    t1 = t1
    t2 = t2
    Tasks <- TaskSet
    Existing <- NoneOrOne
    Requests = {1, 2, 3}
    Mine = {1, 2}
    MaxDrops = 1
INVARIANTS
    TypeOK
    StaleIsExplained
    DoubledOnlyIfCreatedHere
PROPERTIES
    Converges
CHECK_DEADLOCK FALSE
