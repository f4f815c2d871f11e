SPECIFICATION FairSpec
CONSTANTS
    t1 = t1
    t2 = t2
    w1 = w1
    w2 = w2
    NoTask = NoTask
    Tasks <- TaskSet
    Unhandled <- UnhandledSet
    Workers <- OneWorker
    MaxRetries = 2
    DrainLimit = 1
    MaxDefers = 1
    MaxFaults = 0
INVARIANTS
    NoRerun
PROPERTIES
    EventuallySettled
