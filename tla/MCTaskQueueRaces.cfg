SPECIFICATION Spec
CONSTANTS
    t1 = t1
    t2 = t2
    w1 = w1
    w2 = w2
    NoTask = NoTask
    Tasks <- OneTask
    Unhandled <- NoUnhandled
    Workers <- TwoWorkers
    MaxRetries = 1
    DrainLimit = 1
    MaxDefers = 1
    MaxFaults = 1
SYMMETRY WorkerSymmetry
INVARIANTS
    TypeOK
    NoSilentLoss
    DrainCovered
    AttemptsCounted
    DroppedOnlyWhenExhausted
