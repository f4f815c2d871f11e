SPECIFICATION Spec
CONSTANTS
    r1 = r1
    u1 = u1
    u2 = u2
    y1 = y1
    b1 = b1
    b2 = b2
    NoSession = NoSession
    NoJob = NoJob
    Reconcilers <- OneReconciler
    Updaters <- OneUpdater
    Syncers <- None
    Beats <- TwoBeats
    MaxWakeAttempts = 3
    MaxRetries = 1
    MaxUpdates = 1
    MaxSyncs = 0
    MaxBeats = 2
    MaxGatewayErrors = 0
    MaxTimeouts = 0
    MaxFaults = 0
SYMMETRY BeatSymmetry
INVARIANTS
    WaitIsCovered
    AutoWakesBounded
CHECK_DEADLOCK FALSE
