SPECIFICATION Spec
CONSTANTS
    r1 = r1
    u1 = u1
    u2 = u2
    y1 = y1
    b1 = b1
    b2 = b2
    NoSession = NoSession
    NoJob = NoJob
    Reconcilers <- OneReconciler
    Updaters <- OneUpdater
    Syncers <- OneSyncer
    Beats <- None
    MaxWakeAttempts = 3
    MaxRetries = 1
    MaxUpdates = 1
    MaxSyncs = 1
    MaxBeats = 0
    MaxGatewayErrors = 1
    MaxTimeouts = 2
    MaxFaults = 1
VIEW InUse
INVARIANTS
    TypeOK
    AutoWakesBounded
    LockedOutOnlyByRace
PROPERTIES
    GenerationRunsOnce
CHECK_DEADLOCK FALSE
