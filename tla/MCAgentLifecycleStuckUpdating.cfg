SPECIFICATION FairSpec
CONSTANTS
    r1 = r1
    u1 = u1
    u2 = u2
    y1 = y1
    b1 = b1
    b2 = b2
    NoSession = NoSession
    NoJob = NoJob
    Reconcilers <- OneReconciler
    Updaters <- OneUpdater
    Syncers <- None
    Beats <- None
    MaxWakeAttempts = 3
    MaxRetries = 3
    MaxUpdates = 1
    MaxSyncs = 0
    MaxBeats = 0
    MaxGatewayErrors = 1
    MaxTimeouts = 0
    MaxFaults = 0
PROPERTIES
    SilentAgentGoesOffline
CHECK_DEADLOCK FALSE
