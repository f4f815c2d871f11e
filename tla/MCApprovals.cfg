SPECIFICATION FairSpec
CONSTANTS
    a1 = a1
    a2 = a2
    q1 = q1
    q2 = q2
    None = None
    Tasks <- TaskIds
    Approvals <- ApprovalIds
    Requests <- RequestIds
    MaxRequests = 4
INVARIANTS
    TypeOK
    OnePendingPerTask
    OnlyUnsortedInsertsDeadlock
    LeadToldOfOutcome
PROPERTIES
    RequestsEnd
CHECK_DEADLOCK FALSE
