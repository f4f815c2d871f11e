SPECIFICATION Spec
CONSTANTS
    t1 = t1
    t2 = t2
    r1 = r1
    r2 = r2
    Tasks <- TaskIds
    Requests <- RequestIds
    ApprovalForDone = TRUE
    ReviewBeforeDone = TRUE
    PendingBlocks = TRUE
    MaxRequests = 3
    Same = same
SYMMETRY Symmetry
INVARIANTS
    TypeOK
    BlockedTasksWait
    CyclesNeedARace
PROPERTIES
    DoneIsGated
CHECK_DEADLOCK FALSE
