SPECIFICATION Spec
CONSTANTS
    e1 = e1
    m1 = m1
    m2 = m2
    q1 = q1
    q2 = q2
    q3 = q3
    NoMessage = NoMessage
    NoRow = NoRow
    Events <- OneEvent
    Messages <- MessageSet
    Requests <- ThreeRequests
    MaxRequests = 4
INVARIANTS
    TypeOK
    AnswersAgree
PROPERTIES
    ImplementsLedger
CHECK_DEADLOCK FALSE
