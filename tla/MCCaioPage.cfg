SPECIFICATION Spec
CONSTANTS
    Events = {e1}
    Undecided = undecided
    Loads = {1, 2}
    Idle = idle
    NoAnswer = none
    Refused = refused
    Limit = 4
    Window = 2
    Lag = 1
    MaxEvents = 5
    MaxTime = 3
INVARIANTS
    TypeOK
    ShownIsTrue
    OneCardPerProposal
    WrongPairOnlyUnsettled
    PedroIsAsked
PROPERTIES
    SettlesOnLedger
CHECK_DEADLOCK FALSE
