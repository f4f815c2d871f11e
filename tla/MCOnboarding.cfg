SPECIFICATION Spec
CONSTANTS
    MaxDialogs = 2
    MaxPolls = 2
    MaxMessages = 2
    MaxTrouble = 2
    None = none
INVARIANTS
    TypeOK
    StaleIsExplained
    ActsOnWhatIsShown
PROPERTIES
    NeverWaitsForGood
CHECK_DEADLOCK FALSE
