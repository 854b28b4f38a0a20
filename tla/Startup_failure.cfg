SPECIFICATION Spec
CONSTANTS
    TickPeriod = 10
    QueryTimeout = 3
    InitTimeout = 15
    MaxSetup = 6
    MaxFailures = 3
CHECK_DEADLOCK FALSE
INVARIANT
    StartsDespiteOneFailure
