SPECIFICATION FairSpec
CONSTANTS
    MaxRetries = 2
    MaxConns = 4
    MaxHeight = 4
INVARIANT
    TypeOK
PROPERTIES
    ImplementsBlockFeed
    NoBlockWaits
    NoRedial
    CloseReturns
CHECK_DEADLOCK FALSE
