SPECIFICATION NoTimeoutSpec
CONSTANTS
    Symbols = {s1}
    UpdateTick = 2
    PriceTimeout = 3
    MaxFetchTime = 3
    Nil = Nil
PROPERTY
    GracefulShutdown
