SPECIFICATION FairSpec
CONSTANTS
    Symbols = {s1, s2}
    UpdateTick = 8
    PriceTimeout = 15
    MaxFetchTime = 6
    Nil = Nil
INVARIANTS
    TypeOK
    NoGap
PROPERTIES
    ImplementsPriceStore
    CloseReturns
