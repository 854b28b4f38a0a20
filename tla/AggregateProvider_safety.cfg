SPECIFICATION Spec
CONSTANTS
    Providers = {p1, p2, p3}
    Prices = {1, 2, 9}
    Nil = Nil
    NotFinite = NotFinite
INVARIANTS
    TypeOK
    ResultWasSeen
    MissingOnlyIfLacked
