SPECIFICATION Spec
CONSTANTS
    Whitelists = {w1, w2}
    Periods = {2, 3}
    MaxHeight = 5
    Nil = Nil
INVARIANTS
    TypeOK
    NoUpdateLost
PROPERTY
    ImplementsEventRelay
