SPECIFICATION Spec
CONSTANTS
    Salt = {s1, s2}
    Rates = {r1, r2}
    Nil = Nil
    MaxSequence = 2
    Faults = {"network", "refuse", "restart"}
SYMMETRY Symmetry
INVARIANTS
    InStep
    PooledTxRuns
