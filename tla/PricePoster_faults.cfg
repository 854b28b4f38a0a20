SPECIFICATION FairSpec
CONSTANTS
    Salt = {s1, s2, s3}
    Rates = {r1}
    Nil = Nil
    MaxSequence = 2
    Faults = {"network", "ambiguous", "refuse", "outOfGas", "evict", "expire", "restart"}
INVARIANTS
    TypeOK
    NoEarlyReveal
    SingleInFlight
PROPERTIES
    ImplementsCommitReveal
    VotesResume
