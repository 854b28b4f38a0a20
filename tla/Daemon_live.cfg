SPECIFICATION FairSpec
CONSTANTS
    Whitelists = {w1, w2}
    Periods = {1}
    MaxHeight = 2
    Nil = Nil
    Providers = {e1}
PROPERTIES
    VotingPeriodsAdvance
    EveryPeriodHandled
    ParamsPropagate
    ShutdownCompletes
