SPECIFICATION Spec
CONSTANTS
    Nothing = Nothing
    Garbage = Garbage
    OtherType = OtherType
    Absent = Absent
    Fails = Fails
    Prices = {0, 1, 2, 5, 40, NotFinite}
    Losses = {5}
    NotFinite = NotFinite
    Grain = 4
    MaxRate = 19
    Panic = Panic
    MaxProviders = 5
    Asked = {s1, s2}
    Listed = {s1, s2, s3}
    Quotes = {1, 2}
    MaxTickers = 3
    KnownExchanges = {x1, x2}
    Exchanges = {x1, x2, x3}
    DefaultExchanges = {x1}
    Pairs = {p1, p2}
    Symbols = {a, b}
    BadPair = BadPair
    Unset = Unset
    Malformed = Malformed
    Account = Account
    Validator = Validator
    MaxLoads = 0
    PoolPrices = {0, 3, 4, 5, 6, 8, 10}
CHECK_DEADLOCK FALSE
INVARIANT
    CoingeckoPricesAreQuoted
