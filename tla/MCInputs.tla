------------------------------ MODULE MCInputs ------------------------------
(***************************************************************************)
(* Checks the pure algorithms, Consolidation, Rates, Sources and Configu-  *)
(* ration, on every bounded input: a state is one input of one of them.    *)
(***************************************************************************)
EXTENDS Sources, Rates, Configuration, FiniteSets

CONSTANTS
    Prices, Losses, \* the prices a provider may give, and those it may give negated
    MaxProviders,   \* how many providers answer at most
    Asked,          \* the symbols an exchange is asked for
    Listed,         \* the symbols it lists
    Quotes,         \* the prices it quotes
    MaxTickers,     \* how many tickers its answer holds
    PoolPrices,     \* the prices of the uniswap pools
    Exchanges, DefaultExchanges,    \* named in the environment, by default
    Pairs, Symbols,                 \* of an exchange's map
    Account, Validator,             \* the key's address and another validator's
    MaxLoads                        \* how often the configuration is read at most

ASSUME InputsAssumption ==
    /\ Prices \subseteq Int \union {NotFinite} /\ Losses \subseteq Int
    /\ PoolPrices \subseteq Nat /\ Quotes \subseteq Nat
    /\ Nothing \notin Seq([symbol : Listed \union {Absent},
                           price : Quotes \union {Garbage, OtherType, Absent}])

Aggregate == INSTANCE Consolidation

VARIABLES
    prices,         \* what computeConsolidatedPrice is given
    answer,         \* what an exchange answers
    pools,          \* the uniswap pools: usdt, usdc, vsg
    loads,          \* the environments of the calls of Get in one process
    found           \* the global map as the last of these calls finds it

vars == <<prices, answer, pools, loads, found>>

Tickers == [symbol : Listed \union {Absent},
            price : Quotes \union {Garbage, OtherType, Absent}]
NoPools == <<Fails, Fails, Fails>>

\* The environments, with at most one exchange overridden in each.
SymbolsOfPairs == UNION {[ps -> Symbols] : ps \in SUBSET Pairs} \union [{BadPair} -> Symbols]
Overrides == {Unset, Malformed, <<>>} \union {e :> m : e \in Exchanges, m \in SymbolsOfPairs}
Environments == [required : BOOLEAN, override : Overrides, datasources : {Unset, Malformed},
                 validator : {Unset, Malformed, Validator}, mnemonic : {Account}]

DefaultSymbols ==
    [e \in DefaultExchanges |-> [p \in Pairs |-> CHOOSE s \in Symbols : TRUE]]

NoInput(v, none) == v = none /\ UNCHANGED v
NoLoads == NoInput(loads, <<>>) /\ UNCHANGED found

Init ==
    /\ prices = <<>> /\ answer = <<>> /\ pools = NoPools
    /\ loads = <<>> /\ found = DefaultSymbols

MorePrices ==
    /\ NoInput(answer, <<>>) /\ NoInput(pools, NoPools) /\ NoLoads
    /\ Len(prices) < MaxProviders
    /\ \E x \in Prices \union {-x : x \in Losses} : prices' = Append(prices, x)

MoreTickers ==
    /\ NoInput(prices, <<>>) /\ NoInput(pools, NoPools) /\ NoLoads
    /\ answer # Nothing /\ Len(answer) < MaxTickers
    /\ \E t \in Tickers : answer' = Append(answer, t)

NoAnswer ==
    /\ NoInput(prices, <<>>) /\ NoInput(pools, NoPools) /\ NoLoads
    /\ answer = <<>> /\ answer' = Nothing

Pools ==
    /\ NoInput(prices, <<>>) /\ NoInput(answer, <<>>) /\ NoLoads
    /\ pools = NoPools
    /\ \E usdt, usdc, vsg \in PoolPrices \union {Fails} : pools' = <<usdt, usdc, vsg>>

LastCall == Get(found, Last(loads))

\* A call that panics is the last one.
MoreLoads ==
    /\ NoInput(prices, <<>>) /\ NoInput(answer, <<>>) /\ NoInput(pools, NoPools)
    /\ Len(loads) < MaxLoads
    /\ loads # <<>> => LastCall.status # "panic"
    /\ \E e \in Environments : loads' = Append(loads, e)
    /\ found' = IF loads = <<>> THEN found ELSE LastCall.global

Next == MorePrices \/ MoreTickers \/ NoAnswer \/ Pools \/ MoreLoads

Spec == Init /\ [][Next]_vars

-----------------------------------------------------------------------------
(* Consolidation. *)

Results == Aggregate!Outcomes(prices)
Ties    == Aggregate!Ties(prices)
Finite  == Aggregate!AllFinite(prices)

Positions(P(_)) == {i \in DOMAIN prices : P(prices[i])}
Below(t)        == Cardinality(Positions(LAMBDA x : 2 * x < t))
Above(t)        == Cardinality(Positions(LAMBDA x : 2 * x > t))

\* As soon as one provider answers there is a price: removeOutliers never
\* removes everything, so the branch for an empty result is never taken and
\* a pair somebody has a price for is never abstained on
\* (aggregateprovider.go:108-112).
AnswersWhenAsked == prices # <<>> /\ Finite => \A r \in Results : r.valid

\* The consolidated price lies between the lowest and the highest price.
WithinRange ==
    prices # <<>> /\ Finite =>
        \A r \in Results : Below(r.twice) < Len(prices) /\ Above(r.twice) < Len(prices)

Exchanged(i) == [prices EXCEPT ![i] = prices[i + 1], ![i + 1] = prices[i]]

\* The order in which the provider map is ranged over, which Go leaves random,
\* shows in the result only if a price is exactly one standard deviation from the
\* mean (aggregateprovider.go:59,121): else exchanging two neighbours makes no
\* difference, and any order comes from any other by such exchanges.
OrderShowsOnlyInTies ==
    Ties = {} =>
        LET results == Results
        IN  \A i \in 1..(Len(prices) - 1) :
                \A r \in results, t \in Aggregate!Outcomes(Exchanged(i)) : r = t

\* When most providers agree on a price that price is the result, whatever
\* the others say: neither the mean nor the deviation they distort can make
\* the majority an outlier.
MajorityWins ==
    Finite => \A x \in Range(prices) :
        2 * Cardinality(Positions(LAMBDA y : y = x)) > Len(prices)
            => \A r \in Results : r = Aggregate!Price(2 * x)

\* The prices within one standard deviation, the ties left out or counted in.
Certain  == LET ties == Ties IN Positions(LAMBDA x : Aggregate!Inlier(prices, x, ties))
Possible == Positions(LAMBDA x : Aggregate!Inlier(prices, x, {}))

\* With three prices or more, and however rounding decides the ties: at most half
\* as many inliers are certain and below the result, or certain and above it, as
\* are possible. The result is never pulled out of the middle of the prices that
\* agree, and without a tie it is their median (aggregateprovider.go:109-113).
MedianOfInliers ==
    Len(prices) >= 3 /\ Finite =>
        LET certain == Certain
            most    == Cardinality(Possible)
        IN  \A r \in Results :
                /\ 2 * Cardinality({i \in certain : 2 * prices[i] < r.twice}) <= most
                /\ 2 * Cardinality({i \in certain : 2 * prices[i] > r.twice}) <= most
-----------------------------------------------------------------------------
(* The rate posted for a pair. *)

Rates == {ExchangeRates(<<r>>) : r \in Results}

Somebody(P(_)) == \E x \in Range(prices) : P(2 * x)

\* From the answers of the providers to the rate: it lies between what two of them
\* gave, less than a unit apart from cutting off decimals, and is never further from
\* zero than them all. So a pair with a price is posted as an abstention, 0, only
\* if somebody's price is that small, and the conversion ends the process only if
\* somebody gave a number that the chain's decimals cannot hold (feeder.go:94,
\* oracle.go:147): averages and sums of others do not get there.
RateWithinPrices ==
    prices # <<>> /\ Finite =>
        \A rates \in Rates :
            IF rates = Panic THEN Somebody(LAMBDA t : Abs(t) > Grain * MaxRate)
            ELSE LET rate == Grain * rates[1]
                 IN  /\ Somebody(LAMBDA t : t - Grain < rate)
                     /\ Somebody(LAMBDA t : rate < t + Grain)
                     /\ Somebody(LAMBDA t : Abs(rate) <= Abs(t))

\* An exchange that quotes NaN or an infinity cannot end the process while
\* three of them answer, however large the other prices: no price compares with
\* the mean then, all are removed and the pair is abstained on
\* (aggregateprovider.go:121). With one or two that price is passed on and
\* float64ToDec panics.
NotFiniteContained == Len(prices) >= 3 /\ ~Finite => Panic \notin Rates
-----------------------------------------------------------------------------
(* Sources. *)

Without(i) == RemoveAt(answer, i)
Indices == IF answer = Nothing THEN {} ELSE DOMAIN answer

FilteringExchanges ==
    {AscendexPriceUpdate(Asked, answer), BybitPriceUpdate(Asked, answer),
     MexcPriceUpdate(Asked, answer), OkexPriceUpdate(Asked, answer)}
Uniswap == UniswapPriceUpdate(TRUE, pools[1], pools[2], pools[3])

Quoted(s, p) == p \in Quotes /\ \E i \in Indices : answer[i] = [symbol |-> s, price |-> p]

\* Every price handed on was quoted for its symbol by the answer, as a number: one that
\* is missing or cannot be parsed is left out, not turned into a number
\* (ascendex.go:70, bybit.go:62, mexc.go:58, okex.go:67, gateio.go:56,
\* bitfinex.go:62).
PricesAreQuoted ==
    \A r \in FilteringExchanges \union {GateIoPriceUpdate(Asked, answer),
                                        BitfinexPriceUpdate(Asked, answer)} :
        \A s \in DOMAIN r.prices : Quoted(s, r.prices[s])

\* types/price.go:37: "If there's a failure in updating only one price then the
\* map can be returned without the provided symbol". A price that does not
\* parse costs these exchanges that ticker and no other.
OneBadPriceIsLocal ==
    \A i \in Indices : answer[i].price = Garbage =>
        /\ AscendexPriceUpdate(Asked, answer) = AscendexPriceUpdate(Asked, Without(i))
        /\ OkexPriceUpdate(Asked, answer) = OkexPriceUpdate(Asked, Without(i))
        /\ answer[i].symbol # Absent =>
             GateIoPriceUpdate(Asked, answer) = GateIoPriceUpdate(Asked, Without(i))

\* The price of ETH that uniswap gives is at most a tenth under and an eighth over
\* that of either pool, and so is the price of VSG over its price in ETH: one
\* distorted pool cannot move them further (uniswap.go:71-88).
EthNearBothPools ==
    Uniswap.status = "ok" =>
        LET eth == Uniswap.prices["ETHUSD"]
            vsg == Uniswap.prices["VSGUSD"]
        IN  \A pool \in {pools[1], pools[2]} :
                /\ 5 * eth >= 9 * pool /\ 4 * eth <= 9 * pool
                /\ 5 * vsg >= 9 * pools[3] * pool /\ 4 * vsg <= 9 * pools[3] * pool

\* types/price.go:36: "The returned map must map symbol to its float64 price, or
\* an error". A price coingecko returns is one the answer quotes.
CoingeckoPricesAreQuoted ==
    LET r == CoingeckoPriceUpdate(TRUE, Asked, answer)
    IN  \A s \in DOMAIN r.prices : Quoted(s, r.prices[s])
-----------------------------------------------------------------------------
(* Configuration. *)

Booted == IF loads = <<>> THEN [status |-> "none"]
          ELSE Boot(found, Last(loads))

\* The symbols of an exchange are those of the last environment read that names
\* it, or else the default ones.
Named(e) == {i \in DOMAIN loads : /\ loads[i].override \notin {Unset, Malformed}
                                  /\ e \in DOMAIN loads[i].override}
SymbolsOf(e) ==
    IF Named(e) = {} THEN DefaultSymbols[e]
    ELSE loads[CHOOSE i \in Named(e) : \A j \in Named(e) : j <= i].override[e]

\* A daemon that starts prices each pair of each exchange by the symbol its
\* operator gave for it, and no other pair: the map of an exchange is replaced,
\* not merged, also when it was changed by an earlier call or one that failed
\* later, and the exchange is asked for every symbol (config.go:101,
\* priceprovider.go:110,138).
PairsKeepTheirSymbols ==
    LET booted == Booted
    IN  booted.status = "started" =>
            \A e \in DOMAIN booted.providers :
                LET provider == booted.providers[e]
                    quoted   == [s \in provider.symbols |-> s]
                    given    == SymbolsOf(e)
                IN  \A p \in Pairs :
                        GetPrice(provider, p, quoted) =
                            IF p \in DOMAIN given
                            THEN [valid |-> TRUE, price |-> given[p]]
                            ELSE [valid |-> FALSE]
=============================================================================
