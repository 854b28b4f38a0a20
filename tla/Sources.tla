------------------------------ MODULE Sources ------------------------------
(***************************************************************************)
(* The ten FetchPricesFuncs (feeder/priceprovider/sources): what each      *)
(* makes of the answer of its exchange. An answer is Nothing (no answer,   *)
(* an unreadable body, JSON of another shape) or a sequence of tickers     *)
(* [symbol, price], in the exchange's order. Each function returns prices  *)
(* or an error, or panics, and counts the fetch in fetched_prices_total or *)
(* does not.                                                               *)
(***************************************************************************)
EXTENDS Naturals, SequencesExt

CONSTANTS
    Nothing,    \* no usable answer
    Garbage,    \* a price that is a string but not a number
    OtherType,  \* a price of another JSON type than the exchange documents
    Absent,    \* a ticker without a price, or without a symbol
    Fails       \* a call to a contract that fails

Words == {Nothing, Garbage, OtherType, Absent, Fails}
ASSUME WordsAssumption == Words \intersect Nat = {} /\ Garbage \notin {OtherType, Absent}

NoPrices == [s \in {} |-> 0]
Fetched(prices) == [status |-> "ok", prices |-> prices, counted |-> TRUE]
Failed          == [status |-> "error", prices |-> NoPrices, counted |-> TRUE]
FailedUncounted == [status |-> "error", prices |-> NoPrices, counted |-> FALSE]
Panicked        == [status |-> "panic", prices |-> NoPrices, counted |-> FALSE]

-----------------------------------------------------------------------------
(* Building blocks. *)

SomeTicker(tickers, P(_)) == \E t \in ToSet(tickers) : P(t)
HasPrice(t, kinds) == t.price \in kinds

\* rawPrices[symbol] = price, ticker after ticker of those that are kept: the
\* last one stays.
Collect(tickers, kept) ==
    [s \in {tickers[i].symbol : i \in kept} |->
        tickers[Max({i \in kept : tickers[i].symbol = s})].price]

Wanted(symbols, tickers) == {i \in DOMAIN tickers : tickers[i].symbol \in symbols}

\* Mutant of Parsed: ParseFloat's error is not looked at.
Parsed_Unchecked(tickers) == DOMAIN tickers

\* ParseFloat, and continue when it fails; a missing string is empty.
Parsed(tickers) == {i \in DOMAIN tickers : ~HasPrice(tickers[i], {Garbage, Absent})}

\* A missing number is decoded as 0.
ZeroFilled(tickers) ==
    [i \in DOMAIN tickers |->
        IF tickers[i].price = Absent THEN [tickers[i] EXCEPT !.price = 0] ELSE tickers[i]]

-----------------------------------------------------------------------------
(* Exchanges that list every symbol, with prices as strings. *)

\* Mutant of FromStrings: an error of ParseFloat is returned, not skipped.
FromStrings_Returns(symbols, answer) ==
    IF answer = Nothing
       \/ SomeTicker(answer, LAMBDA t : HasPrice(t, {OtherType, Garbage, Absent}))
    THEN Failed
    ELSE Fetched(Collect(answer, Wanted(symbols, answer)))

\* A price of another type fails json.Unmarshal as a whole; a string that is
\* not a number loses its own ticker only.
FromStrings(symbols, answer) ==
    IF answer = Nothing \/ SomeTicker(answer, LAMBDA t : HasPrice(t, {OtherType}))
    THEN Failed
    ELSE Fetched(Collect(answer, Wanted(symbols, answer) \intersect Parsed(answer)))

AscendexPriceUpdate(symbols, answer) == FromStrings(symbols, answer)
BybitPriceUpdate(symbols, answer)    == FromStrings(symbols, answer)
MexcPriceUpdate(symbols, answer)     == FromStrings(symbols, answer)
OkexPriceUpdate(symbols, answer)     == FromStrings(symbols, answer)

\* Decoded without a type: the type assertions panic, on the symbol of any
\* ticker and on the price of a wanted one.
GateIoPriceUpdate(symbols, answer) ==
    IF answer = Nothing THEN Failed
    ELSE IF \/ SomeTicker(answer, LAMBDA t : t.symbol = Absent)
            \/ \E i \in Wanted(symbols, answer) : HasPrice(answer[i], {Absent, OtherType})
    THEN Panicked
    ELSE Fetched(Collect(answer, Wanted(symbols, answer) \intersect Parsed(answer)))

-----------------------------------------------------------------------------
(* Exchanges that are asked for the symbols. The list of symbols in the    *)
(* request drops its last comma, and panics when there is none.            *)

BinancePriceUpdate(symbols, answer) ==
    IF symbols = {} THEN Panicked
    ELSE IF answer = Nothing
            \/ SomeTicker(answer, LAMBDA t : HasPrice(t, {Garbage, OtherType}))
    THEN Failed
    ELSE Fetched(Collect(ZeroFilled(answer), DOMAIN answer))

\* The tickers before the first bad one do not matter: the map is dropped.
BitfinexPriceUpdate(symbols, answer) ==
    IF symbols = {} THEN Panicked
    ELSE IF answer = Nothing THEN Failed
    ELSE LET bad == SelectInSeq(answer, LAMBDA t :
                        t.symbol = Absent \/ HasPrice(t, Words))
         IN  IF bad = 0 THEN Fetched(Collect(answer, DOMAIN answer))
             ELSE IF answer[bad].price = Absent THEN FailedUncounted  \* its size is not 11
             ELSE Panicked

\* The configuration with the API key comes first, and may not parse. The answer is
\* decoded into numbers, then looked up by the symbols asked for.
FromNumbers(configured, symbols, answer) ==
    IF ~configured THEN Failed
    ELSE IF symbols = {} THEN Panicked
    ELSE IF answer = Nothing
            \/ SomeTicker(answer, LAMBDA t : HasPrice(t, {Garbage, OtherType}))
    THEN Failed
    ELSE Fetched(Collect(ZeroFilled(answer), Wanted(symbols, answer)))

\* The keys of coingecko's answer and the slugs of coinmarketcap's are distinct.
CoingeckoPriceUpdate(configured, symbols, answer) ==
    FromNumbers(configured, symbols, answer)
CoinmarketcapPriceUpdate(configured, symbols, answer) ==
    FromNumbers(configured, symbols, answer)

-----------------------------------------------------------------------------
(* Uniswap: the reserves of three pools, as prices; 0 stands for an empty  *)
(* reserve. Prices in USD are in halves, for the average of two.           *)

Unavailable(price) == price \in {Fails, 0}

\* Mutant of Diverted: only one side is looked at.
Diverted_OneSide(usdt, usdc) == 4 * usdt > 5 * usdc

\* usdt/usdc > 1.25 or < 0.8
Diverted(usdt, usdc) == 4 * usdt > 5 * usdc \/ 5 * usdt < 4 * usdc

\* All three prices or none. Of the errors only the dial's is counted.
UniswapPriceUpdate(dialed, usdt, usdc, vsg) ==
    IF ~dialed THEN Failed
    ELSE IF Unavailable(usdt) \/ Unavailable(usdc) THEN FailedUncounted
    ELSE IF Diverted(usdt, usdc) \/ Unavailable(vsg) THEN FailedUncounted
    ELSE Fetched([s \in {"ETHUSD", "VSGUSD"} |->
            IF s = "ETHUSD" THEN usdt + usdc ELSE vsg * (usdt + usdc)])
=============================================================================
