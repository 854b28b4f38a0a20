--------------------------- MODULE Inputs_proofs ---------------------------
(***************************************************************************)
(* What MCInputs checks on small inputs, for every input: any number of    *)
(* providers and prices, any prices of the pools, any environments.        *)
(***************************************************************************)
EXTENDS MCInputs, FiniteSetTheorems, SequenceTheorems, TLAPS

-----------------------------------------------------------------------------
(* What AggregateProvider_proofs shows of the consolidation needs none of  *)
(* that module's variables and providers. This instance has none: a        *)
(* constant stands for each variable, and there are no providers.          *)

Unused == <<>>

Theory == INSTANCE AggregateProvider_proofs
    WITH Providers <- {}, Prices <- {}, Nil <- NotFinite,
         prices <- Unused, pc <- Unused, remaining <- Unused, allPrices <- Unused,
         result <- Unused, increments <- Unused, seen <- Unused, lacked <- Unused

LEMMA SameFiniteness == \A S : Theory!IsFiniteSet(S) = IsFiniteSet(S)
BY Zenon DEF Theory!IsFiniteSet, IsFiniteSet

\* That module's assumptions hold of it, so what it proves does.
LEMMA TheoryApplies ==
  Theory!PricesAssumption /\ Theory!ProvidersAssumption /\ Theory!NotFiniteAssumption
<1>1. Theory!PricesAssumption
  BY DEF Theory!PricesAssumption
<1>2. Theory!ProvidersAssumption
  BY SameFiniteness, FS_EmptySet, Zenon DEF Theory!ProvidersAssumption
<1>3. Theory!NotFiniteAssumption
  BY RatesAssumption
<1> QED
  BY <1>1, <1>2, <1>3

\* It instantiates the definitions Aggregate does: they are the same.
LEMMA SameTotal == \A s : Theory!Total(s) = Aggregate!Total(s)
BY Zenon DEF Theory!Total, Aggregate!Total, Theory!Plus, Aggregate!Plus

LEMMA SameInlier ==
  /\ \A s, x, cut : Theory!Inlier(s, x, cut) = Aggregate!Inlier(s, x, cut)
  /\ \A s : Theory!Ties(s) = Aggregate!Ties(s)
<1> USE SameTotal
    DEF Theory!AllFinite, Aggregate!AllFinite, Theory!Distance, Aggregate!Distance,
        Theory!Deviation, Aggregate!Deviation, Theory!Squares, Aggregate!Squares
<1>1. \A s, x, cut : Theory!Inlier(s, x, cut) = Aggregate!Inlier(s, x, cut)
  BY Zenon DEF Theory!Inlier, Aggregate!Inlier
<1>2. \A s : Theory!Ties(s) = Aggregate!Ties(s)
  BY Zenon DEF Theory!Ties, Aggregate!Ties
<1> QED
  BY <1>1, <1>2

LEMMA SameRemoval ==
  \A s, cut : Theory!RemoveOutliers(s, cut) = Aggregate!RemoveOutliers(s, cut)
BY SameTotal, Zenon
   DEF Theory!RemoveOutliers, Aggregate!RemoveOutliers,
       Theory!Inlier, Aggregate!Inlier, Theory!AllFinite, Aggregate!AllFinite,
       Theory!Distance, Aggregate!Distance,
       Theory!Deviation, Aggregate!Deviation, Theory!Squares, Aggregate!Squares,
       Theory!Total, Aggregate!Total, Theory!Plus, Aggregate!Plus

LEMMA SameMedian == \A s : Theory!TwiceMedian(s) = Aggregate!TwiceMedian(s)
BY Zenon
   DEF Theory!TwiceMedian, Aggregate!TwiceMedian, Theory!Sorted, Aggregate!Sorted,
       Theory!Rank, Aggregate!Rank, Theory!Before, Aggregate!Before,
       Theory!Less, Aggregate!Less, Theory!Plus, Aggregate!Plus,
       Theory!Cardinality, Aggregate!Cardinality

LEMMA SamePrice ==
  \A s, cut : Theory!ComputeConsolidatedPrice(s, cut)
                = Aggregate!ComputeConsolidatedPrice(s, cut)
BY SameRemoval, SameMedian, Zenon
   DEF Theory!ComputeConsolidatedPrice, Aggregate!ComputeConsolidatedPrice,
       Theory!Missing, Aggregate!Missing, Theory!Price, Aggregate!Price,
       Theory!Plus, Aggregate!Plus

LEMMA SameOutcomes == \A s : Theory!Outcomes(s) = Aggregate!Outcomes(s)
BY SamePrice, SameInlier, Zenon DEF Theory!Outcomes, Aggregate!Outcomes

LEMMA SameCount == \A S : Theory!Cardinality(S) = Cardinality(S)
BY Zenon DEF Theory!Cardinality, Cardinality

\* Of numbers up to n there is a greatest.
LEMMA GreatestOf ==
  ASSUME NEW n \in Nat, NEW N \in SUBSET (1..n), N # {}
  PROVE  \E i \in N : \A j \in N : j <= i
<1> DEFINE S == {n - i : i \in N}
<1>1. \A i \in N : n - i \in Nat
  OBVIOUS
<1>2. S \in SUBSET Nat /\ S # {}
  BY <1>1, Zenon
<1> HIDE DEF S
<1>3. PICK x \in S : \A y \in S : x <= y
  BY <1>2, Theory!LeastOf, TheoryApplies, Zenon
<1>4. PICK i \in N : x = n - i
  BY DEF S
<1>5. \A j \in N : n - j \in S
  BY DEF S
<1> QED
  BY <1>3, <1>4, <1>5

-----------------------------------------------------------------------------
(* The states. *)

Naming(es, n, e) == {i \in 1..n : /\ es[i].override \notin {Unset, Malformed}
                                 /\ e \in DOMAIN es[i].override}
Latest(N, i) == i \in N /\ \A j \in N : j <= i

\* Exchange e has in the map g the symbols of the last of the first n
\* of the environments es that names it.
Resolved(g, es, n, e) ==
    LET N == Naming(es, n, e)
    IN  /\ N = {} => g[e] = DefaultSymbols[e]
        /\ \A i \in Nat : Latest(N, i) => g[e] = es[i].override[e]

PoolPrice == Nat \union {Fails}

\* The inputs are of their types, and the global map is what the calls before
\* the last have made it.
IInv ==
    /\ prices \in Seq(Int \union {NotFinite})
    /\ answer \in Seq(Tickers) \union {Nothing}
    /\ pools \in PoolPrice \X PoolPrice \X PoolPrice
    /\ loads \in Seq(Environments)
    /\ \A e \in DOMAIN found : Resolved(found, loads, Len(loads) - 1, e)

-----------------------------------------------------------------------------
(* The configuration. *)

\* A call of Get that does not panic leaves in the global map, for each
\* exchange, the symbols of the last environment that names it, this call's
\* included.
LEMMA CallResolves ==
  ASSUME IInv, loads # <<>>, LastCall.status # "panic", NEW e \in DOMAIN LastCall.global
  PROVE  Resolved(LastCall.global, loads, Len(loads), e)
<1> DEFINE n == Len(loads)
           given == loads[n].override \notin {Unset, Malformed}
<1>1. n \in Nat /\ n >= 1 /\ Last(loads) = loads[n]
  BY DEF IInv, Last
<1>2. \A i : i \in 1..n <=> i \in 1..(n - 1) \/ i = n
  BY <1>1
<1>3. \A i \in 1..(n - 1) : i <= n /\ ~(n <= i)
  BY <1>1
<1> HIDE DEF n
<1>4. CASE given /\ e \in DOMAIN loads[n].override
  <2>1. LastCall.global[e] = loads[n].override[e]
    BY <1>1, <1>4 DEF LastCall, Get, Overridden, Refused, Crashed, Loaded
  <2>2. n \in Naming(loads, n, e)
    BY <1>1, <1>4 DEF Naming
  <2>3. \A i \in Nat : Latest(Naming(loads, n, e), i) => i = n
    BY <1>1, <1>2, <1>3, <2>2 DEF Latest, Naming
  <2> QED
    BY <2>1, <2>2, <2>3 DEF Resolved, n
<1>5. CASE ~(given /\ e \in DOMAIN loads[n].override)
  <2>1. e \in DOMAIN found /\ LastCall.global[e] = found[e]
    BY <1>1, <1>5 DEF LastCall, Get, Overridden, Refused, Crashed, Loaded
  <2>2. Naming(loads, n, e) = Naming(loads, n - 1, e)
    BY <1>1, <1>2, <1>5 DEF Naming
  <2>3. Resolved(found, loads, n - 1, e)
    BY <2>1 DEF IInv, n
  <2> QED
    BY <2>1, <2>2, <2>3 DEF Resolved, n
<1> QED
  BY <1>4, <1>5

-----------------------------------------------------------------------------
(* The invariant. *)

LEMMA InitIInv == Init => IInv
<1> SUFFICES ASSUME Init PROVE IInv
  OBVIOUS
<1>1. Len(loads) - 1 = -1 /\ \A n : n \notin 1..(-1)
  BY DEF Init
<1>2. ASSUME NEW e \in DOMAIN found PROVE Resolved(found, loads, Len(loads) - 1, e)
  <2>1. Naming(loads, -1, e) = {}
    BY <1>1 DEF Naming
  <2> QED
    BY <1>1, <2>1 DEF Resolved, Latest, Init
<1> QED
  BY <1>2 DEF Init, IInv, NoPools, PoolPrice

LEMMA NextIInv == IInv /\ [Next]_vars => IInv'
<1> SUFFICES ASSUME IInv, [Next]_vars PROVE IInv'
  OBVIOUS
<1>1. CASE MorePrices
  <2>1. PICK x \in Prices \union {-x : x \in Losses} : prices' = Append(prices, x)
    BY <1>1 DEF MorePrices
  <2>2. x \in Int \union {NotFinite}
    BY InputsAssumption
  <2>3. prices' \in Seq(Int \union {NotFinite})
    BY <2>1, <2>2 DEF IInv
  <2>4. UNCHANGED <<answer, pools, loads, found>>
    BY <1>1 DEF MorePrices, NoInput, NoLoads
  <2> QED
    BY <2>3, <2>4 DEF IInv, Resolved, Naming
<1>2. CASE MoreTickers \/ NoAnswer \/ UNCHANGED vars
  <2>1. UNCHANGED <<prices, pools, loads, found>>
    BY <1>2 DEF MoreTickers, NoAnswer, vars, NoInput, NoLoads
  <2>2. answer' \in Seq(Tickers) \union {Nothing}
    <3>1. CASE MoreTickers
      <4>1. PICK t \in Tickers : answer' = Append(answer, t)
        BY <3>1 DEF MoreTickers
      <4>2. answer \in Seq(Tickers)
        BY <3>1 DEF MoreTickers, IInv
      <4> HIDE DEF Tickers
      <4> QED
        BY <4>1, <4>2
    <3>2. CASE NoAnswer \/ UNCHANGED vars
      BY <3>2 DEF NoAnswer, vars, IInv
    <3> QED
      BY <1>2, <3>1, <3>2
  <2> QED
    BY <2>1, <2>2 DEF IInv, Resolved, Naming
<1>3. CASE Pools
  <2>1. UNCHANGED <<prices, answer, loads, found>>
    BY <1>3 DEF Pools, NoInput, NoLoads
  <2>2. pools' \in PoolPrice \X PoolPrice \X PoolPrice
    BY <1>3, InputsAssumption DEF Pools, PoolPrice
  <2> QED
    BY <2>1, <2>2 DEF IInv, Resolved, Naming
<1>4. CASE MoreLoads
  <2>1. UNCHANGED <<prices, answer, pools>>
    BY <1>4 DEF MoreLoads, NoInput
  <2>2. PICK env \in Environments : loads' = Append(loads, env)
    BY <1>4 DEF MoreLoads
  <2>3. /\ loads' \in Seq(Environments) /\ Len(loads') - 1 = Len(loads)
        /\ \A i \in 1..Len(loads) : loads'[i] = loads[i]
    BY <2>2 DEF IInv
  <2>4. \A e : Naming(loads', Len(loads), e) = Naming(loads, Len(loads), e)
    BY <2>3 DEF Naming
  <2>5. ASSUME NEW e \in DOMAIN found' PROVE Resolved(found', loads, Len(loads), e)
    <3>1. CASE loads = <<>>
      <4>1. Naming(loads, 0, e) = {} /\ Naming(loads, -1, e) = {}
        BY DEF Naming
      <4>2. found' = found /\ Resolved(found, loads, -1, e)
        BY <1>4, <3>1 DEF MoreLoads, IInv
      <4> QED
        BY <3>1, <4>1, <4>2 DEF Resolved
    <3>2. CASE loads # <<>>
      BY <1>4, <3>2, CallResolves DEF MoreLoads
    <3> QED
      BY <3>1, <3>2
  <2>6. ASSUME NEW e \in DOMAIN found'
        PROVE  Resolved(found', loads', Len(loads), e)
    <3>1. \A i : Latest(Naming(loads, Len(loads), e), i) => loads'[i] = loads[i]
      BY <2>3 DEF Latest, Naming
    <3> QED
      BY <2>4, <2>5, <3>1 DEF Resolved
  <2> QED
    BY <2>1, <2>3, <2>6 DEF IInv
<1> QED
  BY <1>1, <1>2, <1>3, <1>4 DEF Next

LEMMA IInvHolds == Spec => []IInv
BY InitIInv, NextIInv, PTL DEF Spec

-----------------------------------------------------------------------------
(* What the daemon is configured to do. *)

\* The symbols that the last call gives an exchange are those of the last
\* environment that names it, whatever earlier calls did to the global map and
\* whether they failed (config.go:95-108).
LEMMA StartedResolves ==
  ASSUME IInv, Booted.status = "started", NEW e \in DOMAIN Booted.providers
  PROVE  Booted.providers[e] = NewPriceProvider(SymbolsOf(e))
<1> DEFINE n == Len(loads)
           N == Named(e)
<1>1. loads # <<>> /\ n \in Nat /\ DOMAIN loads = 1..n
  BY DEF Booted, IInv
<1>2. LastCall.status = "ok" /\ LastCall.conf.symbols = LastCall.global
  BY <1>1 DEF Booted, Boot, LastCall, Get, Loaded, Refused, Crashed
<1>3. /\ e \in DOMAIN LastCall.global
      /\ Booted.providers[e] = NewPriceProvider(LastCall.global[e])
  BY <1>1, <1>2 DEF Booted, Boot, LastCall
<1>4. Resolved(LastCall.global, loads, n, e)
  BY <1>1, <1>2, <1>3, CallResolves
<1>5. N = Naming(loads, n, e)
  BY <1>1 DEF Named, Naming
<1>6. CASE N = {}
  BY <1>3, <1>4, <1>5, <1>6 DEF SymbolsOf, Resolved
<1>7. CASE N # {}
  <2>1. N \in SUBSET (1..n)
    BY <1>5 DEF Naming
  <2>2. \E i \in N : \A j \in N : j <= i
    BY <1>1, <1>7, <2>1, GreatestOf
  <2> DEFINE last == CHOOSE i \in N : \A j \in N : j <= i
  <2>3. last \in N /\ \A j \in N : j <= last
    BY <2>2
  <2>4. last \in Nat /\ Latest(N, last)
    BY <2>1, <2>3 DEF Latest
  <2> HIDE DEF last
  <2>5. LastCall.global[e] = loads[last].override[e]
    BY <1>4, <1>5, <2>4 DEF Resolved
  <2>6. SymbolsOf(e) = loads[last].override[e]
    BY <1>7 DEF SymbolsOf, last
  <2> QED
    BY <1>3, <2>5, <2>6
<1> QED
  BY <1>6, <1>7

\* A daemon that starts prices each pair by the symbol that its operator gave
\* last for it, whatever the environments and however often they are read.
THEOREM SymbolsKept == Spec => []PairsKeepTheirSymbols
<1>1. IInv => PairsKeepTheirSymbols
  <2> SUFFICES ASSUME IInv, Booted.status = "started",
                      NEW e \in DOMAIN Booted.providers, NEW p \in Pairs
               PROVE  LET provider == Booted.providers[e]
                          quoted   == [s \in provider.symbols |-> s]
                      IN  GetPrice(provider, p, quoted) =
                              IF p \in DOMAIN SymbolsOf(e)
                              THEN [valid |-> TRUE, price |-> SymbolsOf(e)[p]]
                              ELSE [valid |-> FALSE]
    BY DEF PairsKeepTheirSymbols
  <2> DEFINE m == SymbolsOf(e)
             provider == NewPriceProvider(m)
             quoted == [s \in provider.symbols |-> s]
  <2>1. Booted.providers[e] = provider
    BY StartedResolves
  <2> HIDE DEF m
  <2>2. /\ provider.symbols = {m[q] : q \in DOMAIN m}
        /\ provider.pairToSymbol = m
    BY DEF NewPriceProvider, MapValues
  <2>3. p \in DOMAIN m => m[p] \in DOMAIN quoted /\ quoted[m[p]] = m[p]
    BY <2>2
  <2>4. GetPrice(provider, p, quoted) =
            IF p \in DOMAIN m THEN [valid |-> TRUE, price |-> m[p]] ELSE [valid |-> FALSE]
    BY <2>2, <2>3 DEF GetPrice
  <2> QED
    BY <2>1, <2>4 DEF m
<1> QED
  BY <1>1, IInvHolds, PTL

-----------------------------------------------------------------------------
(* The pools. *)

LEMMA ProductNotNegative ==
  ASSUME NEW a \in Int, NEW b \in Int, a >= 0, b >= 0
  PROVE  a * b >= 0
OBVIOUS

\* However the two pools of ETH differ, the prices made of them are near both.
THEOREM NearBothPools == Spec => []EthNearBothPools
<1>1. IInv => EthNearBothPools
  <2> SUFFICES ASSUME IInv, Uniswap.status = "ok" PROVE EthNearBothPools
    BY DEF EthNearBothPools
  <2> DEFINE usdt == pools[1]
             usdc == pools[2]
             rate == pools[3]
             eth  == Uniswap.prices["ETHUSD"]
             vsg  == Uniswap.prices["VSGUSD"]
  <2>1. usdt \in PoolPrice /\ usdc \in PoolPrice /\ rate \in PoolPrice
    BY DEF IInv
  <2>2. /\ ~Unavailable(usdt) /\ ~Unavailable(usdc) /\ ~Unavailable(rate)
        /\ ~Diverted(usdt, usdc)
        /\ eth = usdt + usdc /\ vsg = rate * (usdt + usdc)
    BY DEF Uniswap, UniswapPriceUpdate, Failed, FailedUncounted, Fetched
  <2>3. usdt \in Nat /\ usdc \in Nat /\ rate \in Nat
    BY <2>1, <2>2 DEF Unavailable, PoolPrice
  <2>4. 4 * usdt <= 5 * usdc /\ 4 * usdc <= 5 * usdt
    BY <2>2, <2>3 DEF Diverted
  <2> HIDE DEF usdt, usdc, rate, eth, vsg
  <2>5. /\ 5 * eth >= 9 * usdt /\ 4 * eth <= 9 * usdt
        /\ 5 * eth >= 9 * usdc /\ 4 * eth <= 9 * usdc
    BY <2>2, <2>3, <2>4
  <2>6. ASSUME NEW pool \in {usdt, usdc}
        PROVE  5 * vsg >= 9 * rate * pool /\ 4 * vsg <= 9 * rate * pool
    <3>1. pool \in Nat /\ 5 * eth >= 9 * pool /\ 4 * eth <= 9 * pool
      BY <2>3, <2>5, <2>6
    <3>2. vsg = rate * eth /\ eth \in Nat
      BY <2>2, <2>3
    <3>3. rate * (5 * eth - 9 * pool) >= 0 /\ rate * (9 * pool - 4 * eth) >= 0
      BY <2>3, <3>1, <3>2, ProductNotNegative
    <3> QED
      BY <2>3, <3>1, <3>2, <3>3
  <2> QED
    BY <2>5, <2>6 DEF EthNearBothPools, usdt, usdc, rate, eth, vsg
<1> QED
  BY <1>1, IInvHolds, PTL

-----------------------------------------------------------------------------
(* The consolidation. *)

LEMMA FiniteIsInt ==
  ASSUME IInv, Finite
  PROVE  prices \in Seq(Int)
BY DEF IInv, Finite, Aggregate!AllFinite

\* Of the numbers 1 to n fewer than n are in a set without one of them.
LEMMA FewerThan ==
  ASSUME NEW n \in Nat, NEW T \in SUBSET (1..n), NEW i \in 1..n, i \notin T
  PROVE  Cardinality(T) < n
<1>1. IsFiniteSet(1..n) /\ Cardinality(1..n) = n
  BY FS_Interval
<1>2. T # 1..n
  OBVIOUS
<1>3. Cardinality(T) \in Nat /\ Cardinality(T) <= n /\ Cardinality(T) # n
  BY <1>1, <1>2, FS_Subset, FS_CardinalityType
<1> QED
  BY <1>3

\* With a finite price there is a result, no further up or down than the prices.
LEMMA ResultBetween ==
  ASSUME IInv, prices # <<>>, Finite, NEW r \in Results
  PROVE  /\ r.valid /\ r.twice \in Int
         /\ \E i \in DOMAIN prices : 2 * prices[i] <= r.twice
         /\ \E i \in DOMAIN prices : 2 * prices[i] >= r.twice
<1>1. prices \in Seq(Int)
  BY FiniteIsInt
<1>2. PICK cut \in SUBSET Theory!Ties(prices) :
          r = Theory!ComputeConsolidatedPrice(prices, cut)
  BY SameOutcomes, Zenon DEF Results, Theory!Outcomes
<1>3. PICK t : /\ Theory!ComputeConsolidatedPrice(prices, cut) = Theory!Price(t)
               /\ Theory!Between(prices, t)
  BY <1>1, TheoryApplies, Theory!PriceIfAnswered, Zenon
<1>4. r = [valid |-> TRUE, twice |-> t]
  BY <1>2, <1>3, Zenon DEF Theory!Price
<1>5. r.valid /\ r.twice = t
  BY <1>4
<1> QED
  BY <1>3, <1>5 DEF Theory!Between

\* However many providers answer and whatever number each gives, there is a price.
THEOREM AlwaysAnswers == Spec => []AnswersWhenAsked
<1>1. IInv => AnswersWhenAsked
  BY ResultBetween DEF AnswersWhenAsked
<1> QED
  BY <1>1, IInvHolds, PTL

\* It lies between the lowest and the highest of them.
THEOREM InRange == Spec => []WithinRange
<1>1. IInv => WithinRange
  <2> SUFFICES ASSUME IInv, prices # <<>>, Finite, NEW r \in Results
               PROVE  Below(r.twice) < Len(prices) /\ Above(r.twice) < Len(prices)
    BY DEF WithinRange
  <2> DEFINE t == r.twice
             n == Len(prices)
             low == {i \in 1..n : 2 * prices[i] < t}
             high == {i \in 1..n : 2 * prices[i] > t}
  <2>1. n \in Nat /\ DOMAIN prices = 1..n /\ \A i \in 1..n : prices[i] \in Int
    BY FiniteIsInt
  <2>2. Below(t) = Cardinality(low) /\ Above(t) = Cardinality(high)
    BY <2>1, Zenon DEF Below, Above, Positions
  <2>3. t \in Int
    BY ResultBetween
  <2>4. PICK i \in 1..n : 2 * prices[i] <= t
    BY <2>1, ResultBetween
  <2>5. PICK j \in 1..n : 2 * prices[j] >= t
    BY <2>1, ResultBetween
  <2>6. j \notin low /\ i \notin high
    <3> HIDE DEF t, n
    <3> QED
      BY <2>1, <2>3, <2>4, <2>5
  <2>7. low \in SUBSET (1..n) /\ high \in SUBSET (1..n)
    OBVIOUS
  <2> HIDE DEF t, n, low, high
  <2>8. Cardinality(low) < n /\ Cardinality(high) < n
    BY <2>1, <2>6, <2>7, FewerThan
  <2> QED
    BY <2>2, <2>8 DEF t, n
<1> QED
  BY <1>1, IInvHolds, PTL

\* A price that most providers give is the result, whatever the others give.
THEOREM MajorityHolds == Spec => []MajorityWins
<1>1. IInv => MajorityWins
  <2> SUFFICES ASSUME IInv, Finite, NEW x \in Range(prices),
                      2 * Cardinality(Positions(LAMBDA y : y = x)) > Len(prices),
                      NEW r \in Results
               PROVE  r = Aggregate!Price(2 * x)
    BY DEF MajorityWins
  <2>1. prices \in Seq(Int) /\ DOMAIN prices = 1..Len(prices)
    BY FiniteIsInt
  <2>2. x \in Int
    BY <2>1 DEF Range
  <2>3. Positions(LAMBDA y : y = x) = Theory!SameAs(prices, x, Len(prices))
    BY <2>1 DEF Positions, Theory!SameAs
  <2>4. 2 * Theory!Cardinality(Theory!SameAs(prices, x, Len(prices))) > Len(prices)
    BY <2>3, SameCount, Zenon
  <2>5. PICK cut \in SUBSET Theory!Ties(prices) :
            r = Theory!ComputeConsolidatedPrice(prices, cut)
    BY SameOutcomes, Zenon DEF Results, Theory!Outcomes
  <2>6. Theory!ComputeConsolidatedPrice(prices, cut) = Theory!Price(2 * x)
    BY <2>1, <2>2, <2>4, TheoryApplies, Theory!MajorityPrevails, Zenon
  <2> QED
    BY <2>5, <2>6, Zenon DEF Theory!Price, Aggregate!Price
<1> QED
  BY <1>1, IInvHolds, PTL

\* Of three prices or more, at most half as many are inliers in any case and below the
\* result, or above it, as may be inliers, however rounding decides the ties.
THEOREM MedianHolds == Spec => []MedianOfInliers
<1>1. IInv => MedianOfInliers
  <2> SUFFICES ASSUME IInv, Len(prices) >= 3, Finite, NEW r \in Results
               PROVE  /\ 2 * Cardinality({i \in Certain : 2 * prices[i] < r.twice})
                           <= Cardinality(Possible)
                      /\ 2 * Cardinality({i \in Certain : 2 * prices[i] > r.twice})
                           <= Cardinality(Possible)
    BY DEF MedianOfInliers
  <2> DEFINE n == Len(prices)
             t == r.twice
             ties == Theory!Ties(prices)
             below == {i \in Certain : 2 * prices[i] < t}
             above == {i \in Certain : 2 * prices[i] > t}
             low   == {x \in Int : 2 * x < t}
             high  == {x \in Int : 2 * x > t}
  <2>1. prices \in Seq(Int) /\ DOMAIN prices = 1..n /\ prices # <<>>
    BY FiniteIsInt
  <2>2. Theory!Price(t) \in Theory!Outcomes(prices)
    <3>1. PICK cut \in SUBSET ties : r = Theory!ComputeConsolidatedPrice(prices, cut)
      BY SameOutcomes, Zenon DEF Results, Theory!Outcomes
    <3>2. PICK u : Theory!ComputeConsolidatedPrice(prices, cut) = Theory!Price(u)
      BY <2>1, TheoryApplies, Theory!PriceIfAnswered, Zenon
    <3>3. r = [valid |-> TRUE, twice |-> u]
      BY <3>1, <3>2, Zenon DEF Theory!Price
    <3>4. r.twice = u
      BY <3>3
    <3>5. r \in Theory!Outcomes(prices)
      BY SameOutcomes, Zenon DEF Results
    <3> QED
      BY <3>1, <3>2, <3>4, <3>5, Zenon
  <2>3. /\ 2 * Theory!Cardinality(Theory!Inliers(prices, n, low, ties))
             <= Theory!Cardinality(Theory!Inliers(prices, n, Int, {}))
        /\ 2 * Theory!Cardinality(Theory!Inliers(prices, n, high, ties))
             <= Theory!Cardinality(Theory!Inliers(prices, n, Int, {}))
    BY <2>1, <2>2, TheoryApplies, Theory!ResultIsMedian, Zenon
  <2>4. \A i \in 1..n : prices[i] \in Int
    BY <2>1
  <2>5. /\ Certain = {i \in 1..n : Theory!Inlier(prices, prices[i], ties)}
        /\ Possible = {i \in 1..n : Theory!Inlier(prices, prices[i], {})}
    BY <2>1, SameInlier, Zenon DEF Certain, Possible, Positions, Ties
  <2> HIDE DEF n, t, ties
  <2>6. /\ Theory!Inliers(prices, n, Int, {}) = Possible
        /\ Theory!Inliers(prices, n, low, ties) = below
        /\ Theory!Inliers(prices, n, high, ties) = above
    BY <2>4, <2>5 DEF Theory!Inliers
  <2> QED
    BY <2>3, <2>6, SameCount, Zenon DEF t
<1> QED
  BY <1>1, IInvHolds, PTL

\* The order in which Go ranges over the providers shows in a tie, or not at all.
THEOREM OrderHolds == Spec => []OrderShowsOnlyInTies
<1>1. IInv => OrderShowsOnlyInTies
  <2> SUFFICES ASSUME IInv, Ties = {}, NEW i \in 1..(Len(prices) - 1),
                      NEW r \in Results, NEW t \in Aggregate!Outcomes(Exchanged(i))
               PROVE  r = t
    BY DEF OrderShowsOnlyInTies
  <2>1. Exchanged(i) = Theory!Exchanged(prices, i)
    BY Zenon DEF Exchanged, Theory!Exchanged
  <2>2. Theory!Ties(prices) = {}
    BY SameInlier, Zenon DEF Ties
  <2>3. /\ Theory!Outcomes(Theory!Exchanged(prices, i)) = Theory!Outcomes(prices)
        /\ \A u \in Theory!Outcomes(prices) :
              u = Theory!ComputeConsolidatedPrice(Theory!Exchanged(prices, i), {})
    BY <2>2, TheoryApplies, Theory!OrderDecidesTies, Zenon DEF IInv
  <2>4. r \in Theory!Outcomes(prices) /\ t \in Theory!Outcomes(prices)
    BY <2>1, <2>3, SameOutcomes, Zenon DEF Results
  <2> QED
    BY <2>3, <2>4, Zenon
<1> QED
  BY <1>1, IInvHolds, PTL

-----------------------------------------------------------------------------
(* The rates. *)

\* What is cut off a number is less than a unit, and leaves the sign.
LEMMA CutIsClose ==
  ASSUME NEW x \in Int
  PROVE  /\ Cut(x) \in Int
         /\ LET cut == x - Grain * Cut(x)
            IN  /\ -Grain < cut /\ cut < Grain
                /\ x >= 0 => cut >= 0
                /\ x <= 0 => cut <= 0
<1> DEFINE abs == IF x < 0 THEN -x ELSE x
           q == abs \div Grain
           r == abs % Grain
<1>1. Grain \in Nat \ {0} /\ abs \in Nat
  BY RatesAssumption
<1> HIDE DEF abs
<1>2. q \in Int /\ r \in 0..(Grain - 1) /\ abs = Grain * q + r
  BY <1>1
<1>3. Cut(x) = IF x < 0 THEN -q ELSE q
  BY DEF Cut, abs
<1> HIDE DEF q, r
<1>4. CASE x < 0
  <2>1. Cut(x) = -q /\ abs = -x
    BY <1>3, <1>4 DEF abs
  <2>2. Grain * (-q) = -(Grain * q)
    BY <1>1, <1>2
  <2> QED
    BY <1>1, <1>2, <1>4, <2>1, <2>2
<1>5. CASE ~(x < 0)
  <2>1. Cut(x) = q /\ abs = x
    BY <1>3, <1>5 DEF abs
  <2> QED
    BY <1>1, <1>2, <1>5, <2>1
<1> QED
  BY <1>4, <1>5

\* A price posted alone panics if it is too large, and else is cut.
LEMMA RateOf ==
  ASSUME NEW p, Posted(p) \in Int
  PROVE  IF Abs(Posted(p)) > Grain * MaxRate THEN ExchangeRates(<<p>>) = Panic
         ELSE ExchangeRates(<<p>>) # Panic /\ ExchangeRates(<<p>>)[1] = Cut(Posted(p))
<1> DEFINE x == Posted(p)
           rates == [i \in DOMAIN <<p>> |-> Float64ToDec(Posted(<<p>>[i]))]
<1>1. Cut(x) \in Int
  BY CutIsClose
<1>2. Float64ToDec(x) = IF Abs(x) > Grain * MaxRate THEN Panic ELSE Cut(x)
  BY RatesAssumption DEF Float64ToDec
<1>3. DOMAIN <<p>> = 1..1 /\ <<p>>[1] = p
  OBVIOUS
<1> HIDE DEF x
<1>4. rates = [i \in 1..1 |-> Float64ToDec(x)]
  BY <1>3 DEF x
<1>5. rates[1] = Float64ToDec(x)
  BY <1>4
<1>6. ExchangeRates(<<p>>) = IF Float64ToDec(x) = Panic THEN Panic ELSE rates
  BY <1>3, <1>5 DEF ExchangeRates, x
<1>7. CASE Abs(x) > Grain * MaxRate
  BY <1>2, <1>6, <1>7 DEF x
<1>8. CASE ~(Abs(x) > Grain * MaxRate)
  <2>1. Float64ToDec(x) = Cut(x) /\ Cut(x) # Panic
    BY <1>1, <1>2, <1>8, RatesAssumption
  <2>2. rates \in Seq(Int)
    BY <1>1, <1>4, <2>1
  <2> QED
    BY <1>5, <1>6, <1>8, <2>1, <2>2, RatesAssumption DEF x
<1> QED
  BY <1>7, <1>8 DEF x

\* A rate lies between two of the prices, and ends the process only if one of them
\* is too large for the chain.
THEOREM RateHolds == Spec => []RateWithinPrices
<1>1. IInv => RateWithinPrices
  <2> SUFFICES ASSUME IInv, prices # <<>>, Finite, NEW rates \in Rates
               PROVE  IF rates = Panic
                      THEN Somebody(LAMBDA t : Abs(t) > Grain * MaxRate)
                      ELSE LET rate == Grain * rates[1]
                           IN  /\ Somebody(LAMBDA t : t - Grain < rate)
                               /\ Somebody(LAMBDA t : rate < t + Grain)
                               /\ Somebody(LAMBDA t : Abs(rate) <= Abs(t))
    BY Zenon DEF RateWithinPrices
  <2>0. PICK r \in Results : rates = ExchangeRates(<<r>>)
    BY Zenon DEF Rates
  <2> DEFINE t == r.twice
             cut == t - Grain * Cut(t)
  <2>1. t \in Int /\ Posted(r) = t
    BY ResultBetween DEF Posted
  <2>2. PICK i \in DOMAIN prices : 2 * prices[i] <= t
    BY ResultBetween
  <2>3. PICK j \in DOMAIN prices : 2 * prices[j] >= t
    BY ResultBetween
  <2> DEFINE x == prices[i]
             y == prices[j]
  <2>4. x \in Int /\ y \in Int /\ x \in Range(prices) /\ y \in Range(prices)
    BY FiniteIsInt DEF Range
  <2>5. IF Abs(t) > Grain * MaxRate THEN rates = Panic
        ELSE rates # Panic /\ rates[1] = Cut(t)
    BY <2>0, <2>1, RateOf
  <2>6. Grain \in Nat /\ Grain * MaxRate \in Int /\ Cut(t) \in Int /\ Grain * Cut(t) \in Int
    <3> HIDE DEF t
    <3>1. Cut(t) \in Int /\ Grain \in Nat /\ MaxRate \in Nat
      BY <2>1, CutIsClose, RatesAssumption
    <3> QED
      BY <3>1
  <2>7. /\ -Grain < cut /\ cut < Grain
        /\ t >= 0 => cut >= 0
        /\ t <= 0 => cut <= 0
    BY <2>1, CutIsClose
  <2>8. 2 * x <= t /\ 2 * y >= t
    BY <2>2, <2>3
  <2> HIDE DEF t, x, y
  <2>9. CASE rates = Panic
    <3>1. Abs(t) > Grain * MaxRate
      BY <2>5, <2>9
    <3>2. Abs(2 * x) > Grain * MaxRate \/ Abs(2 * y) > Grain * MaxRate
      BY <2>1, <2>4, <2>6, <2>8, <3>1 DEF Abs
    <3> QED
      BY <2>4, <2>9, <3>2 DEF Somebody
  <2>10. CASE rates # Panic
    <3> DEFINE rate == Grain * rates[1]
    <3>1. rate = Grain * Cut(t)
      BY <2>5, <2>10
    <3>2. rate \in Int /\ t - Grain < rate /\ rate < t + Grain /\ Abs(rate) <= Abs(t)
      BY <2>1, <2>6, <2>7, <3>1 DEF Abs
    <3> HIDE DEF rate
    <3>3. 2 * x - Grain < rate /\ rate < 2 * y + Grain
      BY <2>1, <2>4, <2>6, <2>8, <3>2
    <3>4. Abs(rate) <= Abs(2 * x) \/ Abs(rate) <= Abs(2 * y)
      BY <2>1, <2>4, <2>8, <3>2 DEF Abs
    <3> QED
      BY <2>4, <2>10, <3>3, <3>4 DEF Somebody, rate
  <2> QED
    BY <2>9, <2>10
<1> QED
  BY <1>1, IInvHolds, PTL

\* Three providers or more do not end the process if one of them gives a number that
\* is not finite, whatever the others give.
THEOREM ContainedHolds == Spec => []NotFiniteContained
<1>1. IInv => NotFiniteContained
  <2> SUFFICES ASSUME IInv, Len(prices) >= 3, ~Finite, NEW r \in Results
               PROVE  ExchangeRates(<<r>>) # Panic
    BY DEF NotFiniteContained, Rates
  <2>1. ~Theory!AllFinite(prices)
    BY DEF Finite, Theory!AllFinite, Aggregate!AllFinite
  <2>2. PICK cut : r = Theory!ComputeConsolidatedPrice(prices, cut)
    BY SameOutcomes, Zenon DEF Results, Theory!Outcomes
  <2>3. Theory!ComputeConsolidatedPrice(prices, cut) = Theory!Missing
    BY <2>1, TheoryApplies, Theory!NotFiniteGivesNone, Zenon DEF IInv
  <2>4. r = [valid |-> FALSE, twice |-> -2]
    BY <2>2, <2>3, Zenon DEF Theory!Missing
  <2>5. Posted(r) = 0
    BY <2>4 DEF Posted
  <2>6. ~(Abs(0) > Grain * MaxRate)
    BY RatesAssumption DEF Abs
  <2> QED
    BY <2>5, <2>6, RateOf
<1> QED
  BY <1>1, IInvHolds, PTL

-----------------------------------------------------------------------------
(* The fetchers. *)

\* Max is the greatest number of a set.
LEMMA MaxIs ==
  ASSUME NEW S \in SUBSET Int, NEW m \in S, \A y \in S : y <= m
  PROVE  Max(S) = m
<1>1. \A x \in S : (\A y \in S : x >= y) => x = m
  OBVIOUS
<1>2. \A y \in S : m >= y
  OBVIOUS
<1> QED
  BY <1>1, <1>2 DEF Max

\* A price collected is that of a ticker kept.
LEMMA CollectedIsKept ==
  ASSUME NEW ts \in Seq(Tickers), NEW kept \in SUBSET (1..Len(ts)),
         NEW s \in DOMAIN Collect(ts, kept)
  PROVE  \E i \in kept : ts[i] = [symbol |-> s, price |-> Collect(ts, kept)[s]]
<1> DEFINE those == {i \in kept : ts[i].symbol = s}
<1>1. those # {} /\ those \in SUBSET (1..Len(ts)) /\ Len(ts) \in Nat
  <2>1. s \in {ts[i].symbol : i \in kept}
    BY Zenon DEF Collect
  <2>2. those # {} /\ those \in SUBSET (1..Len(ts))
    BY <2>1, Zenon
  <2>3. Len(ts) \in Nat
    OBVIOUS
  <2> QED
    BY <2>2, <2>3
<1>2. PICK i \in those : \A j \in those : j <= i
  BY <1>1, GreatestOf
<1>3. Max(those) = i
  <2>1. those \in SUBSET Int
    BY <1>1
  <2> HIDE DEF those
  <2> QED
    BY <1>2, <2>1, MaxIs
<1>4. Collect(ts, kept)[s] = ts[i].price
  BY <1>3 DEF Collect
<1>5. ts[i] \in Tickers /\ ts[i].symbol = s
  BY <1>2
<1> QED
  BY <1>4, <1>5 DEF Tickers

\* Prices of tickers that hold numbers are quoted.
LEMMA NumbersAreQuoted ==
  ASSUME IInv, answer # Nothing, NEW kept \in SUBSET (DOMAIN answer),
         \A i \in kept : answer[i].price \in Quotes
  PROVE  \A s \in DOMAIN Collect(answer, kept) : Quoted(s, Collect(answer, kept)[s])
<1>1. answer \in Seq(Tickers) /\ DOMAIN answer = 1..Len(answer) /\ Indices = DOMAIN answer
  BY DEF IInv, Indices
<1> QED
  BY <1>1, CollectedIsKept DEF Quoted

\* Whatever an exchange answers, the fetchers that check their strings hand on
\* only numbers it quotes, under the symbol it quotes them for.
THEOREM QuotedHolds == Spec => []PricesAreQuoted
<1>1. IInv => PricesAreQuoted
  <2> SUFFICES ASSUME IInv,
                      NEW r \in FilteringExchanges \union
                                {GateIoPriceUpdate(Asked, answer),
                                 BitfinexPriceUpdate(Asked, answer)},
                      NEW s \in DOMAIN r.prices
               PROVE  Quoted(s, r.prices[s])
    BY DEF PricesAreQuoted
  <2>1. \A t \in {Failed, FailedUncounted, Panicked} : s \notin DOMAIN t.prices \/ r # t
    BY DEF Failed, FailedUncounted, Panicked, NoPrices
  <2>2. answer \in Seq(Tickers)
    BY <2>1 DEF IInv, FilteringExchanges, AscendexPriceUpdate, BybitPriceUpdate,
                MexcPriceUpdate, OkexPriceUpdate, FromStrings, GateIoPriceUpdate,
                BitfinexPriceUpdate
  <2>3. /\ answer # Nothing /\ DOMAIN answer = 1..Len(answer)
        /\ \A i \in DOMAIN answer :
              answer[i].price \in Quotes \union {Garbage, OtherType, Absent}
    <3>1. answer # Nothing
      BY <2>2, InputsAssumption, Zenon DEF Tickers
    <3>2. \A i \in DOMAIN answer : answer[i] \in Tickers
      BY <2>2
    <3> QED
      BY <2>2, <3>1, <3>2 DEF Tickers
  <2> DEFINE kept == Wanted(Asked, answer) \intersect Parsed(answer)
  <2>4. kept \in SUBSET (DOMAIN answer)
    BY DEF Wanted
  <2>5. CASE r \in FilteringExchanges
    <3>1. /\ ~SomeTicker(answer, LAMBDA t : HasPrice(t, {OtherType}))
          /\ r.prices = Collect(answer, kept)
      BY <2>1, <2>5 DEF FilteringExchanges, AscendexPriceUpdate, BybitPriceUpdate,
                        MexcPriceUpdate, OkexPriceUpdate, FromStrings, Fetched
    <3>2. \A i \in kept : answer[i].price \in Quotes
      BY <2>3, <2>4, <3>1 DEF SomeTicker, ToSet, HasPrice, Parsed
    <3> QED
      BY <2>3, <2>4, <3>1, <3>2, NumbersAreQuoted
  <2>6. CASE r = GateIoPriceUpdate(Asked, answer)
    <3>1. /\ ~ \E i \in Wanted(Asked, answer) : HasPrice(answer[i], {Absent, OtherType})
          /\ r.prices = Collect(answer, kept)
      BY <2>1, <2>6 DEF GateIoPriceUpdate, Fetched
    <3>2. \A i \in kept : answer[i].price \in Quotes
      BY <2>3, <2>4, <3>1 DEF HasPrice, Parsed
    <3> QED
      BY <2>3, <2>4, <3>1, <3>2, NumbersAreQuoted
  <2>7. CASE r = BitfinexPriceUpdate(Asked, answer)
    <3> DEFINE Bad(t) == t.symbol = Absent \/ HasPrice(t, Words)
               bad == {i \in 1..Len(answer) : Bad(answer[i])}
    <3>1. /\ SelectInSeq(answer, Bad) = 0
          /\ r.prices = Collect(answer, DOMAIN answer)
      BY <2>1, <2>7 DEF BitfinexPriceUpdate, Fetched
    <3>2. bad = {}
      <4> SUFFICES ASSUME bad # {} PROVE FALSE
        OBVIOUS
      <4>1. bad \in SUBSET Nat
        OBVIOUS
      <4>2. PICK x \in bad : \A y \in bad : x <= y
        BY <4>1, Theory!LeastOf, TheoryApplies, Zenon
      <4>3. Min(bad) \in bad
        BY <4>2, Zenon DEF Min
      <4>4. Min(bad) = 0
        BY <3>1 DEF SelectInSeq
      <4> QED
        BY <4>3, <4>4
    <3>3. \A i \in DOMAIN answer : answer[i].price \in Quotes
      BY <2>3, <3>2 DEF HasPrice, Words
    <3> QED
      BY <2>3, <3>1, <3>3, NumbersAreQuoted
  <2> QED
    BY <2>5, <2>6, <2>7
<1> QED
  BY <1>1, IInvHolds, PTL

\* Where ticker j of an answer is when ticker i is removed.
Moved(i, j) == IF j < i THEN j ELSE j - 1
MovedAll(i, kept) == {Moved(i, j) : j \in kept}

\* The others keep their order.
LEMMA RemovalMoves ==
  ASSUME NEW ts \in Seq(Tickers), NEW i \in DOMAIN ts
  PROVE  LET w == RemoveAt(ts, i)
         IN  /\ w \in Seq(Tickers)
             /\ DOMAIN w = MovedAll(i, DOMAIN ts \ {i})
             /\ \A j \in DOMAIN ts \ {i} : w[Moved(i, j)] = ts[j]
<1> DEFINE w == RemoveAt(ts, i)
           n == Len(ts)
           before == SubSeq(ts, 1, i - 1)
           after == SubSeq(ts, i + 1, n)
<1> HIDE DEF Tickers
<1>1. n \in Nat /\ i \in 1..n /\ DOMAIN ts = 1..n
  OBVIOUS
<1>2. /\ before \in Seq(Tickers) /\ Len(before) = i - 1
      /\ \A j \in 1..(i - 1) : before[j] = ts[j]
  BY <1>1
<1>3. /\ after \in Seq(Tickers) /\ Len(after) = n - i
      /\ \A j \in 1..(n - i) : after[j] = ts[i + j]
  BY <1>1
<1>4. w = before \o after
  BY DEF RemoveAt
<1> HIDE DEF w, before, after, n
<1>5. /\ w \in Seq(Tickers) /\ Len(w) = n - 1
      /\ \A j \in 1..(i - 1) : w[j] = ts[j]
      /\ \A j \in i..(n - 1) : w[j] = after[j - (i - 1)]
  <2>1. /\ w \in Seq(Tickers) /\ Len(w) = Len(before) + Len(after)
        /\ \A j \in 1..(Len(before) + Len(after)) :
              w[j] = IF j <= Len(before) THEN before[j] ELSE after[j - Len(before)]
    BY <1>2, <1>3, <1>4, ConcatProperties, Zenon
  <2>2. Len(before) + Len(after) = n - 1
    BY <1>1, <1>2, <1>3
  <2>3. \A j \in 1..(i - 1) : j \in 1..(n - 1) /\ j <= i - 1
    BY <1>1
  <2>4. \A j \in i..(n - 1) : j \in 1..(n - 1) /\ ~(j <= i - 1)
    BY <1>1
  <2> QED
    BY <1>2, <1>3, <2>1, <2>2, <2>3, <2>4, Zenon
<1>6. \A j \in i..(n - 1) : w[j] = ts[j + 1]
  <2> SUFFICES ASSUME NEW j \in i..(n - 1) PROVE w[j] = ts[j + 1]
    OBVIOUS
  <2>1. j - (i - 1) \in 1..(n - i) /\ i + (j - (i - 1)) = j + 1
    BY <1>1
  <2> QED
    BY <1>3, <1>5, <2>1
<1>7. DOMAIN w = 1..(n - 1)
  BY <1>1, <1>5
<1>8. \A j \in 1..n : j # i => Moved(i, j) \in 1..(n - 1) /\ w[Moved(i, j)] = ts[j]
  BY <1>1, <1>5, <1>6 DEF Moved
<1>9. \A k \in 1..(n - 1) : \E j \in 1..n : j # i /\ k = Moved(i, j)
  <2> SUFFICES ASSUME NEW k \in 1..(n - 1)
               PROVE  \E j \in 1..n : j # i /\ k = Moved(i, j)
    OBVIOUS
  <2>1. CASE k < i
    <3>1. k \in 1..n /\ k # i /\ k = Moved(i, k)
      BY <1>1, <2>1 DEF Moved
    <3> QED
      BY <3>1
  <2>2. CASE ~(k < i)
    <3>1. k + 1 \in 1..n /\ k + 1 # i /\ k = Moved(i, k + 1)
      BY <1>1, <2>2 DEF Moved
    <3> QED
      BY <3>1
  <2> QED
    BY <2>1, <2>2
<1> QED
  BY <1>1, <1>5, <1>7, <1>8, <1>9, Zenon DEF w, MovedAll

\* What is collected from the same tickers is the same without another one.
LEMMA CollectWithout ==
  ASSUME NEW ts \in Seq(Tickers), NEW i \in DOMAIN ts,
         NEW kept \in SUBSET (DOMAIN ts \ {i})
  PROVE  Collect(RemoveAt(ts, i), MovedAll(i, kept)) = Collect(ts, kept)
<1> DEFINE w == RemoveAt(ts, i)
           moved == MovedAll(i, kept)
           n == Len(ts)
           Those(s) == {j \in kept : ts[j].symbol = s}
           MovedThose(s) == {k \in moved : w[k].symbol = s}
<1>1. n \in Nat /\ i \in 1..n /\ DOMAIN ts = 1..n /\ kept \in SUBSET (1..n)
  OBVIOUS
<1>2. \A j \in kept : w[Moved(i, j)] = ts[j]
  BY RemovalMoves
<1> HIDE DEF w, n
<1>3. {w[k].symbol : k \in moved} = {ts[j].symbol : j \in kept}
  BY <1>2, Zenon DEF MovedAll
<1>4. ASSUME NEW s \in {ts[j].symbol : j \in kept}
      PROVE  w[Max(MovedThose(s))].price = ts[Max(Those(s))].price
  <2>1. Those(s) # {} /\ Those(s) \in SUBSET kept
    BY Zenon
  <2>2. PICK m \in Those(s) : \A j \in Those(s) : j <= m
    BY <1>1, <2>1, GreatestOf
  <2>3. MovedThose(s) = {Moved(i, j) : j \in Those(s)}
    BY <1>2, Zenon DEF MovedAll
  <2>4. \A j \in Those(s) : j \in 1..n
    BY <1>1, <2>1
  <2>5. \A j \in Those(s) : Moved(i, j) \in Int /\ Moved(i, j) <= Moved(i, m)
    BY <1>1, <2>2, <2>4 DEF Moved
  <2>6. Max(Those(s)) = m
    <3>1. Those(s) \in SUBSET Int
      BY <2>4
    <3> HIDE DEF Those
    <3> QED
      BY <2>2, <3>1, MaxIs
  <2>7. Max(MovedThose(s)) = Moved(i, m)
    <3>1. MovedThose(s) \in SUBSET Int /\ Moved(i, m) \in MovedThose(s)
      BY <2>2, <2>3, <2>5, Zenon
    <3>2. \A k \in MovedThose(s) : k <= Moved(i, m)
      BY <2>3, <2>5, Zenon
    <3> HIDE DEF MovedThose
    <3> QED
      BY <3>1, <3>2, MaxIs
  <2> QED
    BY <1>2, <2>2, <2>6, <2>7
<1> QED
  BY <1>3, <1>4, Zenon DEF Collect, w

\* From an answer without a ticker whose price does not parse the same prices are
\* collected, and it has the same other tickers.
LEMMA BadPriceRemoved ==
  ASSUME IInv, NEW i \in Indices, answer[i].price = Garbage
  PROVE  LET w == Without(i)
         IN  /\ answer # Nothing /\ w # Nothing
             /\ Collect(w, Wanted(Asked, w) \intersect Parsed(w))
                  = Collect(answer, Wanted(Asked, answer) \intersect Parsed(answer))
             /\ \A P : (\E k \in DOMAIN w : w[k] \in P)
                          <=> \E j \in DOMAIN answer \ {i} : answer[j] \in P
<1> DEFINE w == Without(i)
           kept == Wanted(Asked, answer) \intersect Parsed(answer)
           left == Wanted(Asked, w) \intersect Parsed(w)
           others == DOMAIN answer \ {i}
<1>1. answer # Nothing /\ answer \in Seq(Tickers) /\ i \in DOMAIN answer
  BY DEF Indices, IInv
<1>2. /\ w \in Seq(Tickers) /\ DOMAIN w = MovedAll(i, others)
      /\ \A j \in others : w[Moved(i, j)] = answer[j]
  BY <1>1, RemovalMoves, Zenon DEF Without
<1>3. w # Nothing
  BY <1>2, InputsAssumption, Zenon DEF Tickers
<1>4. i \notin kept /\ kept \in SUBSET others
  BY DEF Wanted, Parsed, HasPrice
<1> HIDE DEF w
<1>5. left = MovedAll(i, kept)
  BY <1>2, <1>4, Zenon DEF MovedAll, Wanted, Parsed
<1>6. Collect(w, left) = Collect(answer, kept)
  <2>1. w = RemoveAt(answer, i) /\ kept \in SUBSET (DOMAIN answer \ {i})
    BY <1>4, Zenon DEF Without, w
  <2> HIDE DEF kept, left
  <2> QED
    BY <1>1, <1>5, <2>1, CollectWithout, Zenon
<1>7. ASSUME NEW P
      PROVE  (\E k \in DOMAIN w : w[k] \in P) <=> \E j \in others : answer[j] \in P
  BY <1>2, Zenon DEF MovedAll
<1> QED
  BY <1>1, <1>3, <1>6, <1>7, Zenon DEF w

\* A price that does not parse costs its exchange that ticker and no other, in
\* answers of any length.
THEOREM LocalHolds == Spec => []OneBadPriceIsLocal
<1>1. IInv => OneBadPriceIsLocal
  <2> SUFFICES ASSUME IInv, NEW i \in Indices, answer[i].price = Garbage
               PROVE  LET w == Without(i)
                      IN  /\ FromStrings(Asked, answer) = FromStrings(Asked, w)
                          /\ answer[i].symbol # Absent =>
                               GateIoPriceUpdate(Asked, answer) = GateIoPriceUpdate(Asked, w)
    BY Zenon DEF OneBadPriceIsLocal, AscendexPriceUpdate, OkexPriceUpdate
  <2> DEFINE w == Without(i)
             others == DOMAIN answer \ {i}
             kept == Wanted(Asked, answer) \intersect Parsed(answer)
             left == Wanted(Asked, w) \intersect Parsed(w)
  <2>1. /\ answer # Nothing /\ w # Nothing /\ i \in DOMAIN answer
        /\ Collect(w, left) = Collect(answer, kept)
    BY BadPriceRemoved, Zenon DEF Indices
  <2>2. \A P : (\E k \in DOMAIN w : w[k] \in P) <=> \E j \in others : answer[j] \in P
    BY BadPriceRemoved, Zenon
  <2> HIDE DEF w
  <2>3. FromStrings(Asked, answer) = FromStrings(Asked, w)
    <3>1. SomeTicker(answer, LAMBDA t : HasPrice(t, {OtherType}))
            <=> SomeTicker(w, LAMBDA t : HasPrice(t, {OtherType}))
      <4> DEFINE P == {t \in ToSet(answer) \union ToSet(w) : HasPrice(t, {OtherType})}
      <4>1. answer[i] \notin P
        BY WordsAssumption DEF HasPrice
      <4>2. SomeTicker(answer, LAMBDA t : HasPrice(t, {OtherType}))
              <=> \E j \in DOMAIN answer : answer[j] \in P
        BY Zenon DEF SomeTicker, ToSet
      <4>3. SomeTicker(w, LAMBDA t : HasPrice(t, {OtherType}))
              <=> \E k \in DOMAIN w : w[k] \in P
        BY Zenon DEF SomeTicker, ToSet
      <4> HIDE DEF P
      <4> QED
        BY <2>1, <2>2, <4>1, <4>2, <4>3
    <3> QED
      BY <2>1, <3>1, Zenon DEF FromStrings
  <2>4. ASSUME answer[i].symbol # Absent
        PROVE  GateIoPriceUpdate(Asked, answer) = GateIoPriceUpdate(Asked, w)
    <3>1. SomeTicker(answer, LAMBDA t : t.symbol = Absent)
            <=> SomeTicker(w, LAMBDA t : t.symbol = Absent)
      <4> DEFINE P == {t \in ToSet(answer) \union ToSet(w) : t.symbol = Absent}
      <4>1. answer[i] \notin P
        BY <2>4
      <4>2. SomeTicker(answer, LAMBDA t : t.symbol = Absent)
              <=> \E j \in DOMAIN answer : answer[j] \in P
        BY Zenon DEF SomeTicker, ToSet
      <4>3. SomeTicker(w, LAMBDA t : t.symbol = Absent) <=> \E k \in DOMAIN w : w[k] \in P
        BY Zenon DEF SomeTicker, ToSet
      <4> HIDE DEF P
      <4> QED
        BY <2>1, <2>2, <4>1, <4>2, <4>3
    <3>2. (\E j \in Wanted(Asked, answer) : HasPrice(answer[j], {Absent, OtherType}))
            <=> \E k \in Wanted(Asked, w) : HasPrice(w[k], {Absent, OtherType})
      <4> DEFINE P == {t \in ToSet(answer) \union ToSet(w) :
                         t.symbol \in Asked /\ HasPrice(t, {Absent, OtherType})}
      <4>1. answer[i] \notin P
        BY WordsAssumption DEF HasPrice
      <4>2. (\E j \in Wanted(Asked, answer) : HasPrice(answer[j], {Absent, OtherType}))
              <=> \E j \in DOMAIN answer : answer[j] \in P
        BY Zenon DEF Wanted, ToSet
      <4>3. (\E k \in Wanted(Asked, w) : HasPrice(w[k], {Absent, OtherType}))
              <=> \E k \in DOMAIN w : w[k] \in P
        BY Zenon DEF Wanted, ToSet
      <4> HIDE DEF P
      <4> QED
        BY <2>1, <2>2, <4>1, <4>2, <4>3
    <3> QED
      BY <2>1, <3>1, <3>2, Zenon DEF GateIoPriceUpdate
  <2> QED
    BY <2>3, <2>4 DEF w
<1> QED
  BY <1>1, IInvHolds, PTL
=============================================================================
