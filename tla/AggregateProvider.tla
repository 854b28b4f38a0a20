------------------------- MODULE AggregateProvider -------------------------
(***************************************************************************)
(* AggregatePriceProvider.GetPrice: it asks every provider in a random     *)
(* order, and consolidates the valid answers. The providers' own loops     *)
(* update, and their prices expire, while it asks: an answer is read under *)
(* that provider's lock only, so no two are of the same moment.            *)
(***************************************************************************)
EXTENDS Consolidation, FiniteSets

CONSTANTS
    Providers,  \* the configured sources
    Prices,     \* the prices they may have
    Nil         \* no valid price

ASSUME PricesAssumption    == Prices \subseteq Nat /\ Nil \notin Prices
ASSUME ProvidersAssumption == IsFiniteSet(Providers)

VARIABLES
    prices,     \* external: what each provider would answer now
    pc,         \* whether GetPrice runs
    remaining,  \* the providers it has still to ask
    allPrices,  \* the valid answers so far
    result,     \* what it returned last
    increments, \* how often this call has incremented aggregate_prices_total
    seen,       \* history: every valid price a provider had during the call
    lacked      \* history: every provider that had none at some time in it

vars == <<prices, pc, remaining, allPrices, result, increments, seen, lacked>>

Init ==
    /\ prices \in [Providers -> Prices \union {Nil}]
    /\ pc = "idle"
    /\ remaining = {}
    /\ allPrices = <<>>
    /\ result = Missing
    /\ increments = 0
    /\ seen = {}
    /\ lacked = {}

Observe(ps) ==
    /\ seen' = seen \union ({ps[p] : p \in Providers} \ {Nil})
    /\ lacked' = lacked \union {p \in Providers : ps[p] = Nil}

\* A provider's loop stores an update, or its price expires.
Update(p) ==
    /\ \E x \in (Prices \union {Nil}) \ {prices[p]} :
         prices' = [prices EXCEPT ![p] = x]
    /\ IF pc = "ranging" THEN Observe(prices') ELSE UNCHANGED <<seen, lacked>>
    /\ UNCHANGED <<pc, remaining, allPrices, result, increments>>

\* Mutant of GetPrice: the answers of the call before are kept.
GetPrice_KeepsAnswers ==
    /\ pc = "idle"
    /\ pc' = "ranging"
    /\ remaining' = Providers
    /\ increments' = 0
    /\ seen' = {prices[p] : p \in Providers} \ {Nil}
    /\ lacked' = {p \in Providers : prices[p] = Nil}
    /\ UNCHANGED <<prices, allPrices, result>>

GetPrice ==
    /\ pc = "idle"
    /\ pc' = "ranging"
    /\ remaining' = Providers
    /\ allPrices' = <<>>
    /\ increments' = 0
    /\ seen' = {prices[p] : p \in Providers} \ {Nil}
    /\ lacked' = {p \in Providers : prices[p] = Nil}
    /\ UNCHANGED <<prices, result>>

\* Mutant of Ask: an invalid answer ends the loop.
Ask_StopsAtInvalid(p) ==
    /\ p \in remaining
    /\ IF prices[p] = Nil
       THEN remaining' = {} /\ UNCHANGED <<allPrices, increments>>
       ELSE /\ remaining' = remaining \ {p}
            /\ allPrices' = Append(allPrices, prices[p])
            /\ increments' = increments + 1
    /\ UNCHANGED <<prices, pc, result, seen, lacked>>

\* One turn of the loop over the map.
Ask(p) ==
    /\ p \in remaining
    /\ remaining' = remaining \ {p}
    /\ IF prices[p] = Nil
       THEN UNCHANGED <<allPrices, increments>>
       ELSE /\ allPrices' = Append(allPrices, prices[p])
            /\ increments' = increments + 1
    /\ UNCHANGED <<prices, pc, result, seen, lacked>>

Return ==
    /\ pc = "ranging"
    /\ remaining = {}
    /\ pc' = "idle"
    /\ result' \in Outcomes(allPrices)
    /\ increments' = increments + (IF allPrices = <<>> THEN 1 ELSE 0)
    /\ UNCHANGED <<prices, remaining, allPrices, seen, lacked>>

Next == GetPrice \/ Return \/ \E p \in Providers : Ask(p) \/ Update(p)

Spec == Init /\ [][Next]_vars

-----------------------------------------------------------------------------
(* Properties. *)

\* Every variable has its type, and no provider is asked twice in a call.
TypeOK ==
    /\ prices \in [Providers -> Prices \union {Nil}]
    /\ pc \in {"idle", "ranging"}
    /\ remaining \subseteq Providers
    /\ allPrices \in Seq(Prices)
    /\ Len(allPrices) <= Cardinality(Providers \ remaining)
    /\ result \in [valid : BOOLEAN, twice : Int]
    /\ increments \in Nat
    /\ seen \subseteq Prices
    /\ lacked \subseteq Providers

Returned == pc = "idle" /\ increments > 0

\* A price is returned although prices change under the loop: it lies between
\* the lowest and the highest price some provider had during the call.
ResultWasSeen ==
    Returned /\ result.valid =>
        /\ \E x \in seen : 2 * x <= result.twice
        /\ \E x \in seen : 2 * x >= result.twice

\* A pair is abstained on only if each provider was without a price for it at
\* some time during the call.
MissingOnlyIfLacked == Returned /\ ~result.valid => lacked = Providers
=============================================================================
