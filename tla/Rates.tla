------------------------------- MODULE Rates -------------------------------
(***************************************************************************)
(* From the prices of a voting period to the exchange rates of a prevote:  *)
(* Feeder.handleVotingPeriod, newPrevote and float64ToDec.                 *)
(*                                                                         *)
(* A rate is an integer number of the chain's smallest units (18 decimals  *)
(* in the code). A price is twice its value as in Consolidation, and Grain *)
(* of those make a unit. A rate of 0 is an abstention.                     *)
(***************************************************************************)
EXTENDS Integers, Sequences

CONSTANTS
    NotFinite,  \* see Consolidation
    Grain,      \* how finely prices divide the unit of rates
    MaxRate,    \* the largest rate the chain's decimals hold
    Panic       \* the conversion ends the process

ASSUME RatesAssumption ==
    /\ Grain \in Nat \ {0} /\ MaxRate \in Nat
    /\ {NotFinite, Panic} \cap Int = {} /\ Panic \notin Seq(Int)

Abs(x) == IF x < 0 THEN -x ELSE x

\* Mutant of Cut: rounding down.
Cut_Floor(x) == x \div Grain

\* The decimals beyond the 18th are cut off, whatever the sign.
Cut(x) == IF x < 0 THEN -((-x) \div Grain) ELSE x \div Grain

\* LegacyMustNewDecFromStr panics on the text of NaN and of an infinity, and
\* on a number it cannot hold.
Float64ToDec(x) ==
    IF x = NotFinite THEN Panic
    ELSE IF Abs(x) > Grain * MaxRate THEN Panic ELSE Cut(x)

\* handleVotingPeriod posts 0 for a price that is not valid.
Posted(price) == IF price.valid THEN price.twice ELSE 0

\* The rates of the prevote, one for each price in its order. One that does not
\* convert takes the whole process with it.
ExchangeRates(prices) ==
    LET rates == [i \in DOMAIN prices |-> Float64ToDec(Posted(prices[i]))]
    IN  IF \E i \in DOMAIN prices : rates[i] = Panic THEN Panic ELSE rates
=============================================================================
