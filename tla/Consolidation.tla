--------------------------- MODULE Consolidation ---------------------------
(***************************************************************************)
(* How AggregatePriceProvider makes one price of many: computeConsolidated-*)
(* Price, removeOutliers, median and meanAndStdDev.                        *)
(*                                                                         *)
(* Prices are integers and the arithmetic is exact. Two prices may average *)
(* to a half, so a consolidated price is given as twice its value. No      *)
(* square root is taken: |x - mean| <= stddev is multiplied out, with      *)
(* n(x - mean) the integer Deviation.                                      *)
(*                                                                         *)
(* The code's arithmetic is float64, and rounds. That decides something    *)
(* only in a tie, when a price is exactly one standard deviation from the  *)
(* mean: the sums are formed in the order of the prices, and on that order *)
(* depends whether the price is an outlier. So each tied price is cut or   *)
(* not, an input of the comparison: cut is the set of those that are.      *)
(*                                                                         *)
(* NotFinite stands for NaN and both infinities, which ParseFloat reads    *)
(* from an exchange's answer like any number. Whatever is computed from it *)
(* is not finite either, and a comparison with the result is false.        *)
(***************************************************************************)
EXTENDS Integers, Sequences, FiniteSets

CONSTANT NotFinite

ASSUME NotFiniteAssumption == NotFinite \notin Int

AllFinite(s)    == \A i \in DOMAIN s : s[i] # NotFinite
Plus(x, y)      == IF NotFinite \in {x, y} THEN NotFinite ELSE x + y

\* The loops of meanAndStdDev: a running sum.
Total(s) ==
    LET sum[i \in 0..Len(s)] == IF i = 0 THEN 0 ELSE Plus(sum[i - 1], s[i])
    IN  sum[Len(s)]

Deviation(s, x) == Len(s) * x - Total(s)
Squares(s)      == [i \in DOMAIN s |-> Deviation(s, s[i]) * Deviation(s, s[i])]

Distance(s, x)  == Deviation(s, x) * Deviation(s, x) * (Len(s) - 1)

\* The prices exactly one sample standard deviation from the mean. Equal prices
\* are none: rounding moves their mean by less than the deviation that comes of it.
Ties(s) ==
    LET limit   == Total(Squares(s))
        tied(x) == AllFinite(s) /\ limit > 0 /\ Distance(s, x) = limit
    IN  {s[i] : i \in {j \in DOMAIN s : tied(s[j])}}

\* Mutants of Inlier: a strict comparison; half a standard deviation.
Inlier_Strict(s, x, cut) ==
    AllFinite(s) /\ x \notin cut /\ Distance(s, x) < Total(Squares(s))

Inlier_Half(s, x, cut) ==
    AllFinite(s) /\ x \notin cut /\ 4 * Distance(s, x) <= Total(Squares(s))

\* Mutant of Inlier: the test is for outliers, so what compares with nothing
\* stays.
Inlier_NotBeyond(s, x, cut) ==
    AllFinite(s) => x \notin cut /\ Distance(s, x) <= Total(Squares(s))

\* Within one sample standard deviation of the mean, as the code finds it.
Inlier(s, x, cut) ==
    /\ AllFinite(s)
    /\ Distance(s, x) <= Total(Squares(s))
    /\ x \notin cut

\* Mutant of RemoveOutliers: it removes nothing.
RemoveOutliers_None(s, cut) == s

\* The loop of removeOutliers, filtered[i] after i prices.
RemoveOutliers(s, cut) ==
    LET filtered[i \in 0..Len(s)] ==
            IF i = 0 THEN <<>>
            ELSE IF Inlier(s, s[i], cut) THEN Append(filtered[i - 1], s[i])
            ELSE filtered[i - 1]
    IN  filtered[Len(s)]

\* Mutant of TwiceMedian: the prices are not sorted.
TwiceMedian_Unsorted(s) ==
    LET mid == Len(s) \div 2
    IN  IF Len(s) % 2 = 1 THEN 2 * s[mid + 1] ELSE s[mid] + s[mid + 1]

\* sort.Float64s puts what is not a number first.
Less(x, y) == y # NotFinite /\ (x = NotFinite \/ x < y)

\* A price goes where those that come before it leave it.
Before(s, i, j) == Less(s[i], s[j]) \/ (i <= j /\ ~Less(s[j], s[i]))
Rank(s, i)      == Cardinality({j \in DOMAIN s : Before(s, j, i)})
Sorted(s)       == [k \in DOMAIN s |-> s[CHOOSE i \in DOMAIN s : Rank(s, i) = k]]

TwiceMedian(s) ==
    LET t   == Sorted(s)
        mid == Len(s) \div 2
    IN  IF Len(s) % 2 = 1 THEN Plus(t[mid + 1], t[mid + 1]) ELSE Plus(t[mid], t[mid + 1])

Missing  == [valid |-> FALSE, twice |-> -2]
Price(t) == [valid |-> TRUE, twice |-> t]

\* Mutant of ComputeConsolidatedPrice: two prices are not averaged but added.
ComputeConsolidatedPrice_Sum(s, cut) ==
    CASE Len(s) = 0 -> Missing
      [] Len(s) = 1 -> Price(Plus(s[1], s[1]))
      [] OTHER      -> Price(Total(s))

ComputeConsolidatedPrice(s, cut) ==
    CASE Len(s) = 0 -> Missing
      [] Len(s) = 1 -> Price(Plus(s[1], s[1]))
      [] Len(s) = 2 -> Price(Plus(s[1], s[2]))
      [] OTHER      -> LET cleaned == RemoveOutliers(s, cut)
                       IN  IF cleaned = <<>> THEN Missing
                                             ELSE Price(TwiceMedian(cleaned))

\* What it may return: rounding cuts any of the ties.
Outcomes(s) == {ComputeConsolidatedPrice(s, cut) : cut \in SUBSET Ties(s)}
=============================================================================
