---------------------- MODULE AggregateProvider_proofs ----------------------
(***************************************************************************)
(* The consolidation of any number of prices, and GetPrice for any         *)
(* providers and prices, however they change while it asks.                *)
(*                                                                         *)
(* The loops of the consolidation are recursive functions of the number of *)
(* turns. What they compute follows by induction on that number, stated    *)
(* with sets: see SetInduction.                                            *)
(***************************************************************************)
EXTENDS AggregateProvider, FiniteSetTheorems, SequenceTheorems,
        WellFoundedInduction, TLAPS

-----------------------------------------------------------------------------
(* Induction. *)

\* A set of numbers that holds 0 and with each number the next holds them all.
LEMMA SetInduction ==
  ASSUME NEW S \in SUBSET Nat, 0 \in S, \A n \in Nat : n \in S => n + 1 \in S
  PROVE  \A n \in Nat : n \in S
<1> SUFFICES ASSUME Nat \ S # {} PROVE FALSE
  OBVIOUS
<1>1. PICK x \in Nat \ S : \A y \in Nat \ S : ~ (<<y, x>> \in OpToRel(<, Nat))
  BY NatLessThanWellFounded, WFMin
<1>2. \A y \in Nat \ S : ~(y < x)
  BY <1>1 DEF OpToRel
<1> QED
  BY <1>2

\* A set of numbers that is not empty has a least one.
LEMMA LeastOf ==
  ASSUME NEW S \in SUBSET Nat, S # {}
  PROVE  \E x \in S : \A y \in S : x <= y
<1>1. PICK x \in S : \A y \in S : ~ (<<y, x>> \in OpToRel(<, Nat))
  BY NatLessThanWellFounded, WFMin
<1>2. \A y \in S : ~(y < x)
  BY <1>1 DEF OpToRel
<1> QED
  BY <1>2

\* There are n numbers from 1 to n.
LEMMA FirstNumbers == \A n \in Nat : IsFiniteSet(1..n) /\ Cardinality(1..n) = n
  BY FS_Interval

-----------------------------------------------------------------------------
(* Total. *)

\* sum is the running sum of s.
Sums(s, sum) ==
    /\ sum \in [0..Len(s) -> Int]
    /\ sum[0] = 0
    /\ \A i \in 1..Len(s) : sum[i] = sum[i - 1] + s[i]

\* Numbers have a running sum.
LEMMA SumsExist ==
  ASSUME NEW s \in Seq(Int)
  PROVE  \E sum : Sums(s, sum)
<1> DEFINE Upto(n, f) == /\ f \in [0..n -> Int]
                         /\ f[0] = 0
                         /\ \A i \in 1..n : f[i] = f[i - 1] + s[i]
           S == {n \in Nat : n <= Len(s) => \E f : Upto(n, f)}
<1>1. 0 \in S
  <2>1. Upto(0, [i \in 0..0 |-> 0])
    OBVIOUS
  <2> QED
    BY <2>1
<1>2. ASSUME NEW n \in Nat, n \in S, n + 1 <= Len(s)
      PROVE  \E f : Upto(n + 1, f)
  <2>1. PICK f : Upto(n, f)
    <3> HIDE DEF Upto
    <3> QED
      BY <1>2
  <2> DEFINE g == [i \in 0..(n + 1) |-> IF i <= n THEN f[i] ELSE f[n] + s[n + 1]]
  <2>2. s[n + 1] \in Int
    BY <1>2
  <2>3. g \in [0..(n + 1) -> Int] /\ g[0] = 0
    BY <2>1, <2>2
  <2>4. ASSUME NEW i \in 1..(n + 1)
        PROVE  g[i] = g[i - 1] + s[i]
    BY <2>1, <2>2
  <2>5. Upto(n + 1, g)
    BY <2>3, <2>4
  <2> QED
    BY <2>5
<1> HIDE DEF Upto
<1>3. \A n \in Nat : n \in S => n + 1 \in S
  BY <1>2
<1>4. Len(s) \in S
  <2> HIDE DEF S
  <2>1. S \in SUBSET Nat
    BY DEF S
  <2> QED
    BY <1>1, <1>3, <2>1, SetInduction
<1>5. PICK f : Upto(Len(s), f)
  BY <1>4
<1> QED
  BY <1>5 DEF Sums, Upto

\* Total is the last of the running sums.
LEMMA TotalIsSum ==
  ASSUME NEW s \in Seq(Int), NEW sum, Sums(s, sum)
  PROVE  Total(s) = sum[Len(s)]
<1> DEFINE Def(f) == [i \in 0..Len(s) |-> IF i = 0 THEN 0 ELSE Plus(f[i - 1], s[i])]
           g == CHOOSE f : f = Def(f)
<1>1. sum = Def(sum)
  <2>1. ASSUME NEW i \in 0..Len(s)
        PROVE  sum[i] = IF i = 0 THEN 0 ELSE Plus(sum[i - 1], s[i])
    <3>1. CASE i = 0
      BY <3>1 DEF Sums
    <3>2. CASE i # 0
      <4>1. i \in 1..Len(s) /\ sum[i - 1] \in Int /\ s[i] \in Int
        BY <3>2 DEF Sums
      <4> QED
        BY <3>2, <4>1, NotFiniteAssumption DEF Sums, Plus
    <3> QED
      BY <3>1, <3>2
  <2> QED
    BY <2>1 DEF Sums
<1>2. g = Def(g)
  BY <1>1
<1>3. Total(s) = g[Len(s)]
  BY Zenon DEF Total
<1> HIDE DEF g
<1> DEFINE S == {n \in Nat : n <= Len(s) => g[n] = sum[n]}
<1>4. 0 \in S
  BY <1>2 DEF Sums
<1>5. ASSUME NEW n \in Nat, n \in S, n + 1 <= Len(s)
      PROVE  g[n + 1] = sum[n + 1]
  <2>1. g[n] = sum[n] /\ sum[n] \in Int /\ s[n + 1] \in Int
    BY <1>5 DEF Sums
  <2>2. g[n + 1] = Plus(g[n], s[n + 1])
    BY <1>2, <1>5
  <2> QED
    BY <1>5, <2>1, <2>2, NotFiniteAssumption DEF Sums, Plus
<1>6. \A n \in Nat : n \in S => n + 1 \in S
  BY <1>5
<1>7. Len(s) \in S
  <2> HIDE DEF S
  <2>1. S \in SUBSET Nat
    BY DEF S
  <2> QED
    BY <1>4, <1>6, <2>1, SetInduction
<1> QED
  BY <1>3, <1>7

\* Numbers of which none is below m add up to as many times m at least.
LEMMA TotalAtLeast ==
  ASSUME NEW s \in Seq(Int), NEW m \in Int, \A i \in DOMAIN s : m <= s[i]
  PROVE  Total(s) \in Int /\ Len(s) * m <= Total(s)
<1>1. PICK sum : Sums(s, sum)
  BY SumsExist
<1> DEFINE S == {n \in Nat : n <= Len(s) => n * m <= sum[n]}
<1>2. 0 \in S
  BY <1>1 DEF Sums
<1>3. ASSUME NEW n \in Nat, n \in S, n + 1 <= Len(s)
      PROVE  (n + 1) * m <= sum[n + 1]
  <2>1. sum[n] \in Int /\ sum[n + 1] = sum[n] + s[n + 1] /\ n * m <= sum[n]
    BY <1>1, <1>3 DEF Sums
  <2>2. s[n + 1] \in Int /\ m <= s[n + 1]
    BY <1>3
  <2>3. (n + 1) * m = n * m + m /\ n * m \in Int
    OBVIOUS
  <2> QED
    BY <2>1, <2>2, <2>3
<1>4. \A n \in Nat : n \in S => n + 1 \in S
  BY <1>3
<1>5. Len(s) \in S
  <2> HIDE DEF S
  <2>1. S \in SUBSET Nat
    BY DEF S
  <2> QED
    BY <1>2, <1>4, <2>1, SetInduction
<1> QED
  BY <1>1, <1>5, TotalIsSum DEF Sums

-----------------------------------------------------------------------------
(* RemoveOutliers. *)

\* A square is not negative.
LEMMA SquareIsNat == \A x \in Int : x * x \in Nat
<1> SUFFICES ASSUME NEW x \in Int PROVE x * x >= 0
  OBVIOUS
<1>1. CASE x >= 0
  BY <1>1
<1>2. CASE x < 0
  BY <1>2
<1> QED
  BY <1>1, <1>2

\* What the deviations are computed from.
LEMMA SquaresOf ==
  ASSUME NEW s \in Seq(Int)
  PROVE  /\ Total(s) \in Int
         /\ Squares(s) \in Seq(Nat) /\ Squares(s) \in Seq(Int) /\ Len(Squares(s)) = Len(s)
         /\ \A i \in DOMAIN s : /\ Deviation(s, s[i]) \in Int
                               /\ Squares(s)[i] = Deviation(s, s[i]) * Deviation(s, s[i])
<1>1. Total(s) \in Int
  <2>1. PICK sum : Sums(s, sum)
    BY SumsExist
  <2>2. Len(s) \in 0..Len(s)
    OBVIOUS
  <2> QED
    BY <2>1, <2>2, TotalIsSum DEF Sums
<1> DEFINE sq == Squares(s)
           n == Len(s)
<1>2. \A i \in DOMAIN s : Deviation(s, s[i]) \in Int
  BY <1>1 DEF Deviation
<1>3. DOMAIN s = 1..n /\ n \in Nat
  OBVIOUS
<1>4. sq = [i \in 1..n |-> Deviation(s, s[i]) * Deviation(s, s[i])]
  BY <1>3 DEF Squares
<1>5. \A i \in 1..n : Deviation(s, s[i]) * Deviation(s, s[i]) \in Nat
  BY <1>2, <1>3, SquareIsNat
<1> HIDE DEF n, sq
<1>6. sq \in [1..n -> Nat]
  BY <1>4, <1>5
<1>7. sq \in Seq(Nat) /\ sq \in Seq(Int) /\ Len(sq) = n
  BY <1>3, <1>6
<1> QED
  BY <1>1, <1>2, <1>3, <1>4, <1>7 DEF sq, n

\* The price closest to the mean is within one standard deviation of it: the
\* mean square is not below the least square.
LEMMA SomeInlier ==
  ASSUME NEW s \in Seq(Int), NEW cut \in SUBSET Ties(s), s # <<>>
  PROVE  \E i \in DOMAIN s : Inlier(s, s[i], cut)
<1> DEFINE sq == Squares(s)
           n == Len(s)
<1>1. /\ sq \in Seq(Nat) /\ sq \in Seq(Int) /\ Len(sq) = n /\ DOMAIN sq = DOMAIN s
      /\ \A i \in DOMAIN s : sq[i] = Deviation(s, s[i]) * Deviation(s, s[i])
  BY SquaresOf
<1> HIDE DEF sq
<1>2. PICK i \in DOMAIN s : \A j \in DOMAIN s : sq[i] <= sq[j]
  <2> DEFINE V == {sq[j] : j \in DOMAIN s}
  <2>1. V \in SUBSET Nat /\ V # {}
    BY <1>1
  <2>2. PICK v \in V : \A w \in V : v <= w
    BY <2>1, LeastOf
  <2> QED
    BY <2>2
<1>3. sq[i] \in Nat /\ n \in Nat \ {0}
  BY <1>1
<1>4. Total(sq) \in Int /\ n * sq[i] <= Total(sq)
  <2>1. \A j \in DOMAIN sq : sq[i] <= sq[j]
    BY <1>1, <1>2
  <2>2. sq[i] \in Int
    BY <1>3
  <2> QED
    BY <1>1, <2>1, <2>2, TotalAtLeast
<1>5. sq[i] * (n - 1) = n * sq[i] - sq[i] /\ n * sq[i] \in Int
  BY <1>3
<1>6. sq[i] * (n - 1) <= Total(sq) /\ (sq[i] * (n - 1) = Total(sq) => Total(sq) <= 0)
  <2>1. sq[i] = 0 => sq[i] * (n - 1) = 0
    BY <1>3
  <2> QED
    BY <1>3, <1>4, <1>5, <2>1
<1>7. AllFinite(s)
  BY NotFiniteAssumption DEF AllFinite
<1>8. Distance(s, s[i]) = sq[i] * (n - 1)
  BY <1>1 DEF Distance, n
<1> HIDE DEF n
<1>9. s[i] \notin cut
  BY <1>4, <1>6, <1>8 DEF Ties, sq
<1> QED
  BY <1>6, <1>7, <1>8, <1>9 DEF Inlier, sq

\* The numbers s[i] equal to x, of the first k.
SameAs(s, x, k) == {i \in 1..k : s[i] = x}

\* One more number may be one more such.
LEMMA SameAsGrows ==
  ASSUME NEW s \in Seq(Int), NEW x \in Int, NEW k \in Nat
  PROVE  /\ IsFiniteSet(SameAs(s, x, k)) /\ Cardinality(SameAs(s, x, k)) \in Nat
         /\ Cardinality(SameAs(s, x, k + 1)) =
              Cardinality(SameAs(s, x, k)) + (IF s[k + 1] = x THEN 1 ELSE 0)
<1>1. IsFiniteSet(SameAs(s, x, k)) /\ k + 1 \notin SameAs(s, x, k)
  <2>1. SameAs(s, x, k) \in SUBSET (1..k) /\ IsFiniteSet(1..k) /\ k + 1 \notin 1..k
    BY FS_Interval DEF SameAs
  <2> QED
    BY <2>1, FS_Subset
<1>2. Cardinality(SameAs(s, x, k)) \in Nat
  BY <1>1, FS_CardinalityType
<1>3. CASE s[k + 1] = x
  <2>1. SameAs(s, x, k + 1) = SameAs(s, x, k) \cup {k + 1}
    BY <1>3 DEF SameAs
  <2>2. Cardinality(SameAs(s, x, k) \cup {k + 1}) = Cardinality(SameAs(s, x, k)) + 1
    BY <1>1, FS_AddElement
  <2> QED
    BY <1>1, <1>2, <1>3, <2>1, <2>2
<1>4. CASE s[k + 1] # x
  <2>1. SameAs(s, x, k + 1) = SameAs(s, x, k)
    BY <1>4 DEF SameAs
  <2> QED
    BY <1>1, <1>2, <1>4, <2>1
<1> QED
  BY <1>3, <1>4

\* A square is not below the tangent to the parabola at -d, and at d it is above
\* it by 4 times the square of d.
LEMMA TangentBelow ==
  ASSUME NEW d \in Int, NEW e \in Int, NEW c \in Int, NEW q \in Int, NEW a \in Int,
         q >= (d * d) * c - 2 * (d * e)
  PROVE  /\ q + a * a >= (d * d) * (c - 1) - 2 * (d * (e + a))
         /\ a = d => q + a * a >= (d * d) * (c + 3) - 2 * (d * (e + a))
<1>1. (d + a) * (d + a) >= 0 /\ d * d \in Int /\ d * e \in Int /\ d * a \in Int /\ a * a \in Int
  BY SquareIsNat
<1>2. (d + a) * (d + a) = d * d + 2 * (d * a) + a * a
  OBVIOUS
<1>3. d * (e + a) = d * e + d * a
  OBVIOUS
<1>4. /\ (d * d) * (c - 1) = (d * d) * c - d * d
      /\ (d * d) * (c + 3) = (d * d) * c + 3 * (d * d)
      /\ (d * d) * c \in Int
  BY <1>1
<1> QED
  BY <1>1, <1>2, <1>3, <1>4

\* The deviations of the first k prices, added up, and how much of the square of
\* x's deviation theirs are above.
Spread(s, sum, k) == Len(s) * sum[k] - k * Total(s)
Weight(s, x, k)   == 4 * Cardinality(SameAs(s, x, k)) - k

\* Then the squares of their deviations add up to so much.
SquaresAbove(s, x, sum, squares, k) ==
    LET d == Deviation(s, x)
    IN  squares[k] >= (d * d) * Weight(s, x, k) - 2 * (d * Spread(s, sum, k))

\* One more price.
LEMMA SquaresGrow ==
  ASSUME NEW s \in Seq(Int), NEW x \in Int, NEW sum, Sums(s, sum),
         NEW squares, Sums(Squares(s), squares),
         NEW k \in Nat, k + 1 <= Len(s), SquaresAbove(s, x, sum, squares, k)
  PROVE  SquaresAbove(s, x, sum, squares, k + 1)
<1> DEFINE a == Deviation(s, s[k + 1])
<1>1. /\ Len(s) \in Nat /\ k + 1 \in 1..Len(s) /\ k \in 0..Len(s) /\ k + 1 \in DOMAIN s
      /\ s[k + 1] \in Int
  OBVIOUS
<1>2. Total(s) \in Int /\ a \in Int /\ Squares(s)[k + 1] = a * a /\ Len(Squares(s)) = Len(s)
  BY <1>1, SquaresOf
<1>3. squares[k] \in Int /\ squares[k + 1] = squares[k] + a * a
  BY <1>1, <1>2 DEF Sums
<1>4. Spread(s, sum, k) \in Int /\ Spread(s, sum, k + 1) = Spread(s, sum, k) + a
  <2>1. sum[k] \in Int /\ sum[k + 1] = sum[k] + s[k + 1]
    BY <1>1 DEF Sums
  <2> DEFINE n == Len(s)
             p == sum[k]
             v == s[k + 1]
             t == Total(s)
  <2>2. n \in Int /\ p \in Int /\ v \in Int /\ t \in Int
    BY <1>1, <1>2, <2>1
  <2>3. /\ Spread(s, sum, k) = n * p - k * t /\ a = n * v - t
        /\ Spread(s, sum, k + 1) = n * (p + v) - (k + 1) * t
    BY <2>1 DEF Spread, Deviation
  <2> HIDE DEF n, p, v, t, a
  <2>4. n * p \in Int /\ n * v \in Int /\ k * t \in Int
    BY <2>2
  <2>5. n * (p + v) = n * p + n * v /\ (k + 1) * t = k * t + t
    BY <2>2
  <2> QED
    BY <2>2, <2>3, <2>4, <2>5
<1>5. /\ Weight(s, x, k) \in Int
      /\ Weight(s, x, k + 1) = Weight(s, x, k) + (IF s[k + 1] = x THEN 3 ELSE -1)
  <2>1. /\ Cardinality(SameAs(s, x, k)) \in Nat
        /\ Cardinality(SameAs(s, x, k + 1)) =
             Cardinality(SameAs(s, x, k)) + (IF s[k + 1] = x THEN 1 ELSE 0)
    BY SameAsGrows
  <2> DEFINE m == Cardinality(SameAs(s, x, k))
             more == Cardinality(SameAs(s, x, k + 1))
  <2>2. Weight(s, x, k) = 4 * m - k /\ Weight(s, x, k + 1) = 4 * more - (k + 1)
    BY DEF Weight
  <2> HIDE DEF m, more
  <2>3. m \in Nat /\ (s[k + 1] = x => more = m + 1) /\ (s[k + 1] # x => more = m)
    BY <2>1 DEF m, more
  <2>4. CASE s[k + 1] = x
    BY <2>2, <2>3, <2>4
  <2>5. CASE s[k + 1] # x
    BY <2>2, <2>3, <2>5
  <2> QED
    BY <2>4, <2>5
<1> DEFINE d == Deviation(s, x)
           w == Weight(s, x, k)
           e == Spread(s, sum, k)
<1>6. d \in Int /\ (s[k + 1] = x => a = d)
  <2>1. d \in Int
    <3>1. Len(s) * x \in Int
      BY <1>1
    <3> QED
      BY <1>2, <3>1 DEF Deviation
  <2> QED
    BY <2>1
<1>7. squares[k] >= (d * d) * w - 2 * (d * e)
  BY DEF SquaresAbove
<1>8. SUFFICES squares[k] + a * a >= (d * d) * Weight(s, x, k + 1) - 2 * (d * (e + a))
  BY <1>3, <1>4 DEF SquaresAbove
<1> HIDE DEF a, d, w, e
<1>9. /\ squares[k] + a * a >= (d * d) * (w - 1) - 2 * (d * (e + a))
      /\ a = d => squares[k] + a * a >= (d * d) * (w + 3) - 2 * (d * (e + a))
  BY <1>2, <1>3, <1>4, <1>5, <1>6, <1>7, TangentBelow DEF w, e
<1>10. CASE s[k + 1] = x
  <2>1. Weight(s, x, k + 1) = w + 3
    BY <1>5, <1>10 DEF w
  <2> QED
    BY <1>6, <1>9, <1>10, <2>1
<1>11. CASE s[k + 1] # x
  <2>1. Weight(s, x, k + 1) = w - 1
    BY <1>5, <1>11 DEF w
  <2> QED
    BY <1>9, <2>1
<1> QED
  BY <1>10, <1>11

\* A price that most of n providers give is within one standard deviation of the
\* mean: however far off the others pull the mean, their own deviations are
\* larger still.
LEMMA MajorityIsInlier ==
  ASSUME NEW s \in Seq(Int), NEW cut \in SUBSET Ties(s), NEW x \in Int,
         2 * Cardinality(SameAs(s, x, Len(s))) > Len(s)
  PROVE  Inlier(s, x, cut)
<1>1. Len(s) \in Nat /\ DOMAIN s = 1..Len(s)
  OBVIOUS
<1>2. /\ Total(s) \in Int /\ Deviation(s, x) \in Int
      /\ Squares(s) \in Seq(Int) /\ Len(Squares(s)) = Len(s)
  BY <1>1, SquaresOf DEF Deviation
<1>3. PICK sum : Sums(s, sum)
  BY SumsExist
<1>4. PICK squares : Sums(Squares(s), squares)
  BY <1>2, SumsExist
<1> DEFINE S == {k \in Nat : k <= Len(s) => SquaresAbove(s, x, sum, squares, k)}
<1>5. 0 \in S
  <2>1. squares[0] = 0 /\ Spread(s, sum, 0) = 0
    BY <1>1, <1>2, <1>3, <1>4 DEF Sums, Spread
  <2>2. Weight(s, x, 0) = 0
    <3>1. SameAs(s, x, 0) = {}
      BY DEF SameAs
    <3>2. Cardinality(SameAs(s, x, 0)) = 0
      BY <3>1, FS_EmptySet
    <3> QED
      BY <3>2 DEF Weight
  <2>3. SquaresAbove(s, x, sum, squares, 0)
    BY <1>2, <2>1, <2>2 DEF SquaresAbove
  <2> QED
    BY <2>3
<1>6. \A k \in Nat : k \in S => k + 1 \in S
  BY <1>1, <1>3, <1>4, SquaresGrow
<1>7. SquaresAbove(s, x, sum, squares, Len(s))
  <2> HIDE DEF S
  <2>1. S \in SUBSET Nat
    BY DEF S
  <2>2. Len(s) \in S
    BY <1>1, <1>5, <1>6, <2>1, SetInduction
  <2> QED
    BY <1>1, <2>2 DEF S
<1> DEFINE n == Len(s)
           d == Deviation(s, x)
           m == Cardinality(SameAs(s, x, n))
           w == Weight(s, x, n)
           q == Total(Squares(s))
<1>8. Spread(s, sum, n) = 0
  BY <1>1, <1>2, <1>3, TotalIsSum DEF Spread
<1>9. q = squares[n] /\ q \in Int
  <2>1. q = squares[Len(Squares(s))]
    BY <1>2, <1>4, TotalIsSum
  <2>2. Len(Squares(s)) \in 0..Len(Squares(s))
    BY <1>1, <1>2
  <2>3. squares[Len(Squares(s))] \in Int
    BY <1>4, <2>2 DEF Sums
  <2> QED
    BY <1>2, <2>1, <2>3
<1>10. m \in Nat /\ 2 * m > n /\ w = 4 * m - n
  BY <1>1, SameAsGrows DEF Weight
<1>11. q >= (d * d) * w - 2 * (d * 0)
  BY <1>7, <1>8, <1>9 DEF SquaresAbove
<1> HIDE DEF n, d, m, w, q
<1>12. d * d \in Nat /\ d \in Int /\ n \in Nat
  BY <1>1, <1>2, SquareIsNat DEF d, n
<1>13. (d * d) * w >= (d * d) * (n - 1) + d * d
  <2>1. PICK r \in Nat : w = n + r
    <3>1. w - n \in Nat /\ w = n + (w - n)
      BY <1>10, <1>12
    <3> QED
      BY <3>1
  <2>2. (d * d) * (n + r) = ((d * d) * (n - 1) + d * d) + (d * d) * r
    BY <1>12
  <2>3. (d * d) * r \in Nat /\ (d * d) * (n - 1) \in Int
    BY <1>12
  <2> QED
    BY <1>12, <2>1, <2>2, <2>3
<1>14. d * d * (n - 1) <= q /\ (d * d * (n - 1) = q => q <= 0)
  <2>1. (d * d) * w \in Int /\ (d * d) * (n - 1) \in Int /\ d * 0 = 0
    BY <1>10, <1>12
  <2>2. d * d = 0 => (d * d) * (n - 1) = 0
    BY <1>12
  <2> QED
    BY <1>9, <1>11, <1>12, <1>13, <2>1, <2>2
<1>15. AllFinite(s)
  BY NotFiniteAssumption DEF AllFinite
<1>16. Distance(s, x) <= q /\ ~(q > 0 /\ Distance(s, x) = q)
  BY <1>9, <1>14 DEF Distance, n, d
<1>17. x \notin cut
  <2>1. x \notin Ties(s)
    BY <1>16 DEF Ties, q
  <2> QED
    BY <2>1
<1> QED
  BY <1>15, <1>16, <1>17 DEF Inlier, q

\* The positions of t with a price in V, and the inliers in V of the first n.
Places(t, V)     == {k \in DOMAIN t : t[k] \in V}
Inliers(s, n, V, cut) == {i \in 1..n : Inlier(s, s[i], cut) /\ s[i] \in V}

\* After n turns of its loop, removeOutliers has kept prices it was given, each
\* as often as the first n hold it as an inlier, and one if there is one.
Kept(s, n, t, cut) ==
    /\ t \in Seq(Int)
    /\ \A k \in DOMAIN t : \E i \in DOMAIN s : t[k] = s[i]
    /\ t = <<>> => \A i \in 1..n : ~Inlier(s, s[i], cut)
    /\ \A V : Cardinality(Places(t, V)) = Cardinality(Inliers(s, n, V, cut))

\* What one more turn makes of t.
Turn(s, n, t, cut) == IF Inlier(s, s[n], cut) THEN Append(t, s[n]) ELSE t

\* Each turn keeps it so.
LEMMA TurnKeeps ==
  ASSUME NEW s \in Seq(Int), NEW cut, NEW n \in 1..Len(s), NEW t, Kept(s, n - 1, t, cut)
  PROVE  Kept(s, n, Turn(s, n, t, cut), cut)
<1>1. s[n] \in Int /\ n \in DOMAIN s
  OBVIOUS
<1>2. t \in Seq(Int) /\ DOMAIN t = 1..Len(t) /\ Len(t) \in Nat
  BY DEF Kept
<1>3. CASE Inlier(s, s[n], cut)
  <2>1. Turn(s, n, t, cut) = Append(t, s[n])
    BY <1>3 DEF Turn
  <2>2. Append(t, s[n]) \in Seq(Int) /\ Append(t, s[n]) # <<>>
    BY <1>1, AppendProperties DEF Kept
  <2>3. ASSUME NEW k \in DOMAIN Append(t, s[n])
        PROVE  \E i \in DOMAIN s : Append(t, s[n])[k] = s[i]
    <3>1. CASE k = Len(t) + 1
      BY <1>1, <3>1 DEF Kept
    <3>2. CASE k # Len(t) + 1
      <4>1. k \in DOMAIN t /\ Append(t, s[n])[k] = t[k]
        BY <1>1, <3>2 DEF Kept
      <4> QED
        BY <4>1 DEF Kept
    <3> QED
      BY <3>1, <3>2
  <2>4. ASSUME NEW V
        PROVE  Cardinality(Places(Append(t, s[n]), V)) = Cardinality(Inliers(s, n, V, cut))
    <3> DEFINE P == Places(t, V)
               I == Inliers(s, n - 1, V, cut)
    <3>1. IsFiniteSet(P) /\ Len(t) + 1 \notin P
      <4>1. P \in SUBSET (1..Len(t)) /\ IsFiniteSet(1..Len(t))
        BY <1>2, FS_Interval DEF Places
      <4>2. Len(t) + 1 \notin 1..Len(t)
        BY <1>2
      <4> QED
        BY <4>1, <4>2, FS_Subset
    <3>2. IsFiniteSet(I) /\ n \notin I
      <4>1. I \in SUBSET (1..(n - 1)) /\ IsFiniteSet(1..(n - 1)) /\ n \notin 1..(n - 1)
        BY FS_Interval DEF Inliers
      <4> QED
        BY <4>1, FS_Subset
    <3>3. Cardinality(P) = Cardinality(I)
      BY DEF Kept
    <3>4. CASE s[n] \in V
      <4>1. Places(Append(t, s[n]), V) = P \cup {Len(t) + 1}
        BY <1>1, <1>2, <3>4 DEF Places
      <4>2. Inliers(s, n, V, cut) = I \cup {n}
        BY <1>3, <3>4 DEF Inliers
      <4> HIDE DEF P, I
      <4>3. Cardinality(P \cup {Len(t) + 1}) = Cardinality(P) + 1
        BY <3>1, FS_AddElement
      <4>4. Cardinality(I \cup {n}) = Cardinality(I) + 1
        BY <3>2, FS_AddElement
      <4> QED
        BY <3>3, <4>1, <4>2, <4>3, <4>4, Zenon
    <3>5. CASE s[n] \notin V
      <4>1. Places(Append(t, s[n]), V) = P
        BY <1>1, <1>2, <3>5 DEF Places
      <4>2. Inliers(s, n, V, cut) = I
        BY <3>5 DEF Inliers
      <4> QED
        BY <3>3, <4>1, <4>2
    <3> QED
      BY <3>4, <3>5
  <2> QED
    BY <2>1, <2>2, <2>3, <2>4 DEF Kept
<1>4. CASE ~Inlier(s, s[n], cut)
  <2>1. \A i \in 1..n : i = n \/ i \in 1..(n - 1)
    OBVIOUS
  <2>2. Turn(s, n, t, cut) = t
    BY <1>4 DEF Turn
  <2>3. \A V : Inliers(s, n, V, cut) = Inliers(s, n - 1, V, cut)
    BY <1>4, <2>1 DEF Inliers
  <2> QED
    BY <1>4, <2>1, <2>2, <2>3 DEF Kept
<1> QED
  BY <1>3, <1>4

\* The turns, from the first on.
Turns(s, cut, filtered) ==
    filtered = [i \in 0..Len(s) |-> IF i = 0 THEN <<>> ELSE Turn(s, i, filtered[i - 1], cut)]

\* The loop can make its turns: each state of it follows from the one before.
LEMMA TurnsExist ==
  ASSUME NEW X, NEW s \in Seq(X), NEW cut
  PROVE  \E filtered : Turns(s, cut, filtered)
<1> DEFINE Upto(n, f) ==
             f = [i \in 0..n |-> IF i = 0 THEN <<>> ELSE Turn(s, i, f[i - 1], cut)]
           S == {n \in Nat : \E f : Upto(n, f)}
<1>1. 0 \in S
  <2>1. Upto(0, [i \in 0..0 |-> <<>>])
    OBVIOUS
  <2> QED
    BY <2>1
<1>2. ASSUME NEW n \in Nat, n \in S
      PROVE  \E f : Upto(n + 1, f)
  <2>1. PICK f : Upto(n, f)
    <3> HIDE DEF Upto
    <3> QED
      BY <1>2
  <2> DEFINE g == [i \in 0..(n + 1) |-> IF i <= n THEN f[i] ELSE Turn(s, n + 1, f[n], cut)]
  <2>2. ASSUME NEW i \in 0..(n + 1)
        PROVE  g[i] = IF i = 0 THEN <<>> ELSE Turn(s, i, g[i - 1], cut)
    <3>1. CASE i = n + 1
      BY <3>1
    <3>2. CASE i # n + 1
      <4>1. i \in 0..n /\ i <= n /\ g[i] = f[i]
        BY <3>2
      <4>2. f[i] = IF i = 0 THEN <<>> ELSE Turn(s, i, f[i - 1], cut)
        BY <2>1, <4>1
      <4>3. i # 0 => g[i - 1] = f[i - 1]
        BY <4>1
      <4> QED
        BY <4>1, <4>2, <4>3
    <3> QED
      BY <3>1, <3>2
  <2>3. Upto(n + 1, g)
    BY <2>2
  <2> QED
    BY <2>3
<1>3. \A n \in Nat : n \in S => n + 1 \in S
  <2> HIDE DEF Upto
  <2> QED
    BY <1>2
<1>4. Len(s) \in S
  <2> HIDE DEF S
  <2>1. S \in SUBSET Nat
    BY DEF S
  <2> QED
    BY <1>1, <1>3, <2>1, SetInduction
<1> QED
  BY <1>4 DEF Turns

\* removeOutliers returns what it has kept after its last turn.
LEMMA RemovalIsLoop ==
  ASSUME NEW X, NEW s \in Seq(X), NEW cut
  PROVE  \E g : /\ g[0] = <<>>
                /\ \A n \in 1..Len(s) : g[n] = Turn(s, n, g[n - 1], cut)
                /\ RemoveOutliers(s, cut) = g[Len(s)]
<1> DEFINE Def(f) == [i \in 0..Len(s) |->
                        IF i = 0 THEN <<>>
                        ELSE IF Inlier(s, s[i], cut) THEN Append(f[i - 1], s[i]) ELSE f[i - 1]]
           g == CHOOSE f : f = Def(f)
<1>1. g = Def(g)
  <2>1. PICK f : Turns(s, cut, f)
    BY TurnsExist
  <2>2. f = Def(f)
    BY <2>1 DEF Turns, Turn
  <2> QED
    BY <2>2
<1>2. RemoveOutliers(s, cut) = g[Len(s)]
  BY Zenon DEF RemoveOutliers
<1> HIDE DEF g
<1>3. g[0] = <<>>
  BY <1>1
<1>4. ASSUME NEW n \in 1..Len(s)
      PROVE  g[n] = Turn(s, n, g[n - 1], cut)
  <2>1. n \in 0..Len(s) /\ n # 0
    OBVIOUS
  <2>2. g[n] = Def(g)[n]
    BY <1>1
  <2> QED
    BY <2>1, <2>2 DEF Turn
<1> QED
  BY <1>2, <1>3, <1>4

\* removeOutliers returns the inliers it was given, and there is at least one.
LEMMA OutliersRemoved ==
  ASSUME NEW s \in Seq(Int), NEW cut \in SUBSET Ties(s), s # <<>>
  PROVE  /\ RemoveOutliers(s, cut) \in Seq(Int)
         /\ RemoveOutliers(s, cut) # <<>>
         /\ \A k \in DOMAIN RemoveOutliers(s, cut) :
              \E i \in DOMAIN s : RemoveOutliers(s, cut)[k] = s[i]
         /\ \A V : Cardinality(Places(RemoveOutliers(s, cut), V))
                    = Cardinality(Inliers(s, Len(s), V, cut))
<1>1. PICK g : /\ g[0] = <<>>
               /\ \A n \in 1..Len(s) : g[n] = Turn(s, n, g[n - 1], cut)
               /\ RemoveOutliers(s, cut) = g[Len(s)]
  BY RemovalIsLoop
<1> DEFINE S == {n \in Nat : n <= Len(s) => Kept(s, n, g[n], cut)}
<1>2. 0 \in S
  <2>1. g[0] = <<>>
    BY <1>1
  <2>2. Kept(s, 0, <<>>, cut)
    <3>1. \A V : Places(<<>>, V) = {} /\ Inliers(s, 0, V, cut) = {}
      BY DEF Places, Inliers
    <3>2. \A V : Cardinality(Places(<<>>, V)) = Cardinality(Inliers(s, 0, V, cut))
      BY <3>1, Zenon
    <3> QED
      BY <3>2 DEF Kept
  <2> QED
    BY <2>1, <2>2
<1>3. ASSUME NEW n \in Nat, n \in S, n + 1 <= Len(s)
      PROVE  Kept(s, n + 1, g[n + 1], cut)
  <2>1. g[n + 1] = Turn(s, n + 1, g[n], cut)
    BY <1>1, <1>3
  <2>2. Kept(s, n, g[n], cut) /\ n + 1 \in 1..Len(s) /\ (n + 1) - 1 = n
    BY <1>3
  <2> QED
    BY <2>1, <2>2, TurnKeeps
<1>4. \A n \in Nat : n \in S => n + 1 \in S
  BY <1>3
<1>5. Len(s) \in S
  <2> HIDE DEF S
  <2>1. S \in SUBSET Nat
    BY DEF S
  <2> QED
    BY <1>2, <1>4, <2>1, SetInduction
<1>6. Kept(s, Len(s), RemoveOutliers(s, cut), cut)
  BY <1>1, <1>5
<1>7. PICK i \in 1..Len(s) : Inlier(s, s[i], cut)
  <2>1. \E i \in DOMAIN s : Inlier(s, s[i], cut)
    BY SomeInlier, Zenon
  <2> QED
    BY <2>1
<1>8. RemoveOutliers(s, cut) # <<>>
  BY <1>6, <1>7 DEF Kept
<1> QED
  BY <1>6, <1>8 DEF Kept

\* As soon as one price is not a number every price is removed.
LEMMA NotFiniteRemoved ==
  ASSUME NEW X, NEW s \in Seq(X), NEW cut, ~AllFinite(s)
  PROVE  RemoveOutliers(s, cut) = <<>>
<1>1. PICK g : /\ g[0] = <<>>
               /\ \A n \in 1..Len(s) : g[n] = Turn(s, n, g[n - 1], cut)
               /\ RemoveOutliers(s, cut) = g[Len(s)]
  BY RemovalIsLoop
<1> DEFINE S == {n \in Nat : n <= Len(s) => g[n] = <<>>}
<1>2. 0 \in S
  BY <1>1
<1>3. ASSUME NEW n \in Nat, n \in S, n + 1 <= Len(s)
      PROVE  g[n + 1] = <<>>
  <2>1. g[n + 1] = Turn(s, n + 1, g[n], cut) /\ g[n] = <<>>
    BY <1>1, <1>3
  <2> QED
    BY <2>1 DEF Turn, Inlier
<1>4. \A n \in Nat : n \in S => n + 1 \in S
  BY <1>3
<1>5. Len(s) \in S
  <2> HIDE DEF S
  <2>1. S \in SUBSET Nat
    BY DEF S
  <2> QED
    BY <1>2, <1>4, <2>1, SetInduction
<1> QED
  BY <1>1, <1>5

-----------------------------------------------------------------------------
(* Sorted and TwiceMedian. *)

\* What Before means for numbers: a total order of the positions.
LEMMA BeforeIsOrder ==
  ASSUME NEW s \in Seq(Int), NEW i \in DOMAIN s, NEW j \in DOMAIN s
  PROVE  Before(s, i, j) <=> s[i] < s[j] \/ (s[i] = s[j] /\ i <= j)
<1>1. s[i] \in Int /\ s[j] \in Int /\ i \in Nat /\ j \in Nat
  OBVIOUS
<1> QED
  BY <1>1, NotFiniteAssumption DEF Before, Less

\* The positions up to that of i in the sorted order: i itself and those before.
UpTo(s, i) == {j \in DOMAIN s : Before(s, j, i)}

\* Ranks are positions, and fewer come before the earlier of two.
LEMMA Ranks ==
  ASSUME NEW s \in Seq(Int), NEW i \in DOMAIN s
  PROVE  /\ IsFiniteSet(UpTo(s, i)) /\ i \in UpTo(s, i)
         /\ Rank(s, i) = Cardinality(UpTo(s, i)) /\ Rank(s, i) \in 1..Len(s)
         /\ \A j \in DOMAIN s : Before(s, i, j) /\ i # j => Rank(s, i) < Rank(s, j)
<1> DEFINE n == Len(s)
<1>1. DOMAIN s = 1..n /\ n \in Nat /\ \A j \in 1..n : s[j] \in Int
  OBVIOUS
<1> HIDE DEF n
<1>2. IsFiniteSet(1..n) /\ Cardinality(1..n) = n
  BY <1>1, FirstNumbers
<1>3. ASSUME NEW j \in 1..n
      PROVE  /\ IsFiniteSet(UpTo(s, j)) /\ j \in UpTo(s, j) /\ UpTo(s, j) \subseteq 1..n
             /\ Cardinality(UpTo(s, j)) \in 1..n /\ Rank(s, j) = Cardinality(UpTo(s, j))
  <2>1. UpTo(s, j) \in SUBSET (1..n) /\ j \in UpTo(s, j)
    BY <1>1, BeforeIsOrder DEF UpTo
  <2>2. IsFiniteSet(UpTo(s, j)) /\ Cardinality(UpTo(s, j)) <= n
    BY <1>2, <2>1, FS_Subset
  <2>3. Cardinality(UpTo(s, j)) \in Nat /\ Cardinality(UpTo(s, j)) # 0
    BY <2>1, <2>2, FS_CardinalityType, FS_EmptySet
  <2> QED
    BY <1>1, <2>1, <2>2, <2>3 DEF Rank, UpTo
<1>4. ASSUME NEW j \in 1..n, Before(s, i, j), i # j
      PROVE  Rank(s, i) < Rank(s, j)
  <2>1. UpTo(s, i) \in SUBSET UpTo(s, j)
    <3> SUFFICES ASSUME NEW l \in 1..n, Before(s, l, i)
                 PROVE  Before(s, l, j)
      BY <1>1 DEF UpTo
    <3> QED
      BY <1>1, <1>4, BeforeIsOrder
  <2>2. j \in UpTo(s, j) /\ j \notin UpTo(s, i)
    BY <1>1, <1>4, BeforeIsOrder DEF UpTo
  <2>3. /\ Cardinality(UpTo(s, i)) <= Cardinality(UpTo(s, j))
        /\ Cardinality(UpTo(s, i)) # Cardinality(UpTo(s, j))
    BY <1>1, <1>3, <2>1, <2>2, FS_Subset
  <2> QED
    BY <1>1, <1>3, <2>3
<1> QED
  BY <1>1, <1>3, <1>4 DEF n

\* Every price has a place of its own, so that each place is some price's.
LEMMA SortedHasPrices ==
  ASSUME NEW s \in Seq(Int), NEW k \in DOMAIN s
  PROVE  \E i \in DOMAIN s : Sorted(s)[k] = s[i] /\ Rank(s, i) = k
<1> DEFINE n == Len(s)
           rank == [i \in 1..n |-> Rank(s, i)]
<1>1. DOMAIN s = 1..n /\ n \in Nat /\ \A i \in 1..n : s[i] \in Int
  OBVIOUS
<1> HIDE DEF n
<1>2. IsFiniteSet(1..n) /\ Cardinality(1..n) = n
  BY <1>1, FirstNumbers
<1>3. \A i, j \in 1..n : Before(s, i, j) \/ Before(s, j, i)
  BY <1>1, BeforeIsOrder
<1>4. rank \in Injection(1..n, 1..n)
  <2>1. rank \in [1..n -> 1..n]
    BY <1>1, Ranks DEF n
  <2>2. ASSUME NEW i \in 1..n, NEW j \in 1..n, rank[i] = rank[j]
        PROVE  i = j
    <3>1. Rank(s, i) = Rank(s, j) /\ Rank(s, i) \in 1..n
      BY <2>1, <2>2
    <3>2. /\ Before(s, i, j) /\ i # j => Rank(s, i) < Rank(s, j)
          /\ Before(s, j, i) /\ i # j => Rank(s, j) < Rank(s, i)
      BY <1>1, Ranks
    <3> QED
      BY <1>3, <3>1, <3>2
  <2> QED
    BY <2>1, <2>2 DEF Injection, IsInjective
<1>5. rank \in Surjection(1..n, 1..n)
  BY <1>2, <1>4, FS_Injection
<1>6. PICK i \in 1..n : Rank(s, i) = k
  BY <1>1, <1>5 DEF Surjection
<1> QED
  BY <1>1, <1>6 DEF Sorted

\* As many prices are lower, and as many are higher, as a place leaves room for.
LEMMA PlaceDivides ==
  ASSUME NEW s \in Seq(Int), NEW i \in DOMAIN s
  PROVE  /\ \A L \in SUBSET DOMAIN s :
              (\A j \in L : s[j] < s[i]) => Cardinality(L) < Rank(s, i)
         /\ \A H \in SUBSET DOMAIN s :
              (\A j \in H : s[i] < s[j]) => Cardinality(H) <= Len(s) - Rank(s, i)
<1> DEFINE n == Len(s)
<1>1. DOMAIN s = 1..n /\ n \in Nat /\ \A j \in 1..n : s[j] \in Int
  OBVIOUS
<1> HIDE DEF n
<1>2. IsFiniteSet(1..n) /\ Cardinality(1..n) = n
  BY <1>1, FirstNumbers
<1>3. /\ IsFiniteSet(UpTo(s, i)) /\ i \in UpTo(s, i) /\ UpTo(s, i) \subseteq 1..n
      /\ Rank(s, i) = Cardinality(UpTo(s, i)) /\ Rank(s, i) \in 1..n
  BY <1>1, Ranks DEF UpTo, n
<1>4. ASSUME NEW L \in SUBSET DOMAIN s, \A j \in L : s[j] < s[i]
      PROVE  Cardinality(L) < Rank(s, i)
  <2>1. L \subseteq UpTo(s, i) /\ i \notin L
    BY <1>1, <1>4, BeforeIsOrder DEF UpTo
  <2>2. IsFiniteSet(L) /\ Cardinality(L) <= Rank(s, i) /\ Cardinality(L) # Rank(s, i)
    BY <1>3, <2>1, FS_Subset
  <2> QED
    BY <1>1, <1>3, <2>2, FS_CardinalityType
<1>5. ASSUME NEW H \in SUBSET DOMAIN s, \A j \in H : s[i] < s[j]
      PROVE  Cardinality(H) <= n - Rank(s, i)
  <2> DEFINE R == (1..n) \ UpTo(s, i)
  <2>1. H \in SUBSET R
    BY <1>1, <1>5, BeforeIsOrder DEF UpTo
  <2>2. (1..n) \cap UpTo(s, i) = UpTo(s, i)
    BY <1>3
  <2>3. IsFiniteSet(R) /\ Cardinality(R) = n - Rank(s, i)
    <3>1. /\ IsFiniteSet(R)
          /\ Cardinality(R) = Cardinality(1..n) - Cardinality((1..n) \cap UpTo(s, i))
      BY <1>2, FS_Difference, Zenon
    <3> QED
      BY <1>2, <1>3, <2>2, <3>1, Zenon
  <2> HIDE DEF R
  <2>4. Cardinality(H) <= Cardinality(R)
    BY <2>1, <2>3, FS_Subset
  <2> QED
    BY <2>3, <2>4
<1> QED
  BY <1>4, <1>5 DEF n

\* An earlier place is that of a price no higher.
LEMMA PlacesAscend ==
  ASSUME NEW s \in Seq(Int), NEW i \in DOMAIN s, NEW j \in DOMAIN s, Rank(s, i) < Rank(s, j)
  PROVE  s[i] <= s[j]
<1>1. s[i] \in Int /\ s[j] \in Int /\ i \in Nat /\ j \in Nat
  OBVIOUS
<1>2. Rank(s, i) \in Int /\ Rank(s, j) \in Int
  BY Ranks
<1>3. ~(Before(s, j, i) /\ j # i)
  BY <1>2, Ranks
<1> QED
  BY <1>1, <1>3, BeforeIsOrder

\* A price that is half of t lies between two of the prices of s.
Between(s, t) ==
    /\ t \in Int
    /\ \E i \in DOMAIN s : 2 * s[i] <= t
    /\ \E i \in DOMAIN s : 2 * s[i] >= t

\* The mean of two of the prices lies between them.
LEMMA MeanIsBetween ==
  ASSUME NEW s \in Seq(Int), NEW i \in DOMAIN s, NEW j \in DOMAIN s
  PROVE  Between(s, Plus(s[i], s[j]))
<1>1. s[i] \in Int /\ s[j] \in Int
  OBVIOUS
<1>2. Plus(s[i], s[j]) = s[i] + s[j]
  BY <1>1, NotFiniteAssumption DEF Plus
<1>3. CASE s[i] <= s[j]
  BY <1>1, <1>2, <1>3 DEF Between
<1>4. CASE s[j] <= s[i]
  BY <1>1, <1>2, <1>4 DEF Between
<1> QED
  BY <1>1, <1>3, <1>4

\* The median is one of the prices or the mean of two of them.
LEMMA MedianIsBetween ==
  ASSUME NEW s \in Seq(Int), s # <<>>
  PROVE  Between(s, TwiceMedian(s))
<1> DEFINE n == Len(s)
           mid == n \div 2
<1>1. n \in Nat \ {0} /\ DOMAIN s = 1..n
  OBVIOUS
<1> HIDE DEF n
<1>2. CASE n % 2 = 1
  <2>1. mid + 1 \in 1..n
    BY <1>1, <1>2
  <2>2. PICK i \in DOMAIN s : Sorted(s)[mid + 1] = s[i]
    BY <1>1, <2>1, SortedHasPrices
  <2>3. TwiceMedian(s) = Plus(s[i], s[i])
    BY <1>2, <2>2 DEF TwiceMedian, n
  <2> QED
    BY <2>3, MeanIsBetween
<1>3. CASE n % 2 # 1
  <2>1. mid \in 1..n /\ mid + 1 \in 1..n
    BY <1>1, <1>3
  <2>2. PICK i \in DOMAIN s : Sorted(s)[mid] = s[i]
    BY <1>1, <2>1, SortedHasPrices
  <2>3. PICK j \in DOMAIN s : Sorted(s)[mid + 1] = s[j]
    BY <1>1, <2>1, SortedHasPrices
  <2>4. TwiceMedian(s) = Plus(s[i], s[j])
    BY <1>3, <2>2, <2>3 DEF TwiceMedian, n
  <2> QED
    BY <2>4, MeanIsBetween
<1> QED
  BY <1>2, <1>3

\* No more than half of the prices are below the median, nor above it.
LEMMA MedianHalves ==
  ASSUME NEW s \in Seq(Int), s # <<>>,
         NEW L \in SUBSET DOMAIN s, \A j \in L : 2 * s[j] < TwiceMedian(s),
         NEW H \in SUBSET DOMAIN s, \A j \in H : TwiceMedian(s) < 2 * s[j]
  PROVE  2 * Cardinality(L) <= Len(s) /\ 2 * Cardinality(H) <= Len(s)
<1> DEFINE n == Len(s)
           mid == n \div 2
<1>1. n \in Nat \ {0} /\ DOMAIN s = 1..n /\ \A j \in DOMAIN s : s[j] \in Int
  OBVIOUS
<1>2. Cardinality(L) \in Nat /\ Cardinality(H) \in Nat
  <2>1. IsFiniteSet(DOMAIN s)
    BY <1>1, FS_Interval
  <2> QED
    BY <2>1, FS_Subset, FS_CardinalityType
<1> HIDE DEF n
<1>3. CASE n % 2 = 1
  <2>1. mid + 1 \in 1..n /\ n = 2 * mid + 1
    BY <1>1, <1>3
  <2>2. PICK i \in DOMAIN s : Sorted(s)[mid + 1] = s[i] /\ Rank(s, i) = mid + 1
    BY <1>1, <2>1, SortedHasPrices
  <2>3. TwiceMedian(s) = 2 * s[i]
    <3>1. TwiceMedian(s) = Plus(s[i], s[i])
      BY <1>3, <2>2 DEF TwiceMedian, n
    <3> QED
      BY <1>1, <3>1, NotFiniteAssumption DEF Plus
  <2>4. (\A j \in L : s[j] < s[i]) /\ (\A j \in H : s[i] < s[j])
    BY <1>1, <2>3
  <2>5. Cardinality(L) < mid + 1 /\ Cardinality(H) <= n - (mid + 1)
    BY <2>2, <2>4, PlaceDivides DEF n
  <2>6. 2 * Cardinality(L) <= n /\ 2 * Cardinality(H) <= n
    <3>1. n \in Nat /\ mid \in Nat
      BY <1>1, <2>1
    <3> HIDE DEF mid
    <3>2. 2 * Cardinality(L) <= n
      BY <1>2, <2>1, <2>5, <3>1
    <3>3. 2 * Cardinality(H) <= n
      BY <1>2, <2>1, <2>5, <3>1
    <3> QED
      BY <3>2, <3>3
  <2> QED
    BY <2>6 DEF n
<1>4. CASE n % 2 # 1
  <2>1. mid \in 1..n /\ mid + 1 \in 1..n /\ n = 2 * mid
    BY <1>1, <1>4
  <2>2. PICK a \in DOMAIN s : Sorted(s)[mid] = s[a] /\ Rank(s, a) = mid
    BY <1>1, <2>1, SortedHasPrices
  <2>3. PICK b \in DOMAIN s : Sorted(s)[mid + 1] = s[b] /\ Rank(s, b) = mid + 1
    BY <1>1, <2>1, SortedHasPrices
  <2>4. TwiceMedian(s) = s[a] + s[b]
    <3>1. TwiceMedian(s) = Plus(s[a], s[b])
      BY <1>4, <2>2, <2>3 DEF TwiceMedian, n
    <3> QED
      BY <1>1, <3>1, NotFiniteAssumption DEF Plus
  <2>5. s[a] <= s[b]
    BY <2>1, <2>2, <2>3, PlacesAscend
  <2>6. (\A j \in L : s[j] < s[b]) /\ (\A j \in H : s[a] < s[j])
    BY <1>1, <2>4, <2>5
  <2>7. Cardinality(L) < mid + 1
    BY <2>3, <2>6, PlaceDivides
  <2>8. Cardinality(H) <= n - mid
    BY <2>2, <2>6, PlaceDivides DEF n
  <2>9. 2 * Cardinality(L) <= n /\ 2 * Cardinality(H) <= n
    <3> HIDE DEF mid
    <3> QED
      BY <1>1, <1>2, <2>1, <2>7, <2>8
  <2> QED
    BY <2>9 DEF n
<1> QED
  BY <1>3, <1>4

\* As soon as one provider answers there is a price, and it lies between the
\* lowest and the highest answer: whatever the prices and however many, the
\* branch for an empty result of removeOutliers is never taken.
THEOREM PriceIfAnswered ==
  ASSUME NEW s \in Seq(Int), NEW cut \in SUBSET Ties(s), s # <<>>
  PROVE  \E t : ComputeConsolidatedPrice(s, cut) = Price(t) /\ Between(s, t)
<1> USE DEF ComputeConsolidatedPrice
<1>1. Len(s) \in Nat \ {0} /\ DOMAIN s = 1..Len(s)
  OBVIOUS
<1>2. CASE Len(s) = 1
  <2>1. ComputeConsolidatedPrice(s, cut) = Price(Plus(s[1], s[1]))
    BY <1>2
  <2> QED
    BY <1>1, <2>1, MeanIsBetween
<1>3. CASE Len(s) = 2
  <2>1. ComputeConsolidatedPrice(s, cut) = Price(Plus(s[1], s[2]))
    BY <1>3
  <2> QED
    BY <1>1, <1>3, <2>1, MeanIsBetween
<1>4. CASE Len(s) \notin {0, 1, 2}
  <2> DEFINE cleaned == RemoveOutliers(s, cut)
  <2>1. /\ cleaned \in Seq(Int) /\ cleaned # <<>>
        /\ \A k \in DOMAIN cleaned : \E i \in DOMAIN s : cleaned[k] = s[i]
    BY OutliersRemoved
  <2>2. ComputeConsolidatedPrice(s, cut) = Price(TwiceMedian(cleaned))
    BY <1>4, <2>1
  <2>3. Between(cleaned, TwiceMedian(cleaned))
    BY <2>1, MedianIsBetween
  <2> HIDE DEF cleaned
  <2>4. Between(s, TwiceMedian(cleaned))
    BY <2>1, <2>3 DEF Between
  <2> QED
    BY <2>2, <2>4
<1> QED
  BY <1>1, <1>2, <1>3, <1>4

\* Three prices or more of which one is not a number give no result
\* (aggregateprovider.go:105-112).
LEMMA NotFiniteGivesNone ==
  ASSUME NEW s \in Seq(Int \union {NotFinite}), NEW cut, Len(s) >= 3, ~AllFinite(s)
  PROVE  ComputeConsolidatedPrice(s, cut) = Missing
<1>1. \A l \in Nat : l >= 3 => l # 0 /\ l # 1 /\ l # 2
  OBVIOUS
<1>2. RemoveOutliers(s, cut) = <<>>
  BY NotFiniteRemoved
<1> QED
  BY <1>1, <1>2, LenProperties, Zenon DEF ComputeConsolidatedPrice

\* Of three prices or more, at most half of those that are kept are below the result
\* and at most half above it.
LEMMA MedianOfKept ==
  ASSUME NEW s \in Seq(Int), NEW cut \in SUBSET Ties(s), Len(s) >= 3,
         NEW t, ComputeConsolidatedPrice(s, cut) = Price(t)
  PROVE  /\ 2 * Cardinality(Inliers(s, Len(s), {x \in Int : 2 * x < t}, cut))
              <= Cardinality(Inliers(s, Len(s), Int, cut))
         /\ 2 * Cardinality(Inliers(s, Len(s), {x \in Int : 2 * x > t}, cut))
              <= Cardinality(Inliers(s, Len(s), Int, cut))
<1> DEFINE kept == RemoveOutliers(s, cut)
           low == {x \in Int : 2 * x < t}
           high == {x \in Int : 2 * x > t}
<1>1. /\ kept \in Seq(Int) /\ kept # <<>>
      /\ \A V : Cardinality(Places(kept, V)) = Cardinality(Inliers(s, Len(s), V, cut))
  <2>1. s # <<>>
    OBVIOUS
  <2> QED
    BY <2>1, OutliersRemoved
<1>2. t = TwiceMedian(kept)
  <2>1. \A l \in Nat : l >= 3 => l # 0 /\ l # 1 /\ l # 2
    OBVIOUS
  <2>2. ComputeConsolidatedPrice(s, cut) = Price(TwiceMedian(kept))
    BY <1>1, <2>1, LenProperties, Zenon DEF ComputeConsolidatedPrice
  <2> QED
    BY <2>2 DEF Price
<1> HIDE DEF kept
<1>3. Cardinality(Places(kept, Int)) = Len(kept)
  <2>1. Places(kept, Int) = 1..Len(kept) /\ Len(kept) \in Nat
    BY <1>1 DEF Places
  <2> QED
    BY <2>1, FirstNumbers, Zenon
<1>4. /\ 2 * Cardinality(Places(kept, low)) <= Len(kept)
      /\ 2 * Cardinality(Places(kept, high)) <= Len(kept)
  <2>1. /\ Places(kept, low) \in SUBSET DOMAIN kept
        /\ \A j \in Places(kept, low) : 2 * kept[j] < TwiceMedian(kept)
    BY <1>2 DEF Places
  <2>2. /\ Places(kept, high) \in SUBSET DOMAIN kept
        /\ \A j \in Places(kept, high) : TwiceMedian(kept) < 2 * kept[j]
    <3>1. TwiceMedian(kept) \in Int
      BY <1>1, MedianIsBetween DEF Between
    <3> QED
      BY <1>1, <1>2, <3>1 DEF Places
  <2> HIDE DEF low, high
  <2> QED
    BY <1>1, <2>1, <2>2, MedianHalves
<1> HIDE DEF low, high
<1>5. /\ 2 * Cardinality(Inliers(s, Len(s), low, cut)) <= Cardinality(Inliers(s, Len(s), Int, cut))
      /\ 2 * Cardinality(Inliers(s, Len(s), high, cut)) <= Cardinality(Inliers(s, Len(s), Int, cut))
  BY <1>1, <1>3, <1>4, Zenon
<1> QED
  BY <1>5 DEF low, high

\* Of three prices or more, however rounding decides the ties, at most half as many
\* prices are inliers for certain and below the result, or above it, as are inliers
\* for certain or possibly. Without a tie the result is the median of the inliers.
THEOREM ResultIsMedian ==
  ASSUME NEW s \in Seq(Int), Len(s) >= 3, NEW t, Price(t) \in Outcomes(s)
  PROVE  /\ 2 * Cardinality(Inliers(s, Len(s), {x \in Int : 2 * x < t}, Ties(s)))
              <= Cardinality(Inliers(s, Len(s), Int, {}))
         /\ 2 * Cardinality(Inliers(s, Len(s), {x \in Int : 2 * x > t}, Ties(s)))
              <= Cardinality(Inliers(s, Len(s), Int, {}))
<1>1. PICK cut \in SUBSET Ties(s) : ComputeConsolidatedPrice(s, cut) = Price(t)
  BY DEF Outcomes
<1> DEFINE n == Len(s)
           low == {x \in Int : 2 * x < t}
           high == {x \in Int : 2 * x > t}
<1>2. /\ 2 * Cardinality(Inliers(s, n, low, cut)) <= Cardinality(Inliers(s, n, Int, cut))
      /\ 2 * Cardinality(Inliers(s, n, high, cut)) <= Cardinality(Inliers(s, n, Int, cut))
  BY <1>1, MedianOfKept
<1>3. ASSUME NEW V, NEW C, NEW D, D \subseteq C
      PROVE  /\ Cardinality(Inliers(s, n, V, C)) \in Nat
             /\ Cardinality(Inliers(s, n, V, C)) <= Cardinality(Inliers(s, n, V, D))
  <2>1. /\ Inliers(s, n, V, C) \in SUBSET Inliers(s, n, V, D)
        /\ Inliers(s, n, V, D) \in SUBSET (1..n)
    BY <1>3 DEF Inliers, Inlier
  <2>2. IsFiniteSet(1..n)
    BY FS_Interval
  <2> QED
    BY <2>1, <2>2, FS_Subset, FS_CardinalityType
<1> HIDE DEF n, low, high
<1>4. {} \subseteq cut /\ cut \subseteq Ties(s) /\ {} \subseteq {}
  BY <1>1
<1>5. ASSUME NEW V, 2 * Cardinality(Inliers(s, n, V, cut)) <= Cardinality(Inliers(s, n, Int, cut))
      PROVE  2 * Cardinality(Inliers(s, n, V, Ties(s))) <= Cardinality(Inliers(s, n, Int, {}))
  <2> DEFINE c(W, C) == Cardinality(Inliers(s, n, W, C))
  <2>1. /\ c(V, Ties(s)) \in Nat /\ c(V, cut) \in Nat /\ c(Int, cut) \in Nat
        /\ c(Int, {}) \in Nat
        /\ c(V, Ties(s)) <= c(V, cut) /\ c(Int, cut) <= c(Int, {})
    BY <1>3, <1>4
  <2> QED
    BY <1>5, <2>1
<1> QED
  BY <1>2, <1>5 DEF n, low, high

\* A price that most providers agree on is the result, whatever the others say and
\* however many they are: it is never an outlier, and it holds the middle of what
\* removeOutliers leaves (aggregateprovider.go:105-135).
THEOREM MajorityPrevails ==
  ASSUME NEW s \in Seq(Int), NEW cut \in SUBSET Ties(s), NEW x \in Int,
         2 * Cardinality(SameAs(s, x, Len(s))) > Len(s)
  PROVE  ComputeConsolidatedPrice(s, cut) = Price(2 * x)
<1> DEFINE n == Len(s)
           m == Cardinality(SameAs(s, x, n))
<1>1. n \in Nat /\ DOMAIN s = 1..n /\ m \in Nat /\ 2 * m > n
  BY SameAsGrows
<1> HIDE DEF n
<1>2. SameAs(s, x, n) \in SUBSET (1..n) /\ IsFiniteSet(1..n) /\ Cardinality(1..n) = n
  BY <1>1, FirstNumbers DEF SameAs
<1>3. m <= n /\ (m = n => SameAs(s, x, n) = 1..n)
  BY <1>2, FS_Subset
<1>4. n # 0
  BY <1>1, <1>3
<1>5. CASE n \in {1, 2}
  <2>1. \A i \in 1..n : s[i] = x
    <3>1. m = n
      BY <1>1, <1>3, <1>5
    <3> QED
      BY <1>3, <3>1 DEF SameAs
  <2>2. Plus(x, x) = 2 * x
    BY NotFiniteAssumption DEF Plus
  <2>3. s[1] = x /\ (n = 2 => s[2] = x)
    BY <1>5, <2>1
  <2> QED
    BY <1>5, <2>2, <2>3 DEF ComputeConsolidatedPrice, n
<1>6. CASE n >= 3
  <2>1. PICK t : ComputeConsolidatedPrice(s, cut) = Price(t) /\ Between(s, t)
    <3>1. s # <<>>
      BY <1>4 DEF n
    <3> QED
      BY <3>1, PriceIfAnswered
  <2> DEFINE all == Inliers(s, n, Int, cut)
             low == Inliers(s, n, {y \in Int : 2 * y < t}, cut)
             high == Inliers(s, n, {y \in Int : 2 * y > t}, cut)
  <2>2. 2 * Cardinality(low) <= Cardinality(all) /\ 2 * Cardinality(high) <= Cardinality(all)
    BY <1>6, <2>1, MedianOfKept DEF n
  <2>3. t \in Int
    BY <2>1 DEF Between
  <2>4. \A i \in SameAs(s, x, n) : i \in 1..n /\ s[i] = x /\ Inlier(s, s[i], cut)
    BY <1>1, MajorityIsInlier DEF SameAs, n
  <2>5. IsFiniteSet(low) /\ IsFiniteSet(high) /\ Cardinality(all) <= n
    <3>1. low \in SUBSET (1..n) /\ high \in SUBSET (1..n) /\ all \in SUBSET (1..n)
      BY DEF Inliers
    <3> HIDE DEF low, high, all
    <3> QED
      BY <1>2, <3>1, FS_Subset
  <2>6. /\ Cardinality(all) \in Nat /\ Cardinality(low) \in Nat /\ Cardinality(high) \in Nat
    <3>1. all \in SUBSET (1..n)
      BY DEF Inliers
    <3> HIDE DEF low, high, all
    <3> QED
      BY <1>2, <2>5, <3>1, FS_Subset, FS_CardinalityType
  <2>7. ~(2 * x < t)
    <3> SUFFICES ASSUME 2 * x < t PROVE FALSE
      OBVIOUS
    <3>1. SameAs(s, x, n) \in SUBSET low
      BY <2>4 DEF Inliers
    <3> HIDE DEF low, high, all
    <3>2. m <= Cardinality(low)
      BY <2>5, <3>1, FS_Subset
    <3> QED
      BY <1>1, <2>2, <2>5, <2>6, <3>2
  <2>8. ~(2 * x > t)
    <3> SUFFICES ASSUME 2 * x > t PROVE FALSE
      OBVIOUS
    <3>1. SameAs(s, x, n) \in SUBSET high
      BY <2>4 DEF Inliers
    <3> HIDE DEF low, high, all
    <3>2. m <= Cardinality(high)
      BY <2>5, <3>1, FS_Subset
    <3> QED
      BY <1>1, <2>2, <2>5, <2>6, <3>2
  <2>9. t = 2 * x
    BY <2>3, <2>7, <2>8
  <2> QED
    BY <2>1, <2>9
<1> QED
  BY <1>1, <1>4, <1>5, <1>6

-----------------------------------------------------------------------------
(* The order of the prices. *)

\* Of two sequences with the same prices, each as often, no place when sorted has
\* a lower price in the first.
LEMMA NoneLower ==
  ASSUME NEW t \in Seq(Int), NEW u \in Seq(Int), NEW k \in DOMAIN t, k \in DOMAIN u,
         \A V : Cardinality(Places(t, V)) = Cardinality(Places(u, V))
  PROVE  /\ Sorted(t)[k] \in Int /\ Sorted(u)[k] \in Int
         /\ ~(Sorted(t)[k] < Sorted(u)[k])
<1> DEFINE n == Len(t)
<1>1. /\ n \in Nat /\ DOMAIN t = 1..n /\ \A l \in DOMAIN t : t[l] \in Int
      /\ \A l \in DOMAIN u : u[l] \in Int
  OBVIOUS
<1>2. PICK i \in DOMAIN t : Sorted(t)[k] = t[i] /\ Rank(t, i) = k
  BY SortedHasPrices
<1>3. PICK j \in DOMAIN u : Sorted(u)[k] = u[j] /\ Rank(u, j) = k
  BY SortedHasPrices
<1> DEFINE V == {x \in Int : x <= t[i]}
           higher == {l \in DOMAIN t : t[i] < t[l]}
<1>4. k \in Nat
  BY <1>1
<1>5. Cardinality(higher) \in Nat /\ Cardinality(higher) <= n - k
  <2>1. higher \in SUBSET DOMAIN t /\ \A l \in higher : t[i] < t[l]
    OBVIOUS
  <2>2. IsFiniteSet(higher)
    BY <1>1, <2>1, FirstNumbers, FS_Subset
  <2> HIDE DEF higher
  <2> QED
    BY <1>2, <2>1, <2>2, PlaceDivides, FS_CardinalityType
<1>6. Cardinality(Places(t, V)) = n - Cardinality(higher)
  <2>1. Places(t, V) = (1..n) \ higher /\ (1..n) \cap higher = higher
    BY <1>1 DEF Places
  <2>2. IsFiniteSet(1..n) /\ Cardinality(1..n) = n
    BY <1>1, FirstNumbers
  <2> HIDE DEF n, higher, V
  <2>3. Cardinality((1..n) \ higher) = Cardinality(1..n) - Cardinality((1..n) \cap higher)
    BY <2>2, FS_Difference, Zenon
  <2> QED
    BY <2>1, <2>2, <2>3, Zenon
<1>7. ASSUME t[i] < u[j]
      PROVE  Cardinality(Places(u, V)) < k
  <2>1. Places(u, V) \in SUBSET DOMAIN u
    BY DEF Places
  <2>2. \A l \in Places(u, V) : u[l] < u[j]
    BY <1>1, <1>7 DEF Places
  <2> HIDE DEF V
  <2> QED
    BY <1>3, <2>1, <2>2, PlaceDivides
<1>8. Cardinality(Places(t, V)) = Cardinality(Places(u, V))
  OBVIOUS
<1> HIDE DEF n, V, higher
<1>9. ~(t[i] < u[j])
  BY <1>1, <1>4, <1>5, <1>6, <1>7, <1>8
<1> QED
  BY <1>1, <1>2, <1>3, <1>9

\* Their medians are the same.
LEMMA MedianOfCounts ==
  ASSUME NEW t \in Seq(Int), NEW u \in Seq(Int), t # <<>>,
         \A V : Cardinality(Places(t, V)) = Cardinality(Places(u, V))
  PROVE  TwiceMedian(t) = TwiceMedian(u)
<1> DEFINE n == Len(t)
           mid == n \div 2
<1>1. n \in Nat \ {0} /\ Len(u) \in Nat /\ DOMAIN t = 1..n /\ DOMAIN u = 1..Len(u)
  OBVIOUS
<1>2. Len(u) = n
  <2>1. Places(t, Int) = 1..n /\ Places(u, Int) = 1..Len(u)
    BY DEF Places
  <2>2. Cardinality(1..n) = Cardinality(1..Len(u))
    BY <2>1, Zenon
  <2>3. Cardinality(1..n) = n /\ Cardinality(1..Len(u)) = Len(u)
    BY <1>1, FirstNumbers
  <2> QED
    BY <2>2, <2>3, Zenon
<1>3. ASSUME NEW k \in 1..n
      PROVE  Sorted(t)[k] = Sorted(u)[k]
  <2>1. k \in DOMAIN t /\ k \in DOMAIN u
    BY <1>1, <1>2
  <2>2. /\ Sorted(t)[k] \in Int /\ Sorted(u)[k] \in Int
        /\ ~(Sorted(t)[k] < Sorted(u)[k])
    BY <2>1, NoneLower
  <2>3. ~(Sorted(u)[k] < Sorted(t)[k])
    <3>1. \A V : Cardinality(Places(u, V)) = Cardinality(Places(t, V))
      OBVIOUS
    <3> QED
      BY <2>1, <3>1, NoneLower
  <2> QED
    BY <2>2, <2>3
<1> HIDE DEF n
<1>4. CASE n % 2 = 1
  <2>1. mid + 1 \in 1..n
    BY <1>1, <1>4
  <2> HIDE DEF mid
  <2> QED
    BY <1>2, <1>3, <1>4, <2>1, Zenon DEF TwiceMedian, n, mid
<1>5. CASE n % 2 # 1
  <2>1. mid \in 1..n /\ mid + 1 \in 1..n
    BY <1>1, <1>5
  <2> HIDE DEF mid
  <2> QED
    BY <1>2, <1>3, <1>5, <2>1, Zenon DEF TwiceMedian, n, mid
<1> QED
  BY <1>4, <1>5

\* s with two neighbours exchanged, and where position j comes from.
Exchanged(s, i) == [s EXCEPT ![i] = s[i + 1], ![i + 1] = s[i]]
Other(i, j)     == IF j = i THEN i + 1 ELSE IF j = i + 1 THEN i ELSE j

LEMMA ExchangedIs ==
  ASSUME NEW X, NEW s \in Seq(X), NEW i \in 1..(Len(s) - 1)
  PROVE  /\ Exchanged(s, i) \in Seq(X) /\ Len(Exchanged(s, i)) = Len(s)
         /\ \A j \in 1..Len(s) : /\ Other(i, j) \in 1..Len(s) /\ Other(i, Other(i, j)) = j
                                 /\ Exchanged(s, i)[j] = s[Other(i, j)]
<1> DEFINE n == Len(s)
           e == Exchanged(s, i)
<1>1. n \in Nat /\ DOMAIN s = 1..n /\ i \in 1..n /\ i + 1 \in 1..n /\ i \in Nat
  OBVIOUS
<1>2. \A j \in 1..n : s[j] \in X
  OBVIOUS
<1>3. DOMAIN e = 1..n /\ e = [j \in 1..n |-> e[j]]
  BY <1>1 DEF Exchanged
<1>4. \A j \in 1..n : Other(i, j) \in 1..n /\ Other(i, Other(i, j)) = j
  BY <1>1 DEF Other
<1>5. \A j \in 1..n : e[j] = s[Other(i, j)]
  <2> HIDE DEF n
  <2> QED
    BY <1>1 DEF Exchanged, Other
<1> HIDE DEF n, e
<1>6. e \in [1..n -> X]
  BY <1>2, <1>3, <1>4, <1>5
<1>7. e \in Seq(X) /\ Len(e) = n
  BY <1>1, <1>6
<1> QED
  BY <1>4, <1>5, <1>7 DEF n, e

\* The sum is the same.
LEMMA TotalExchanged ==
  ASSUME NEW s \in Seq(Int), NEW i \in 1..(Len(s) - 1)
  PROVE  Total(Exchanged(s, i)) = Total(s)
<1> DEFINE n == Len(s)
           e == Exchanged(s, i)
<1>1. /\ n \in Nat /\ i \in 1..n /\ i + 1 \in 1..n /\ i \in Nat /\ i # n
      /\ \A j \in 1..n : s[j] \in Int
  OBVIOUS
<1>2. /\ e \in Seq(Int) /\ Len(e) = n
      /\ \A j \in 1..n : e[j] = s[Other(i, j)]
  BY ExchangedIs
<1>3. PICK sum : Sums(s, sum)
  BY SumsExist
<1> DEFINE new == [k \in 0..n |-> IF k = i THEN sum[i - 1] + s[i + 1] ELSE sum[k]]
<1>4. Total(s) = sum[n]
  BY <1>3, TotalIsSum
<1>5. sum \in [0..n -> Int] /\ sum[0] = 0 /\ \A k \in 1..n : sum[k] = sum[k - 1] + s[k]
  BY <1>3 DEF Sums
<1> HIDE DEF n, e
<1>6. Sums(e, new)
  <2>1. i - 1 \in 0..n /\ sum[i - 1] + s[i + 1] \in Int
    <3>1. i - 1 \in 0..n
      BY <1>1
    <3>2. sum[i - 1] \in Int /\ s[i + 1] \in Int
      BY <1>1, <1>5, <3>1, Zenon
    <3> QED
      BY <3>1, <3>2
  <2>2. new \in [0..n -> Int]
    BY <1>5, <2>1
  <2>3. new[0] = 0
    BY <1>1, <1>5
  <2>4. ASSUME NEW k \in 1..n PROVE new[k] = new[k - 1] + e[k]
    <3>1. k \in 0..n /\ k - 1 \in 0..n /\ k \in Int
      BY <1>1
    <3>2. CASE k = i
      <4>1. k - 1 # i /\ e[k] = s[i + 1]
        BY <1>1, <1>2, <3>2 DEF Other
      <4> QED
        BY <3>1, <3>2, <4>1
    <3>3. CASE k = i + 1
      <4>1. k - 1 = i /\ k # i /\ e[k] = s[i]
        BY <1>1, <1>2, <3>3 DEF Other
      <4>2. sum[i + 1] = sum[i] + s[i + 1] /\ sum[i] = sum[i - 1] + s[i]
        <5>1. ASSUME NEW l \in 1..n, NEW h \in 0..n, l = h + 1
              PROVE  sum[l] = sum[h] + s[l]
          <6>1. h = l - 1
            BY <1>1, <5>1
          <6> QED
            BY <1>5, <6>1, Zenon
        <5>2. i \in 0..n /\ i = (i - 1) + 1
          BY <1>1
        <5> QED
          BY <1>1, <2>1, <5>1, <5>2, Zenon
      <4>3. sum[i - 1] \in Int /\ s[i] \in Int /\ s[i + 1] \in Int
        BY <1>1, <1>5, <2>1
      <4>4. new[k] = sum[i + 1] /\ new[k - 1] = sum[i - 1] + s[i + 1]
        BY <3>1, <3>3, <4>1
      <4> QED
        BY <4>1, <4>2, <4>3, <4>4
    <3>4. CASE k # i /\ k # i + 1
      <4>1. k - 1 # i /\ e[k] = s[k]
        BY <1>1, <1>2, <3>1, <3>4 DEF Other
      <4>2. new[k] = sum[k] /\ new[k - 1] = sum[k - 1]
        BY <3>1, <3>4, <4>1
      <4> QED
        BY <1>5, <4>1, <4>2
    <3> QED
      BY <3>2, <3>3, <3>4
  <2> HIDE DEF new
  <2> QED
    BY <1>2, <2>2, <2>3, <2>4 DEF Sums
<1>7. Total(e) = new[n] /\ new[n] = sum[n]
  <2>1. new[n] = sum[n]
    BY <1>1
  <2> HIDE DEF new
  <2> QED
    BY <1>2, <1>6, <2>1, TotalIsSum
<1> QED
  BY <1>4, <1>7 DEF e

\* So are the inliers.
LEMMA InlierExchanged ==
  ASSUME NEW s \in Seq(Int), NEW i \in 1..(Len(s) - 1)
  PROVE  /\ \A x, cut : Inlier(Exchanged(s, i), x, cut) <=> Inlier(s, x, cut)
         /\ Ties(Exchanged(s, i)) = Ties(s)
<1> DEFINE n == Len(s)
           e == Exchanged(s, i)
<1>1. /\ e \in Seq(Int) /\ Len(e) = n /\ DOMAIN e = 1..n /\ DOMAIN s = 1..n
      /\ \A j \in 1..n : Other(i, j) \in 1..n /\ e[j] = s[Other(i, j)]
  BY ExchangedIs
<1>2. AllFinite(s) /\ AllFinite(e)
  <2>1. \A j \in 1..n : s[j] \in Int /\ e[j] \in Int
    BY <1>1
  <2> HIDE DEF n, e
  <2> QED
    BY <1>1, <2>1, NotFiniteAssumption, Zenon DEF AllFinite
<1>3. \A y : Deviation(e, y) = Deviation(s, y)
  BY <1>1, TotalExchanged DEF Deviation
<1>4. Total(Squares(e)) = Total(Squares(s))
  <2> DEFINE sq == Squares(s)
             f == Exchanged(sq, i)
  <2>1. sq \in Seq(Int) /\ Len(sq) = n
    BY SquaresOf
  <2>2. /\ f \in Seq(Int) /\ Len(f) = n /\ DOMAIN f = 1..n
        /\ \A j \in 1..n : f[j] = sq[Other(i, j)]
    BY <2>1, ExchangedIs
  <2>3. \A j \in 1..n : sq[j] = Deviation(s, s[j]) * Deviation(s, s[j])
    BY <1>1 DEF Squares
  <2>4. Squares(e) = [j \in 1..n |-> Deviation(s, e[j]) * Deviation(s, e[j])]
    BY <1>1, <1>3, Zenon DEF Squares
  <2> HIDE DEF n, e, sq, f
  <2>5. \A j \in 1..n : Squares(e)[j] = f[j]
    <3> DEFINE square(y) == Deviation(s, y) * Deviation(s, y)
    <3>1. \A j \in 1..n : sq[j] = square(s[j]) /\ Squares(e)[j] = square(e[j])
      BY <2>3, <2>4
    <3> HIDE DEF square
    <3> QED
      BY <1>1, <2>2, <3>1, Zenon
  <2>6. f = [j \in 1..n |-> f[j]] /\ Squares(e) = [j \in 1..n |-> Squares(e)[j]]
    BY <2>2, <2>4
  <2>7. Squares(e) = f
    BY <2>5, <2>6
  <2> QED
    BY <2>1, <2>7, TotalExchanged DEF f, sq, n
<1> DEFINE tied(x) == Total(Squares(s)) > 0 /\ Distance(s, x) = Total(Squares(s))
<1>5. \A x : Distance(e, x) = Distance(s, x)
  BY <1>1, <1>3 DEF Distance
<1> HIDE DEF n, e
<1>6. Ties(s) = {s[j] : j \in {k \in 1..n : tied(s[k])}}
  BY <1>1, <1>2, Zenon DEF Ties
<1>7. Ties(e) = {e[j] : j \in {k \in 1..n : tied(e[k])}}
  BY <1>1, <1>2, <1>4, <1>5, Zenon DEF Ties
<1> HIDE DEF tied
<1>8. \A j \in 1..n : \E k \in 1..n : e[k] = s[j]
  <2>1. \A j \in 1..n : Other(i, j) \in 1..n /\ Other(i, Other(i, j)) = j
    BY ExchangedIs DEF n
  <2> QED
    BY <1>1, <2>1
<1>9. Ties(e) = Ties(s)
  <2>1. \A j \in 1..n : \E k \in 1..n : e[j] = s[k]
    BY <1>1
  <2>2. \A j \in 1..n : \E k \in 1..n : s[j] = e[k]
    BY <1>8
  <2>3. Ties(s) \subseteq Ties(e)
    BY <1>6, <1>7, <2>2
  <2>4. Ties(e) \subseteq Ties(s)
    BY <1>6, <1>7, <2>1
  <2> QED
    BY <2>3, <2>4
<1>10. \A x, cut : Inlier(e, x, cut) <=> Inlier(s, x, cut)
  BY <1>2, <1>4, <1>5, Zenon DEF Inlier
<1> QED
  BY <1>9, <1>10 DEF e

\* Whichever ties rounding cuts, the order of the prices makes no further
\* difference: not to the sum, hence not to who is an inlier, and the median depends
\* on how often each inlier is there only.
LEMMA ResultExchanged ==
  ASSUME NEW s \in Seq(Int \union {NotFinite}), NEW i \in 1..(Len(s) - 1),
         NEW cut \in SUBSET Ties(s)
  PROVE  ComputeConsolidatedPrice(Exchanged(s, i), cut) = ComputeConsolidatedPrice(s, cut)
<1> DEFINE n == Len(s)
           e == Exchanged(s, i)
<1>1. /\ e \in Seq(Int \union {NotFinite}) /\ Len(e) = n
      /\ DOMAIN e = 1..n /\ DOMAIN s = 1..n /\ n \in Nat /\ i \in 1..n /\ i + 1 \in 1..n
      /\ \A j \in 1..n : /\ Other(i, j) \in 1..n /\ Other(i, Other(i, j)) = j
                         /\ e[j] = s[Other(i, j)]
  BY ExchangedIs
<1>2. n = 2 \/ n >= 3
  BY <1>1
<1>3. CASE n = 2
  <2>1. i = 1 /\ e[1] = s[2] /\ e[2] = s[1]
    BY <1>1, <1>3 DEF Other
  <2>2. Plus(s[2], s[1]) = Plus(s[1], s[2])
    <3>1. s[1] \in Int \union {NotFinite} /\ s[2] \in Int \union {NotFinite}
      <4>1. 1 \in 1..n /\ 2 \in 1..n
        BY <1>3
      <4> HIDE DEF n
      <4> QED
        BY <4>1, ElementOfSeq DEF n
    <3> QED
      BY <3>1 DEF Plus
  <2>3. ComputeConsolidatedPrice(s, cut) = Price(Plus(s[1], s[2]))
    BY <1>3 DEF ComputeConsolidatedPrice
  <2>4. ComputeConsolidatedPrice(e, cut) = Price(Plus(e[1], e[2]))
    <3> HIDE DEF e
    <3> QED
      BY <1>1, <1>3 DEF ComputeConsolidatedPrice
  <2> QED
    BY <2>1, <2>2, <2>3, <2>4
<1>4. CASE n >= 3 /\ ~AllFinite(s)
  <2>1. ~AllFinite(e)
    <3> HIDE DEF n, e
    <3> QED
      BY <1>1, <1>4 DEF AllFinite
  <2> HIDE DEF e
  <2> QED
    BY <1>1, <1>4, <2>1, NotFiniteGivesNone DEF e
<1>5. CASE n >= 3 /\ AllFinite(s)
  <2>1. s \in Seq(Int) /\ s # <<>>
    BY <1>5 DEF AllFinite
  <2>2. e \in Seq(Int) /\ e # <<>>
    <3>1. e \in Seq(Int)
      BY <2>1, ExchangedIs
    <3> HIDE DEF e
    <3> QED
      BY <1>1, <1>5, <3>1
  <2>3. ASSUME NEW V
        PROVE  Cardinality(Inliers(e, n, V, cut)) = Cardinality(Inliers(s, n, V, cut))
    <3> DEFINE S == Inliers(s, n, V, cut)
               T == Inliers(e, n, V, cut)
               f == [j \in S |-> Other(i, j)]
    <3>1. \A j \in 1..n : Inlier(e, s[j], cut) <=> Inlier(s, s[j], cut)
      BY <2>1, InlierExchanged
    <3>2. \A j \in 1..n : j \in T <=> Other(i, j) \in S
      <4> HIDE DEF n, e
      <4> QED
        BY <1>1, <3>1 DEF Inliers
    <3>3. S \in SUBSET (1..n) /\ T \in SUBSET (1..n)
      BY DEF Inliers
    <3> HIDE DEF S, T, n, e
    <3>4. f \in Bijection(S, T)
      <4>1. \A j \in S : Other(i, j) \in T
        BY <1>1, <3>2, <3>3
      <4>2. \A j, k \in S : Other(i, j) = Other(i, k) => j = k
        BY <1>1, <3>3
      <4>3. \A k \in T : Other(i, k) \in S /\ Other(i, Other(i, k)) = k
        BY <1>1, <3>2, <3>3
      <4>4. f \in Injection(S, T)
        BY <4>1, <4>2 DEF Injection, IsInjective
      <4>5. f \in Surjection(S, T)
        BY <4>1, <4>3 DEF Surjection
      <4> QED
        BY <4>4, <4>5 DEF Bijection
    <3>5. IsFiniteSet(S)
      BY <1>1, <3>3, FirstNumbers, FS_Subset
    <3> QED
      BY <3>4, <3>5, FS_Bijection DEF ExistsBijection, S, T
  <2> DEFINE t == RemoveOutliers(s, cut)
             u == RemoveOutliers(e, cut)
  <2>4. /\ t \in Seq(Int) /\ t # <<>>
        /\ \A V : Cardinality(Places(t, V)) = Cardinality(Inliers(s, n, V, cut))
    BY <2>1, OutliersRemoved
  <2>5. /\ u \in Seq(Int) /\ u # <<>>
        /\ \A V : Cardinality(Places(u, V)) = Cardinality(Inliers(e, n, V, cut))
    <3>1. cut \in SUBSET Ties(e)
      BY <2>1, InlierExchanged
    <3> HIDE DEF e
    <3> QED
      BY <1>1, <2>2, <3>1, OutliersRemoved
  <2> HIDE DEF t, u, e
  <2>6. TwiceMedian(t) = TwiceMedian(u)
    <3>1. \A V : Cardinality(Places(t, V)) = Cardinality(Places(u, V))
      BY <2>3, <2>4, <2>5, Zenon
    <3> QED
      BY <2>4, <2>5, <3>1, MedianOfCounts
  <2>7. n # 0 /\ n # 1 /\ n # 2
    BY <1>1, <1>5
  <2>8. /\ ComputeConsolidatedPrice(s, cut) = Price(TwiceMedian(t))
        /\ ComputeConsolidatedPrice(e, cut) = Price(TwiceMedian(u))
    BY <1>1, <2>4, <2>5, <2>7, Zenon DEF ComputeConsolidatedPrice, t, u
  <2> QED
    BY <2>6, <2>8, Zenon DEF e
<1> QED
  BY <1>2, <1>3, <1>4, <1>5

\* The order of the prices decides nothing but the ties: the outcomes are the same
\* after an exchange of neighbours, and any order comes from any other by these.
\* Without a tie there is one outcome.
THEOREM OrderDecidesTies ==
  ASSUME NEW s \in Seq(Int \union {NotFinite}), NEW i \in 1..(Len(s) - 1)
  PROVE  /\ Outcomes(Exchanged(s, i)) = Outcomes(s)
         /\ Ties(s) = {} =>
              \A r \in Outcomes(s) : r = ComputeConsolidatedPrice(Exchanged(s, i), {})
<1> DEFINE e == Exchanged(s, i)
<1>1. Ties(e) = Ties(s)
  <2>1. CASE AllFinite(s)
    <3>1. s \in Seq(Int)
      BY <2>1 DEF AllFinite
    <3> QED
      BY <3>1, InlierExchanged
  <2>2. CASE ~AllFinite(s)
    <3>1. ~AllFinite(e)
      <4>1. /\ DOMAIN e = 1..Len(s) /\ DOMAIN s = 1..Len(s)
            /\ \A j \in 1..Len(s) : /\ Other(i, j) \in 1..Len(s)
                                     /\ Other(i, Other(i, j)) = j /\ e[j] = s[Other(i, j)]
        BY ExchangedIs
      <4> HIDE DEF e
      <4> QED
        BY <2>2, <4>1 DEF AllFinite
    <3> HIDE DEF e
    <3> QED
      BY <2>2, <3>1 DEF Ties
  <2> QED
    BY <2>1, <2>2
<1>2. \A cut \in SUBSET Ties(s) :
        ComputeConsolidatedPrice(e, cut) = ComputeConsolidatedPrice(s, cut)
  BY ResultExchanged
<1> HIDE DEF e
<1>3. Outcomes(e) = Outcomes(s)
  BY <1>1, <1>2 DEF Outcomes
<1>4. ASSUME Ties(s) = {}, NEW r \in Outcomes(s)
      PROVE  r = ComputeConsolidatedPrice(e, {})
  BY <1>2, <1>4 DEF Outcomes
<1> QED
  BY <1>3, <1>4 DEF e

-----------------------------------------------------------------------------
(* GetPrice. *)

\* While a call runs the history is up to date with the providers, an answer has
\* been given by some provider during it, and one without an answer so far has
\* only met providers without a price.
Recorded ==
    /\ remaining # {} => pc = "ranging"
    /\ pc = "ranging" =>
         \A p \in Providers : IF prices[p] = Nil THEN p \in lacked ELSE prices[p] \in seen
    /\ \A k \in DOMAIN allPrices : allPrices[k] \in seen
    /\ pc = "ranging" /\ allPrices = <<>> => Providers \ remaining \subseteq lacked

IInv == TypeOK /\ Recorded /\ ResultWasSeen /\ MissingOnlyIfLacked

\* Prices are numbers.
LEMMA PricesAreInts == Seq(Prices) \subseteq Seq(Int)
<1>1. Prices \subseteq Int
  BY PricesAssumption
<1> QED
  BY <1>1, SeqMonotonic

\* At the start no call has been made.
LEMMA InitIInv == Init => IInv
<1> SUFFICES ASSUME Init PROVE IInv
  OBVIOUS
<1>1. Cardinality(Providers \ remaining) \in Nat
  BY ProvidersAssumption, FS_CardinalityType DEF Init
<1>2. Missing \in [valid : BOOLEAN, twice : Int]
  BY DEF Missing
<1>3. TypeOK
  BY <1>1, <1>2 DEF Init, TypeOK
<1> QED
  BY <1>3 DEF Init, IInv, Recorded, ResultWasSeen, MissingOnlyIfLacked, Returned

\* A provider's price changes: the history takes note if a call runs.
LEMMA UpdateKeepsIInv ==
  ASSUME IInv, NEW p \in Providers, Update(p)
  PROVE  IInv'
<1> USE DEF IInv
<1>1. prices' \in [Providers -> Prices \union {Nil}]
  BY DEF Update, TypeOK
<1>2. CASE pc = "ranging"
  <2>1. TypeOK'
    BY <1>1, <1>2 DEF Update, Observe, TypeOK
  <2>2. Recorded'
    BY <1>1, <1>2 DEF Update, Observe, TypeOK, Recorded
  <2> QED
    BY <1>2, <2>1, <2>2
       DEF Update, TypeOK, ResultWasSeen, MissingOnlyIfLacked, Returned
<1>3. CASE pc # "ranging"
  <2>1. TypeOK'
    BY <1>1, <1>3 DEF Update, TypeOK
  <2>2. Recorded'
    BY <1>3 DEF Update, Recorded
  <2> QED
    BY <1>3, <2>1, <2>2
       DEF Update, ResultWasSeen, MissingOnlyIfLacked, Returned
<1> QED
  BY <1>2, <1>3

\* A call begins, with a history of its own.
LEMMA GetPriceKeepsIInv ==
  ASSUME IInv, GetPrice
  PROVE  IInv'
<1>1. Cardinality(Providers \ Providers) \in Nat
  BY ProvidersAssumption, FS_CardinalityType, FS_EmptySet
<1>2. TypeOK'
  BY <1>1 DEF IInv, TypeOK, GetPrice
<1>3. Recorded'
  BY DEF IInv, TypeOK, GetPrice, Recorded
<1> QED
  BY <1>2, <1>3 DEF IInv, GetPrice, ResultWasSeen, MissingOnlyIfLacked, Returned

\* A provider is asked: its answer has been seen, or it lacks a price.
LEMMA AskKeepsIInv ==
  ASSUME IInv, NEW p \in Providers, Ask(p)
  PROVE  IInv'
<1> USE DEF IInv
<1>1. pc = "ranging" /\ p \in remaining
  BY DEF Ask, Recorded
<1>2. /\ Cardinality(Providers \ remaining) \in Nat
      /\ Cardinality(Providers \ remaining')
            = Cardinality(Providers \ remaining) + 1
  <2>1. IsFiniteSet(Providers \ remaining)
    BY ProvidersAssumption, FS_Subset
  <2>2. Providers \ remaining' = (Providers \ remaining) \union {p}
    BY <1>1 DEF Ask
  <2> QED
    BY <1>1, <2>1, <2>2, FS_AddElement, FS_CardinalityType
<1>3. ResultWasSeen' /\ MissingOnlyIfLacked'
  BY <1>1 DEF Ask, ResultWasSeen, MissingOnlyIfLacked, Returned
<1>4. CASE prices[p] = Nil
  <2>1. TypeOK'
    BY <1>2, <1>4 DEF Ask, TypeOK
  <2>2. Recorded'
    BY <1>1, <1>4 DEF Ask, Recorded
  <2> QED
    BY <1>3, <2>1, <2>2
<1>5. CASE prices[p] # Nil
  <2>1. prices[p] \in Prices /\ prices[p] \in seen
    BY <1>1, <1>5 DEF TypeOK, Recorded
  <2>2. /\ allPrices' \in Seq(Prices) /\ allPrices' # <<>>
        /\ Len(allPrices') = Len(allPrices) + 1
        /\ \A k \in DOMAIN allPrices' : allPrices'[k] \in seen
    <3>1. allPrices' = Append(allPrices, prices[p]) /\ allPrices \in Seq(Prices)
      BY <1>5 DEF Ask, TypeOK
    <3>2. ASSUME NEW k \in DOMAIN allPrices'
          PROVE  allPrices'[k] \in seen
      <4>1. \/ k \in DOMAIN allPrices /\ allPrices'[k] = allPrices[k]
            \/ allPrices'[k] = prices[p]
        BY <2>1, <3>1, AppendProperties
      <4> QED
        BY <2>1, <4>1 DEF Recorded
    <3> QED
      BY <2>1, <3>1, <3>2, AppendProperties
  <2>3. TypeOK'
    BY <1>2, <1>5, <2>2 DEF Ask, TypeOK
  <2>4. Recorded'
    BY <1>1, <1>5, <2>2 DEF Ask, Recorded
  <2> QED
    BY <1>3, <2>3, <2>4
<1> QED
  BY <1>4, <1>5

\* All have been asked: with an answer there is a price between answers that were
\* seen, and without one every provider has lacked one.
LEMMA ReturnKeepsIInv ==
  ASSUME IInv, Return
  PROVE  IInv'
<1> USE DEF IInv
<1>1. allPrices \in Seq(Prices) /\ allPrices \in Seq(Int)
  BY PricesAreInts DEF TypeOK
<1>2. Recorded'
  BY DEF Return, Recorded
<1>3. CASE allPrices = <<>>
  <2>1. result' = Missing
    <3>1. Len(allPrices) = 0
      BY <1>3
    <3> QED
      BY <3>1 DEF Return, Outcomes, ComputeConsolidatedPrice
  <2>2. TypeOK'
    BY <2>1 DEF Return, TypeOK, Missing
  <2>3. lacked = Providers
    BY <1>3 DEF Return, Recorded, TypeOK
  <2> QED
    BY <1>2, <2>1, <2>2, <2>3
       DEF Return, Missing, ResultWasSeen, MissingOnlyIfLacked, Returned
<1>4. CASE allPrices # <<>>
  <2>1. PICK t : result' = Price(t) /\ Between(allPrices, t)
    <3>1. PICK cut \in SUBSET Ties(allPrices) :
            result' = ComputeConsolidatedPrice(allPrices, cut)
      BY DEF Return, Outcomes
    <3> QED
      BY <1>1, <1>4, <3>1, PriceIfAnswered
  <2>2. t \in Int /\ result'.valid /\ result'.twice = t
    BY <2>1 DEF Return, Price, Between
  <2>3. TypeOK'
    BY <2>1, <2>2 DEF Return, TypeOK, Price
  <2>4. ResultWasSeen'
    BY <2>1, <2>2 DEF Return, Recorded, Between, ResultWasSeen
  <2> QED
    BY <1>2, <2>2, <2>3, <2>4 DEF MissingOnlyIfLacked
<1> QED
  BY <1>3, <1>4

\* The invariant holds throughout.
LEMMA Invariance == Spec => []IInv
<1>1. ASSUME IInv, [Next]_vars
      PROVE  IInv'
  <2>1. CASE Next
    BY <1>1, <2>1, UpdateKeepsIInv, GetPriceKeepsIInv, AskKeepsIInv, ReturnKeepsIInv
       DEF Next
  <2>2. CASE UNCHANGED vars
    BY <1>1, <2>2 DEF vars, IInv, TypeOK, Recorded, ResultWasSeen, MissingOnlyIfLacked,
                      Returned
  <2> QED
    BY <1>1, <2>1, <2>2
<1> QED
  BY InitIInv, <1>1, PTL DEF Spec

\* The variables have their types: no provider answers twice, and a result is a
\* price even for the most unlikely answers.
THEOREM TypeCorrect == Spec => []TypeOK
<1>1. IInv => TypeOK
  BY DEF IInv
<1> QED
  BY Invariance, <1>1, PTL

\* A price returned lies between prices that providers had during the call, for
\* any number of providers whose prices change while they are asked.
THEOREM ResultSeen == Spec => []ResultWasSeen
<1>1. IInv => ResultWasSeen
  BY DEF IInv
<1> QED
  BY Invariance, <1>1, PTL

\* A pair is abstained on only if each provider was without a price for it at some
\* time during the call.
THEOREM MissingOnlyIfAllLacked == Spec => []MissingOnlyIfLacked
<1>1. IInv => MissingOnlyIfLacked
  BY DEF IInv
<1> QED
  BY Invariance, <1>1, PTL
=============================================================================
