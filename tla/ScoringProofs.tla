------------------------------ MODULE ScoringProofs ------------------------------
(***************************************************************************)
(* Proofs about Scoring: whatever the factors, classes, rules and facts, an *)
(* active matrix was approved as it is by a second administrator, a         *)
(* body the schema accepts scores every reading exactly, and a result does  *)
(* not depend on the order of the rules.                                   *)
(***************************************************************************)
EXTENDS Scoring, FiniteSetTheorems, NaturalsInduction, TLAPS

-------------------------------------------------------------------------------
(* Sums *)

\* A non-empty set of numbers has a least one.
LEMMA Least ==
  ASSUME NEW S \in SUBSET Nat, S # {}
  PROVE  \E n \in S : \A m \in S : n <= m
<1>1. \A a, b \in Nat : a < b => <<a, b>> \in OpToRel(<, Nat)
  BY SMT DEF OpToRel
<1>2. PICK n \in S : \A m \in S : <<m, n>> \notin OpToRel(<, Nat)
  BY NatLessThanWellFounded, WFMin
<1>3. \A m \in S : ~(m < n)
  BY <1>1, <1>2
<1> QED
  BY <1>3

\* The sum q of two fractions.
Plus(p, q) == <<p[1] * q[2] + q[1] * p[2], p[2] * q[2]>>

\* The sums of the first numbers of t.
PartialSums(s, t, n) ==
  s = [i \in 0..n |-> IF i = 0 THEN <<0, 1>> ELSE Plus(s[i - 1], t[i])]

\* There are partial sums up to every n: else take the least n up to which there are none.
LEMMA SumsExist ==
  ASSUME NEW t, NEW n \in Nat
  PROVE  \E s : PartialSums(s, t, n)
<1> DEFINE Bad == {m \in Nat : ~\E s : PartialSums(s, t, m)}
<1> SUFFICES ASSUME Bad # {} PROVE FALSE
  OBVIOUS
<1>1. PICK m \in Bad : \A k \in Bad : m <= k
  <2>1. Bad \in SUBSET Nat
    OBVIOUS
  <2> HIDE DEF Bad
  <2> QED
    BY <2>1, Least
<1>2. m # 0
  <2>1. PartialSums([i \in 0..0 |-> <<0, 1>>], t, 0)
    BY DEF PartialSums
  <2> QED
    BY <1>1, <2>1
<1>3. m \in Nat /\ m - 1 \in Nat /\ m - 1 \notin Bad
  BY <1>1, <1>2
<1>4. PICK s : PartialSums(s, t, m - 1)
  BY <1>3
<1> DEFINE last == Plus(s[m - 1], t[m])
           r == [i \in 0..m |-> IF i < m THEN s[i] ELSE last]
<1> HIDE DEF Bad
<1>5. ASSUME NEW i \in 0..m
      PROVE  r[i] = IF i = 0 THEN <<0, 1>> ELSE Plus(r[i - 1], t[i])
  <2>1. CASE i = 0
    BY <1>2, <1>3, <1>4, <2>1 DEF PartialSums
  <2>2. CASE i # 0
    <3>1. i - 1 \in 0..(m - 1) /\ i - 1 \in 0..m /\ i - 1 < m
      BY <1>3, <2>2
    <3>2. r[i - 1] = s[i - 1]
      BY <3>1
    <3>3. CASE i < m
      <4>1. i \in 0..(m - 1) /\ r[i] = s[i]
        BY <3>3, <1>3
      <4> HIDE DEF r
      <4> QED
        BY <4>1, <3>2, <1>4, <2>2 DEF PartialSums
    <3>4. CASE i = m
      <4>1. r[i] = last
        BY <3>4
      <4> HIDE DEF r
      <4> QED
        BY <4>1, <3>2, <3>4, <2>2
    <3> QED
      BY <3>3, <3>4, <1>3
  <2> QED
    BY <2>1, <2>2
<1>6. PartialSums(r, t, m)
  <2>1. r = [i \in 0..m |-> r[i]]
    OBVIOUS
  <2> HIDE DEF r
  <2> QED
    BY <1>5, <2>1 DEF PartialSums
<1> QED
  BY <1>1, <1>6 DEF Bad

\* A sum is the last of its partial sums.
LEMMA TotalIsLast ==
  ASSUME NEW t, NEW n \in Nat
  PROVE  \E s : PartialSums(s, t, n) /\ Total(t, n) = s[n]
<1> DEFINE s == CHOOSE f : f = [i \in 0..n |-> IF i = 0 THEN <<0, 1>> ELSE Plus(f[i - 1], t[i])]
<1>1. PartialSums(s, t, n)
  <2>1. \E f : f = [i \in 0..n |-> IF i = 0 THEN <<0, 1>> ELSE Plus(f[i - 1], t[i])]
    BY SumsExist DEF PartialSums
  <2> QED
    BY <2>1 DEF PartialSums
<1>2. Total(t, n) = s[n]
  BY DEF Total, Plus
<1> QED
  BY <1>1, <1>2

\* Products of bounded factors.
LEMMA Times ==
  ASSUME NEW a \in Int, NEW b \in Int, NEW q \in Nat, a <= b
  PROVE  a * q <= b * q
<1>1. (b - a) * q >= 0 /\ (b - a) * q = b * q - a * q
  OBVIOUS
<1> QED
  BY <1>1

\* The sum of two fractions that are at most their weights is at most the sum of the weights.
LEMMA PlusIsBounded ==
  ASSUME NEW a \in Nat, NEW b \in Nat \ {0}, NEW U \in Nat, a <= U * b,
         NEW p \in Nat, NEW q \in Nat \ {0}, NEW w \in Nat, p <= w * q
  PROVE  /\ a * q + p * b \in Nat /\ b * q \in Nat \ {0}
         /\ a * q + p * b <= (U + w) * (b * q)
<1>1. a * q <= (U * b) * q /\ p * b <= (w * q) * b
  BY Times
<1>2. (U * b) * q + (w * q) * b = (U + w) * (b * q)
  OBVIOUS
<1>3. a * q \in Nat /\ p * b \in Nat /\ b * q \in Nat \ {0} /\ U * b \in Nat /\ (U * b) * q \in Nat
      /\ (w * q) * b \in Nat /\ (U + w) * (b * q) \in Nat
  OBVIOUS
<1> QED
  BY <1>1, <1>2, <1>3

\* A positive fraction <<numerator, denominator>> that is at most w.
Bounded(q, w) == q[1] \in Nat /\ q[2] \in Nat \ {0} /\ q[1] <= w * q[2]

\* One partial sum after the other.
LEMMA SumSteps ==
  ASSUME NEW t, NEW n \in Nat, NEW s, PartialSums(s, t, n)
  PROVE  s[0] = <<0, 1>> /\ \A i \in 1..n : s[i] = Plus(s[i - 1], t[i])
<1>1. s[0] = <<0, 1>>
  BY DEF PartialSums
<1>2. ASSUME NEW i \in 1..n PROVE s[i] = Plus(s[i - 1], t[i])
  <2>1. i \in 0..n /\ i # 0
    OBVIOUS
  <2>2. s[i] = IF i = 0 THEN <<0, 1>> ELSE Plus(s[i - 1], t[i])
    BY <2>1, Zenon DEF PartialSums
  <2> QED
    BY <2>1, <2>2
<1> QED
  BY <1>1, <1>2

\* A sum of fractions that are at most their weights is at most the sum of the weights.
LEMMA SumIsBounded ==
  ASSUME NEW n \in Nat, NEW t, NEW w, NEW u,
         \A i \in 1..n : u[i] = <<w[i], 1>> /\ w[i] \in Nat /\ Bounded(t[i], w[i])
  PROVE  Total(u, n)[2] = 1 /\ Total(u, n)[1] \in Nat /\ Bounded(Total(t, n), Total(u, n)[1])
<1>1. PICK s : PartialSums(s, t, n) /\ Total(t, n) = s[n]
  BY TotalIsLast
<1>2. PICK r : PartialSums(r, u, n) /\ Total(u, n) = r[n]
  BY TotalIsLast
<1> DEFINE Good(i) == r[i][2] = 1 /\ r[i][1] \in Nat /\ Bounded(s[i], r[i][1])
           Bad == {i \in 0..n : ~Good(i)}
<1>3. ASSUME Bad # {} PROVE FALSE
  <2>1. PICK m \in Bad : \A i \in Bad : m <= i
    <3>1. Bad \in SUBSET Nat
      OBVIOUS
    <3> HIDE DEF Bad
    <3> QED
      BY <1>3, <3>1, Least
  <2>2. s[0] = <<0, 1>> /\ r[0] = <<0, 1>>
    BY <1>1, <1>2, SumSteps
  <2>3. m # 0
    <3>1. Good(0)
      BY <2>2 DEF Bounded
    <3> HIDE DEF Good
    <3> QED
      BY <2>1, <3>1
  <2>4. m \in 1..n /\ m - 1 \in 0..n /\ m - 1 < m
    BY <2>1, <2>3
  <2>5. Good(m - 1)
    <3> HIDE DEF Good
    <3> QED
      BY <2>1, <2>4
  <2>6. s[m] = Plus(s[m - 1], t[m]) /\ r[m] = Plus(r[m - 1], u[m])
    BY <1>1, <1>2, <2>4, SumSteps
  <2>7. u[m] = <<w[m], 1>> /\ w[m] \in Nat /\ Bounded(t[m], w[m])
    BY <2>4
  <2>8. r[m][2] = 1 /\ r[m][1] = r[m - 1][1] + w[m]
    BY <2>5, <2>6, <2>7 DEF Plus
  <2>9. Bounded(s[m], r[m - 1][1] + w[m])
    <3>1. s[m][1] = s[m - 1][1] * t[m][2] + t[m][1] * s[m - 1][2] /\ s[m][2] = s[m - 1][2] * t[m][2]
      BY <2>6 DEF Plus
    <3> DEFINE a == s[m - 1][1]
               b == s[m - 1][2]
               U == r[m - 1][1]
               p == t[m][1]
               q == t[m][2]
    <3>2. a \in Nat /\ b \in Nat \ {0} /\ U \in Nat /\ a <= U * b
      BY <2>5 DEF Bounded
    <3>3. p \in Nat /\ q \in Nat \ {0} /\ w[m] \in Nat /\ p <= w[m] * q
      BY <2>7 DEF Bounded
    <3>4. s[m][1] = a * q + p * b /\ s[m][2] = b * q
      BY <3>1
    <3> HIDE DEF a, b, U, p, q
    <3>5. /\ a * q + p * b \in Nat /\ b * q \in Nat \ {0}
          /\ a * q + p * b <= (U + w[m]) * (b * q)
      BY <3>2, <3>3, PlusIsBounded
    <3> QED
      BY <3>4, <3>5 DEF Bounded, U
  <2>10. Good(m)
    BY <2>5, <2>7, <2>8, <2>9
  <2> QED
    BY <2>1, <2>10
<1>4. Good(n)
  BY <1>3
<1> QED
  BY <1>1, <1>2, <1>4

\* Rounding a positive fraction that is at most w gives an integer from 0 to w.
LEMMA RoundedIsBounded ==
  ASSUME NEW q, NEW w \in Nat, Bounded(q, w)
  PROVE  Rounded(q) \in 0..w
<1> DEFINE n == q[1]
           d == q[2]
           k == (2 * n + d) \div (2 * d)
<1>1. n \in Nat /\ d \in Nat \ {0} /\ n <= w * d
  BY DEF Bounded
<1>2. Rounded(q) = k
  BY <1>1 DEF Rounded
<1> HIDE DEF n, d
<1>3. k \in Int /\ (2 * d) * k <= 2 * n + d /\ 2 * n + d < (2 * d) * (k + 1)
  BY <1>1
<1> HIDE DEF k
<1>4. k >= 0
  <2> SUFFICES ASSUME k + 1 <= 0 PROVE FALSE
    BY <1>3
  <2>1. (k + 1) * (2 * d) <= 0 * (2 * d)
    BY <1>1, <1>3, Times
  <2> QED
    BY <1>1, <1>3, <2>1
<1>5. k <= w
  <2> SUFFICES ASSUME w + 1 <= k PROVE FALSE
    BY <1>3
  <2>1. (w + 1) * (2 * d) <= k * (2 * d)
    BY <1>1, <1>3, Times
  <2>2. (w + 1) * (2 * d) = 2 * (w * d) + 2 * d /\ k * (2 * d) = (2 * d) * k /\ w * d \in Nat
    BY <1>1, <1>3
  <2> QED
    BY <1>1, <1>3, <2>1, <2>2
<1> QED
  BY <1>2, <1>3, <1>4, <1>5

-------------------------------------------------------------------------------
(* Scores and classes *)

\* The contribution of a factor whose scale the schema accepts is at most its weight.
LEMMA ContributionIsBounded ==
  ASSUME NEW c \in Contents, Refined(c), NEW r \in Readings(c), NEW f \in DOMAIN Factors
  PROVE  /\ Span(c, f) \in Nat \ {0} /\ c.factors[f].weight \in Nat
         /\ Bounded(<<Rise(c, r, f), Span(c, f)>>, c.factors[f].weight)
<1> DEFINE x == c.factors[f]
<1>1. x.weight \in Nat /\ x.min \in Int /\ x.max \in Int /\ x.values \subseteq Int
  BY ScoringOK DEF Contents
<1>2. x.max > x.min /\ x.values \subseteq x.min..x.max
  BY DEF Refined
<1>3. r[f] \in Int /\ r[f] - x.min \in Nat /\ r[f] - x.min <= x.max - x.min
  <2>1. r[f] \in x.values \cup {x.min}
    BY DEF Readings, Values
  <2> HIDE DEF x
  <2> QED
    BY <1>1, <1>2, <2>1
<1>4. Rise(c, r, f) = (r[f] - x.min) * x.weight /\ Span(c, f) = x.max - x.min
  BY <1>1, <1>3 DEF Rise, Span
<1> HIDE DEF x
<1>5. /\ (r[f] - x.min) * x.weight <= (x.max - x.min) * x.weight
      /\ (r[f] - x.min) * x.weight \in Nat
      /\ (x.max - x.min) * x.weight = x.weight * (x.max - x.min)
  BY <1>1, <1>2, <1>3, Times
<1> QED
  BY <1>1, <1>2, <1>4, <1>5 DEF Bounded, x

\* The score of a body the schema accepts needs no bounds.
LEMMA RefinedScore ==
  ASSUME NEW c \in Contents, Refined(c), NEW r \in Readings(c)
  PROVE  Flat(c) = {} /\ Rounded(Raw(c, r)) \in 0..Top
<1> DEFINE n == Len(Factors)
           t == [f \in DOMAIN Factors |-> <<Rise(c, r, f), Span(c, f)>>]
           w == [f \in DOMAIN Factors |-> c.factors[f].weight]
           u == [f \in DOMAIN Factors |-> <<c.factors[f].weight, 1>>]
<1>1. n \in Nat /\ DOMAIN Factors = 1..n
  BY ScoringOK
<1>2. Flat(c) = {}
  BY ContributionIsBounded DEF Flat
<1>3. Raw(c, r) = Total(t, n)
  BY <1>2 DEF Raw
<1>4. Total(u, n) = <<Top, 1>>
  BY DEF Refined, Weights
<1>5. \A i \in 1..n : u[i] = <<w[i], 1>> /\ w[i] \in Nat /\ Bounded(t[i], w[i])
  BY <1>1, ContributionIsBounded
<1> HIDE DEF n, t, w, u
<1>6. Bounded(Total(t, n), Total(u, n)[1])
  BY <1>1, <1>5, SumIsBounded
<1>7. Bounded(Raw(c, r), Top) /\ Top \in Nat
  BY <1>3, <1>4, <1>6, ScoringOK
<1> QED
  BY <1>2, <1>7, RoundedIsBounded

\* The ranges of a body the schema accepts follow each other.
LEMMA RangesAscend ==
  ASSUME NEW c \in Contents, Refined(c), NEW i \in DOMAIN Classes, NEW j \in DOMAIN Classes, i < j
  PROVE  c.ranges[i].max < c.ranges[j].min
<1> DEFINE Bad == {k \in DOMAIN Classes : i < k /\ ~(c.ranges[i].max < c.ranges[k].min)}
<1> SUFFICES ASSUME Bad # {} PROVE FALSE
  OBVIOUS
<1>1. DOMAIN Classes = 1..Len(Classes) /\ Len(Classes) \in Nat
  BY ScoringOK
<1>2. PICK k \in Bad : \A m \in Bad : k <= m
  <2>1. Bad \in SUBSET Nat
    BY <1>1
  <2> HIDE DEF Bad
  <2> QED
    BY <2>1, Least
<1>3. k - 1 \in DOMAIN Classes /\ k # 1 /\ i <= k - 1 /\ k \in DOMAIN Classes
  BY <1>1
<1>4. \A m \in DOMAIN Classes : c.ranges[m].min \in Int /\ c.ranges[m].max \in Int
  BY ScoringOK DEF Contents
<1>5. /\ c.ranges[k].min = c.ranges[k - 1].max + 1
      /\ c.ranges[k - 1].max >= c.ranges[k - 1].min
  BY <1>3 DEF Refined
<1>6. CASE i = k - 1
  BY <1>2, <1>3, <1>4, <1>5, <1>6
<1>7. CASE i < k - 1
  <2>1. k - 1 \notin Bad
    <3> HIDE DEF Bad
    <3> QED
      BY <1>2, <1>3, <1>1
  <2>2. c.ranges[i].max < c.ranges[k - 1].min
    BY <1>3, <1>7, <2>1
  <2>3. ~(c.ranges[i].max < c.ranges[k].min)
    BY <1>2
  <2>4. /\ c.ranges[i].max \in Int /\ c.ranges[k].min \in Int
        /\ c.ranges[k - 1].max \in Int /\ c.ranges[k - 1].min \in Int
    <3> HIDE DEF Bad
    <3> QED
      BY <1>3, <1>4
  <2> HIDE DEF Bad
  <2> QED
    BY <1>5, <2>2, <2>3, <2>4
<1> QED
  BY <1>1, <1>3, <1>6, <1>7

\* One range of a body the schema accepts holds a score, and no other does.
LEMMA OneRangeFits ==
  ASSUME NEW c \in Contents, Refined(c), NEW s \in 0..Top
  PROVE  \E i \in DOMAIN Classes :
           {j \in DOMAIN Classes : s \in c.ranges[j].min..c.ranges[j].max} = {i}
<1> DEFINE High == {i \in DOMAIN Classes : s <= c.ranges[i].max}
<1>1. DOMAIN Classes = 1..Len(Classes) /\ Len(Classes) \in Nat \ {0} /\ Top \in Nat
  BY ScoringOK
<1>2. \A m \in DOMAIN Classes : c.ranges[m].min \in Int /\ c.ranges[m].max \in Int
  BY ScoringOK DEF Contents
<1>3. \A m \in DOMAIN Classes :
        c.ranges[m].min = IF m = 1 THEN 0 ELSE c.ranges[m - 1].max + 1
  BY DEF Refined
<1>4. Len(Classes) \in High
  BY <1>1 DEF Refined
<1>5. PICK i \in High : \A m \in High : i <= m
  <2>1. High \in SUBSET Nat /\ High # {}
    BY <1>1, <1>4
  <2> HIDE DEF High
  <2> QED
    BY <2>1, Least
<1>6. s \in c.ranges[i].min..c.ranges[i].max
  <2>1. CASE i = 1
    BY <1>1, <1>2, <1>3, <2>1
  <2>2. CASE i # 1
    <3>1. i - 1 \in DOMAIN Classes /\ i - 1 < i
      BY <1>1, <2>2
    <3>2. i - 1 \notin High
      <4>1. i \in Nat
        BY <1>1
      <4> HIDE DEF High
      <4> QED
        BY <1>5, <3>1, <4>1
    <3> QED
      BY <1>2, <1>3, <2>2, <3>1, <3>2
  <2> QED
    BY <2>1, <2>2
<1>7. ASSUME NEW j \in DOMAIN Classes, s \in c.ranges[j].min..c.ranges[j].max PROVE j = i
  <2>1. CASE i < j
    BY <2>1, <1>2, <1>6, <1>7, RangesAscend
  <2>2. CASE j < i
    BY <2>2, <1>2, <1>6, <1>7, RangesAscend
  <2> QED
    BY <1>1, <2>1, <2>2
<1> QED
  BY <1>6, <1>7

\* What RefinedIsExact says of one body.
LEMMA RefinedExact ==
  ASSUME NEW c \in Contents, Refined(c), NEW r \in Readings(c)
  PROVE  /\ ~NaN(c, r) /\ Rounded(Raw(c, r)) \in 0..Top
         /\ Cardinality(Fitting(c, r)) = 1
<1>1. Flat(c) = {} /\ Rounded(Raw(c, r)) \in 0..Top
  BY RefinedScore
<1>2. ~NaN(c, r) /\ ~PlusInfinity(c, r) /\ ~MinusInfinity(c, r)
  BY <1>1 DEF NaN, PlusInfinity, MinusInfinity
<1>3. computeScore(c, r) \in 0..Top
  BY <1>1, <1>2, ScoringOK DEF computeScore, Clamp
<1>4. Fitting(c, r) = {i \in DOMAIN Classes : computeScore(c, r) \in c.ranges[i].min..c.ranges[i].max}
  BY <1>2 DEF Fitting
<1>5. PICK i : Fitting(c, r) = {i}
  BY <1>3, <1>4, OneRangeFits
<1> QED
  BY <1>1, <1>2, <1>5, FS_Singleton

-------------------------------------------------------------------------------
(* Conditions *)

\* The known nodes, and node i if it matches.
Grown(known, c, facts, i) == known \cup {k \in {i} : NodeMatches(c, facts, k, known)}

\* The nodes that match, among the first i for every i up to n.
Matched(m, c, facts, n) ==
  m = [i \in 0..n |-> IF i = 0 THEN {} ELSE Grown(m[i - 1], c, facts, i)]

\* There are such nodes up to every n: else take the least n up to which there are none.
LEMMA MatchedExists ==
  ASSUME NEW c, NEW facts, NEW n \in Nat
  PROVE  \E m : Matched(m, c, facts, n)
<1> DEFINE Bad == {k \in Nat : ~\E m : Matched(m, c, facts, k)}
<1> SUFFICES ASSUME Bad # {} PROVE FALSE
  OBVIOUS
<1>1. PICK l \in Bad : \A k \in Bad : l <= k
  <2>1. Bad \in SUBSET Nat
    OBVIOUS
  <2> HIDE DEF Bad
  <2> QED
    BY <2>1, Least
<1>2. l # 0
  <2>1. Matched([i \in 0..0 |-> {}], c, facts, 0)
    BY DEF Matched
  <2> QED
    BY <1>1, <2>1
<1>3. l \in Nat /\ l - 1 \in Nat /\ l - 1 \notin Bad
  BY <1>1, <1>2
<1>4. PICK m : Matched(m, c, facts, l - 1)
  BY <1>3
<1> DEFINE last == Grown(m[l - 1], c, facts, l)
           r == [i \in 0..l |-> IF i < l THEN m[i] ELSE last]
<1> HIDE DEF Bad
<1>5. ASSUME NEW i \in 0..l
      PROVE  r[i] = IF i = 0 THEN {} ELSE Grown(r[i - 1], c, facts, i)
  <2>1. CASE i = 0
    BY <1>2, <1>3, <1>4, <2>1 DEF Matched
  <2>2. CASE i # 0
    <3>1. i - 1 \in 0..(l - 1) /\ i - 1 \in 0..l /\ i - 1 < l
      BY <1>3, <2>2
    <3>2. r[i - 1] = m[i - 1]
      BY <3>1
    <3>3. CASE i < l
      <4>1. i \in 0..(l - 1) /\ r[i] = m[i]
        BY <3>3, <1>3
      <4> HIDE DEF r
      <4> QED
        BY <4>1, <3>2, <1>4, <2>2 DEF Matched
    <3>4. CASE i = l
      <4>1. r[i] = last
        BY <3>4
      <4> HIDE DEF r
      <4> QED
        BY <4>1, <3>2, <3>4, <2>2
    <3> QED
      BY <3>3, <3>4, <1>3
  <2> QED
    BY <2>1, <2>2
<1>6. Matched(r, c, facts, l)
  <2>1. r = [i \in 0..l |-> r[i]]
    OBVIOUS
  <2> HIDE DEF r
  <2> QED
    BY <1>5, <2>1 DEF Matched
<1> QED
  BY <1>1, <1>6 DEF Bad

\* The sets m lead to the nodes that match.
LeadTo(m, c, facts) ==
  /\ Matching(c, facts) = m[Len(c)] /\ m[0] = {}
  /\ \A i \in 1..Len(c) : m[i] = Grown(m[i - 1], c, facts, i)

\* The nodes that match are the last of these sets.
LEMMA MatchingIsLast ==
  ASSUME NEW c, NEW facts, Len(c) \in Nat
  PROVE  \E m : LeadTo(m, c, facts)
<1> DEFINE n == Len(c)
           m == CHOOSE f : f = [i \in 0..n |-> IF i = 0 THEN {} ELSE Grown(f[i - 1], c, facts, i)]
<1>1. Matched(m, c, facts, n)
  <2>1. \E f : f = [i \in 0..n |-> IF i = 0 THEN {} ELSE Grown(f[i - 1], c, facts, i)]
    <3> HIDE DEF n
    <3>1. n \in Nat
      BY DEF n
    <3>2. \E f : Matched(f, c, facts, n)
      BY <3>1, MatchedExists
    <3> QED
      BY <3>2 DEF Matched
  <2> QED
    BY <2>1 DEF Matched
<1>2. Matching(c, facts) = m[n]
  BY DEF Matching, Grown
<1> HIDE DEF m, n
<1>3. m[0] = {}
  BY <1>1 DEF Matched, n
<1>4. ASSUME NEW i \in 1..n
      PROVE  m[i] = Grown(m[i - 1], c, facts, i)
  <2>1. i \in 0..n /\ i # 0
    BY DEF n
  <2>2. m[i] = IF i = 0 THEN {} ELSE Grown(m[i - 1], c, facts, i)
    BY <1>1, <2>1, Zenon DEF Matched
  <2> QED
    BY <2>1, <2>2
<1> QED
  BY <1>2, <1>3, <1>4 DEF n, LeadTo

\* G states every fact of F, and reads it the same way.
Extends(G, F) == \A k \in DOMAIN F : k \in DOMAIN G /\ normalizeValue(F[k]) = normalizeValue(G[k])

\* A comparison that holds of some facts holds of facts that extend them: no comparison holds of
\* an unknown fact.
LEMMA ComparisonsPersist ==
  ASSUME NEW F, NEW G, Extends(G, F), NEW k, NEW op, NEW values, compare(FactOf(F, k), op, values)
  PROVE  compare(FactOf(G, k), op, values)
<1>1. k \in DOMAIN F
  <2>1. None[1] # "text" /\ normalizeValue(None) = None
    BY DEF None, normalizeValue
  <2> QED
    BY <2>1 DEF FactOf, compare
<1>2. normalizeValue(FactOf(F, k)) = normalizeValue(FactOf(G, k))
  BY <1>1 DEF Extends, FactOf
<1> QED
  BY <1>2 DEF compare

\* So does a condition.
LEMMA ConditionsPersist ==
  ASSUME NEW c, IsCondition(c), NEW F, NEW G, Extends(G, F), matches(c, F)
  PROVE  matches(c, G)
<1> DEFINE n == Len(c)
<1>1. n \in Nat \ {0}
  BY DEF IsCondition
<1>2. PICK f : LeadTo(f, c, F)
  BY <1>1, MatchingIsLast
<1>3. PICK g : LeadTo(g, c, G)
  BY <1>1, MatchingIsLast
<1> HIDE DEF n
<1> DEFINE Bad == {i \in 0..n : ~(f[i] \subseteq g[i])}
<1>4. ASSUME Bad # {} PROVE FALSE
  <2>1. PICK m \in Bad : \A i \in Bad : m <= i
    <3>1. Bad \in SUBSET Nat
      BY <1>1
    <3> HIDE DEF Bad
    <3> QED
      BY <1>4, <3>1, Least
  <2>2. m # 0
    BY <1>2, <1>3 DEF LeadTo
  <2>3. m \in 1..n /\ m - 1 \in 0..n /\ m - 1 < m
    BY <1>1, <2>2
  <2>4. m - 1 \notin Bad
    <3>1. m \in Nat
      BY <2>3
    <3> HIDE DEF Bad
    <3> QED
      BY <2>1, <2>3, <3>1
  <2>5. f[m - 1] \subseteq g[m - 1]
    BY <2>3, <2>4
  <2>6. NodeMatches(c, F, m, f[m - 1]) => NodeMatches(c, G, m, g[m - 1])
    BY <2>5, ComparisonsPersist DEF NodeMatches
  <2>7. f[m] = Grown(f[m - 1], c, F, m) /\ g[m] = Grown(g[m - 1], c, G, m)
    BY <1>2, <1>3, <2>3 DEF LeadTo, n
  <2>8. f[m] \subseteq g[m]
    BY <2>5, <2>6, <2>7 DEF Grown
  <2> QED
    BY <2>8
<1>5. f[n] \subseteq g[n]
  BY <1>1, <1>4
<1> QED
  BY <1>2, <1>3, <1>5 DEF matches, n, LeadTo

-------------------------------------------------------------------------------
(* Results *)

\* SetToSeq lists the elements of a finite set.
LEMMA SetToSeqTyped ==
  ASSUME NEW S, IsFiniteSet(S)
  PROVE  SetToSeq(S) \in [1..Cardinality(S) -> S]
<1>1. \E f \in [1..Cardinality(S) -> S] : IsInjective(f)
  <2>1. ExistsBijection(1..Cardinality(S), S)
    BY FS_CardinalityType
  <2> QED
    BY <2>1 DEF ExistsBijection, Bijection, Injection
<1> QED
  BY <1>1 DEF SetToSeq

\* Every rule has a place in a list of all rules.
LEMMA EveryRuleIsListed ==
  ASSUME NEW rules \in SetToSeqs(Rules)
  PROVE  /\ Cardinality(Rules) \in Nat /\ DOMAIN rules = 1..Cardinality(Rules)
         /\ \A n \in DOMAIN rules : rules[n] \in Rules
         /\ \A x \in Rules : \E n \in DOMAIN rules : rules[n] = x
<1> DEFINE N == Cardinality(Rules)
<1>1. N \in Nat /\ IsFiniteSet(Rules)
  BY ScoringOK, FS_CardinalityType
<1>2. rules \in [1..N -> Rules] /\ \A i, j \in 1..N : i # j => rules[i] # rules[j]
  BY DEF SetToSeqs
<1>3. rules \in Surjection(1..N, Rules)
  <2>1. IsFiniteSet(1..N) /\ Cardinality(1..N) = N
    BY <1>1, FS_Interval
  <2>2. rules \in Injection(1..N, Rules)
    BY <1>2 DEF Injection, IsInjective
  <2> HIDE DEF N
  <2>3. Cardinality(1..N) = Cardinality(Rules)
    BY <2>1 DEF N
  <2> QED
    BY <1>1, <2>1, <2>2, <2>3, FS_Injection
<1> HIDE DEF N
<1> QED
  BY <1>1, <1>2, <1>3 DEF Surjection, N

\* The rule of evaluate: none of the fired rules comes before it.
LEMMA WinnerExists ==
  ASSUME NEW rules, \A n \in DOMAIN rules : rules[n] \in Rules,
         DOMAIN rules \subseteq Nat, NEW fired \in SUBSET DOMAIN rules, fired # {}
  PROVE  \E n \in fired : /\ evaluate(rules, fired) = rules[n]
                          /\ \A m \in fired : ~Before(rules[m], rules[n])
<1> DEFINE First == {n \in fired : \A m \in fired : ~Before(rules[m], rules[n])}
           Priorities == {rules[n].priority : n \in fired}
<1>1. \A n \in fired : /\ rules[n].priority \in Nat /\ rules[n].class \in Nat
                       /\ Len(Classes) \in Nat /\ rules[n].class <= Len(Classes)
  BY ScoringOK
<1>2. PICK p \in Priorities : \A q \in Priorities : p <= q
  <2>1. Priorities \in SUBSET Nat /\ Priorities # {}
    BY <1>1
  <2> HIDE DEF Priorities
  <2> QED
    BY <2>1, Least
<1> DEFINE Rest == {Len(Classes) - rules[n].class : n \in {m \in fired : rules[m].priority = p}}
<1>3. PICK k \in Rest : \A l \in Rest : k <= l
  <2>1. Rest \in SUBSET Nat
    BY <1>1
  <2>2. Rest # {}
    BY <1>2
  <2> HIDE DEF Rest
  <2> QED
    BY <2>1, <2>2, Least
<1>4. PICK n \in fired : rules[n].priority = p /\ k = Len(Classes) - rules[n].class
  OBVIOUS
<1>5. ASSUME NEW m \in fired PROVE ~Before(rules[m], rules[n])
  <2>1. p <= rules[m].priority
    BY <1>2
  <2>2. rules[m].priority = p => k <= Len(Classes) - rules[m].class
    BY <1>3
  <2> QED
    BY SMTT(30), <1>1, <1>4, <2>1, <2>2 DEF Before
<1>6. First \in SUBSET Nat /\ First # {}
  BY <1>4, <1>5
<1>7. Min(First) \in First
  <2>1. \E x \in First : \A y \in First : x <= y
    <3> HIDE DEF First
    <3> QED
      BY <1>6, Least
  <2> HIDE DEF First
  <2> QED
    BY <2>1 DEF Min
<1>8. evaluate(rules, fired) = rules[Min(First)]
  BY DEF evaluate
<1> QED
  BY <1>7, <1>8

\* The total of n ones, as tenths.
LEMMA TotalOfOnes ==
  ASSUME NEW n \in Nat, NEW t, \A i \in 1..n : t[i] = <<10, 10>>
  PROVE  Total(t, n)[2] \in Nat \ {0} /\ Total(t, n)[1] = n * Total(t, n)[2]
<1>1. PICK s : PartialSums(s, t, n) /\ Total(t, n) = s[n]
  BY TotalIsLast
<1> DEFINE Good(i) == s[i][2] \in Nat \ {0} /\ s[i][1] = i * s[i][2]
           Bad == {i \in 0..n : ~Good(i)}
<1>2. ASSUME Bad # {} PROVE FALSE
  <2>1. PICK m \in Bad : \A i \in Bad : m <= i
    <3>1. Bad \in SUBSET Nat
      OBVIOUS
    <3> HIDE DEF Bad
    <3> QED
      BY <1>2, <3>1, Least
  <2>2. m # 0
    <3>1. Good(0)
      <4>1. s[0] = <<0, 1>>
        BY <1>1, SumSteps
      <4> QED
        BY <4>1
    <3> HIDE DEF Good
    <3> QED
      BY <2>1, <3>1
  <2>3. m \in 1..n /\ m - 1 \in 0..n /\ m - 1 < m
    BY <2>1, <2>2
  <2>4. Good(m - 1)
    <3> HIDE DEF Good
    <3> QED
      BY <2>1, <2>3
  <2>5. s[m] = Plus(s[m - 1], t[m]) /\ t[m] = <<10, 10>>
    BY <1>1, <2>3, SumSteps
  <2> DEFINE b == s[m - 1][2]
  <2>6. b \in Nat \ {0} /\ s[m - 1][1] = (m - 1) * b
    BY <2>4
  <2>7. s[m][1] = s[m - 1][1] * 10 + 10 * b /\ s[m][2] = b * 10
    BY <2>5 DEF Plus
  <2> HIDE DEF b
  <2>8. ((m - 1) * b) * 10 + 10 * b = m * (b * 10)
    BY <2>3, <2>6
  <2>9. Good(m)
    BY <2>6, <2>7, <2>8
  <2> QED
    BY <2>1, <2>9
<1>3. Good(n)
  BY <1>2
<1> QED
  BY <1>1, <1>3

\* A whole number is rounded to itself.
LEMMA RoundedWhole ==
  ASSUME NEW n \in Nat, NEW d \in Nat \ {0}
  PROVE  Rounded(<<n * d, d>>) = n
<1> DEFINE k == (2 * (n * d) + d) \div (2 * d)
<1>1. Rounded(<<n * d, d>>) = k
  BY DEF Rounded
<1>2. Rounded(<<n * d, d>>) \in 0..n
  <2>1. Bounded(<<n * d, d>>, n)
    BY DEF Bounded
  <2> QED
    BY <2>1, RoundedIsBounded
<1>3. n * d \in Nat /\ k \in Int /\ 2 * (n * d) + d < (2 * d) * (k + 1)
  OBVIOUS
<1> HIDE DEF k
<1>4. k >= n
  <2> SUFFICES ASSUME k + 1 <= n PROVE FALSE
    BY <1>3
  <2>1. (k + 1) * (2 * d) <= n * (2 * d)
    BY <1>3, Times
  <2>2. n * (2 * d) = 2 * (n * d) /\ (k + 1) * (2 * d) = (2 * d) * (k + 1)
    BY <1>3
  <2> QED
    BY <1>3, <2>1, <2>2
<1> QED
  BY <1>1, <1>2, <1>3, <1>4

\* The confidence of facts from clicked answers that are just the required ones.
LEMMA SureOfClickedFacts ==
  ASSUME NEW F, Present(F) # {}, IsFiniteSet(Present(F)), NEW sure,
         \A k \in Present(F) : sure[k] = 10
  PROVE  computeConfidence(F, sure, Present(F)) = 100
<1> DEFINE P == Cardinality(Present(F))
           keys == SetToSeq(Present(F))
           t == [i \in 1..P |-> <<sure[keys[i]], 10>>]
           sum == Total(t, P)
           shares == <<<<70 * P, P>>, <<30 * sum[1], sum[2] * P>>>>
<1>1. P \in Nat \ {0}
  BY FS_CardinalityType, FS_EmptySet
<1>2. computeConfidence(F, sure, Present(F)) = Rounded(Total(shares, 2))
  <2>1. Present(F) \cap Present(F) = Present(F)
    OBVIOUS
  <2> QED
    BY <1>1, <2>1 DEF computeConfidence
<1>3. sum[2] \in Nat \ {0} /\ sum[1] = P * sum[2]
  <2>1. ASSUME NEW i \in 1..P PROVE t[i] = <<10, 10>>
    <3>1. keys \in [1..P -> Present(F)]
      BY SetToSeqTyped
    <3>2. keys[i] \in Present(F)
      BY <3>1, Zenon
    <3> QED
      BY <3>2
  <2> HIDE DEF P, t
  <2>2. P \in Nat
    BY <1>1
  <2> QED
    BY <2>1, <2>2, TotalOfOnes
<1> HIDE DEF P, sum
<1>4. PICK s : PartialSums(s, shares, 2) /\ Total(shares, 2) = s[2]
  BY TotalIsLast
<1>5. s[0] = <<0, 1>> /\ s[1] = Plus(s[0], shares[1]) /\ s[2] = Plus(s[1], shares[2])
  BY <1>4, SumSteps
<1>6. s[1] = <<70 * P, P>>
  <2>1. Plus(<<0, 1>>, <<70 * P, P>>) = <<0 * P + (70 * P) * 1, 1 * P>>
    BY DEF Plus
  <2>2. 0 * P + (70 * P) * 1 = 70 * P /\ 1 * P = P
    BY <1>1
  <2> QED
    BY <1>5, <2>1, <2>2
<1>7. s[2] = <<(70 * P) * (sum[2] * P) + (30 * sum[1]) * P, P * (sum[2] * P)>>
  BY <1>5, <1>6 DEF Plus
<1>8. (70 * P) * (sum[2] * P) + (30 * (P * sum[2])) * P = 100 * (P * (sum[2] * P))
  BY <1>1, <1>3
<1>9. P * (sum[2] * P) \in Nat \ {0}
  BY <1>1, <1>3
<1>10. Rounded(s[2]) = 100
  BY <1>3, <1>7, <1>8, <1>9, RoundedWhole
<1> QED
  BY <1>2, <1>4, <1>10

-------------------------------------------------------------------------------
(* The invariant *)

Bodies ==
  [key : Keys, factors : FactorTables, ranges : RangeTables, createdBy : Admins,
   approvedBy : Admins \cup {Nobody}, seen : Contents \cup {Nobody}]

MatrixVersions ==
  [status : {"draft", "active", "deactivated"}, isCurrent : BOOLEAN, body : Bodies]

\* A second administrator approved the body as it is.
Approved(b) == b.approvedBy \in Admins \ {b.createdBy} /\ b.seen = Content(b)

\* An approval on record is one of the body as it is, and what is current has one.
Matrices ==
  {d \in MatrixVersions :
     /\ d.body.approvedBy # Nobody => Approved(d.body)
     /\ d.isCurrent => d.body.approvedBy # Nobody
     /\ d.status = "draft" => ~d.isCurrent}

ScoringInv == matrices \in [Groups -> Seq(Matrices)]

\* The bodies the actions write.
LEMMA BodyTyped ==
  ASSUME NEW k \in Keys, NEW c \in Contents, NEW a \in Admins
  PROVE  /\ Draft(Body(k, c, a, Nobody, Nobody)) \in Matrices
         /\ \A b \in Admins : a # b =>
              /\ Draft(Body(k, c, a, b, c)) \in Matrices
              /\ [status |-> "active", isCurrent |-> TRUE, body |-> Body(k, c, a, b, c)] \in Matrices
              /\ Body(k, c, a, b, c).approvedBy # Nobody
<1>1. /\ c.factors \in FactorTables /\ c.ranges \in RangeTables
      /\ [factors |-> c.factors, ranges |-> c.ranges] = c
  BY DEF Contents
<1>2. Body(k, c, a, Nobody, Nobody) \in Bodies /\ Body(k, c, a, Nobody, Nobody).approvedBy = Nobody
  BY <1>1 DEF Body, Bodies
<1>3. ASSUME NEW b \in Admins, a # b
      PROVE  /\ Body(k, c, a, b, c) \in Bodies /\ Approved(Body(k, c, a, b, c))
             /\ Body(k, c, a, b, c).approvedBy = b /\ b # Nobody
  BY <1>1, <1>3, ScoringOK DEF Body, Bodies, Approved, Content
<1> QED
  BY <1>2, <1>3 DEF Matrices, MatrixVersions, Draft

\* A draft takes a body without an approval, or a new version does.
LEMMA UpdateTyped ==
  ASSUME NEW docs \in [Groups -> Seq(Matrices)], NEW g \in Groups, NEW n \in DOMAIN docs[g],
         NEW b, Draft(b) \in Matrices
  PROVE  updateAsNewVersion(docs, g, n, b) \in [Groups -> Seq(Matrices)]
<1>1. docs[g] \in Seq(Matrices) /\ docs[g][n] \in Matrices
  OBVIOUS
<1>2. CASE docs[g][n].status = "draft"
  <2> DEFINE new == [docs[g][n] EXCEPT !.body = b]
  <2>1. b \in Bodies /\ (b.approvedBy # Nobody => Approved(b))
    BY DEF Draft, Matrices, MatrixVersions
  <2>2. new \in Matrices
    BY <1>1, <1>2, <2>1 DEF Matrices, MatrixVersions
  <2>3. updateAsNewVersion(docs, g, n, b) = [docs EXCEPT ![g] = [@ EXCEPT ![n] = new]]
    BY <1>1, <1>2 DEF updateAsNewVersion
  <2> HIDE DEF new
  <2> QED
    BY <1>1, <2>2, <2>3
<1>3. CASE docs[g][n].status # "draft"
  BY <1>1, <1>3 DEF updateAsNewVersion
<1> QED
  BY <1>2, <1>3

\* An approved version goes live.
LEMMA ActivateTyped ==
  ASSUME NEW docs \in [Groups -> Seq(Matrices)], NEW g \in Groups, NEW n \in DOMAIN docs[g],
         docs[g][n].body.approvedBy # Nobody
  PROVE  activate(docs, g, n) \in [Groups -> Seq(Matrices)]
<1> DEFINE old == docs[g]
           current == {m \in DOMAIN old : old[m].isCurrent}
           previous == CHOOSE m \in current : TRUE
           on(m) == [old[m] EXCEPT !.status = "active", !.isCurrent = TRUE]
           off(m) == [old[m] EXCEPT !.status = "deactivated", !.isCurrent = FALSE]
           t == [m \in DOMAIN old |-> IF m = n THEN on(m)
                                      ELSE IF current # {} /\ m = previous THEN off(m)
                                      ELSE old[m]]
<1>1. old \in Seq(Matrices) /\ DOMAIN old = 1..Len(old) /\ \A m \in DOMAIN old : old[m] \in Matrices
  OBVIOUS
<1>2. on(n) \in Matrices
  BY <1>1 DEF Matrices, MatrixVersions, Approved
<1>3. \A m \in DOMAIN old : off(m) \in Matrices
  BY <1>1 DEF Matrices, MatrixVersions, Approved
<1>4. activate(docs, g, n) = [docs EXCEPT ![g] = t]
  BY DEF activate
<1> HIDE DEF on, off, previous
<1>5. t \in Seq(Matrices)
  BY <1>1, <1>2, <1>3
<1> QED
  BY <1>4, <1>5

\* A version makes way.
LEMMA DeactivateTyped ==
  ASSUME NEW docs \in [Groups -> Seq(Matrices)], NEW g \in Groups, NEW n \in DOMAIN docs[g]
  PROVE  deactivate(docs, g, n) \in [Groups -> Seq(Matrices)]
<1> DEFINE old == docs[g][n]
           off == [old EXCEPT !.status = "deactivated", !.isCurrent = FALSE]
<1>1. docs[g] \in Seq(Matrices) /\ old \in Matrices /\ old \in MatrixVersions
  <2>1. docs[g] \in Seq(Matrices) /\ old \in Matrices
    OBVIOUS
  <2> QED
    BY <2>1 DEF Matrices
<1>2. off \in Matrices
  BY <1>1 DEF Matrices, MatrixVersions, Approved
<1>3. deactivate(docs, g, n) = [docs EXCEPT ![g] = [docs[g] EXCEPT ![n] = off]]
  BY <1>1 DEF deactivate, MatrixVersions
<1> HIDE DEF off
<1> QED
  BY <1>1, <1>2, <1>3

\* The approval of a draft by another administrator than its author.
WithApproval(docs, g, n, a) ==
  [docs EXCEPT ![g][n].body.approvedBy = a, ![g][n].body.seen = Content(docs[g][n].body)]

LEMMA ApproveTyped ==
  ASSUME NEW docs \in [Groups -> Seq(Matrices)], NEW g \in Groups, NEW n \in DOMAIN docs[g],
         NEW a \in Admins, docs[g][n].status = "draft", docs[g][n].body.createdBy # a
  PROVE  WithApproval(docs, g, n, a) \in [Groups -> Seq(Matrices)]
<1> DEFINE old == docs[g][n]
           body == [old.body EXCEPT !.approvedBy = a, !.seen = Content(old.body)]
           new == [old EXCEPT !.body = body]
<1>1. docs[g] \in Seq(Matrices) /\ old \in Matrices /\ old \in MatrixVersions /\ old.body \in Bodies
  <2>1. docs[g] \in Seq(Matrices) /\ old \in Matrices
    OBVIOUS
  <2> QED
    BY <2>1 DEF Matrices, MatrixVersions
<1>2. Content(old.body) \in Contents
  BY <1>1 DEF Bodies, Content, Contents
<1>3. body \in Bodies /\ body.approvedBy = a /\ Approved(body)
  BY <1>1, <1>2 DEF Bodies, Approved, Content
<1>4. new \in Matrices
  BY <1>1, <1>3, ScoringOK DEF Matrices, MatrixVersions
<1>5. WithApproval(docs, g, n, a) = [docs EXCEPT ![g] = [docs[g] EXCEPT ![n] = new]]
  BY ZenonT(30), <1>1 DEF WithApproval, MatrixVersions, Bodies
<1> HIDE DEF new
<1> QED
  BY <1>1, <1>4, <1>5

LEMMA InitHoldsInv == Init => ScoringInv
BY DEF Init, ScoringInv

\* Every action keeps the invariant.
LEMMA NextKeepsInv == ScoringInv /\ [Next]_matrices => ScoringInv'
<1> SUFFICES ASSUME ScoringInv, [Next]_matrices PROVE ScoringInv'
  OBVIOUS
<1> USE DEF ScoringInv
<1>1. ASSUME NEW g \in Groups, NEW a \in Admins, Create(g, a) PROVE ScoringInv'
  <2>1. PICK k \in Keys, c \in Contents :
          matrices' = createDraft(matrices, g, Body(k, c, a, Nobody, Nobody))
    BY <1>1 DEF Create
  <2>2. Draft(Body(k, c, a, Nobody, Nobody)) \in Matrices
    BY BodyTyped
  <2> QED
    BY <2>1, <2>2 DEF createDraft
<1>2. ASSUME NEW g \in Groups, NEW n \in DOMAIN matrices[g], Activate(g, n) PROVE ScoringInv'
  BY <1>2, ActivateTyped DEF Activate
<1>3. ASSUME NEW g \in Groups, NEW n \in DOMAIN matrices[g], Deactivate(g, n) PROVE ScoringInv'
  BY <1>3, DeactivateTyped DEF Deactivate
<1>4. ASSUME NEW g \in Groups, NEW n \in DOMAIN matrices[g], NEW a \in Admins, Update(g, n, a)
      PROVE  ScoringInv'
  <2>1. PICK c \in Contents :
          matrices' = updateAsNewVersion(matrices, g, n,
                                         Body(matrices[g][n].body.key, c, a, Nobody, Nobody))
    BY <1>4, Zenon DEF Update
  <2>2. matrices[g][n].body.key \in Keys
    <3>1. matrices[g] \in Seq(Matrices)
      OBVIOUS
    <3>2. matrices[g][n] \in Matrices
      BY <3>1
    <3> QED
      BY <3>2 DEF Matrices, MatrixVersions, Bodies
  <2>3. Draft(Body(matrices[g][n].body.key, c, a, Nobody, Nobody)) \in Matrices
    BY <2>2, BodyTyped
  <2> QED
    BY <2>1, <2>3, UpdateTyped
<1>5. ASSUME NEW g \in Groups, NEW n \in DOMAIN matrices[g], NEW a \in Admins, Approve(g, n, a)
      PROVE  ScoringInv'
  <2>1. /\ matrices[g][n].status = "draft" /\ matrices[g][n].body.createdBy # a
        /\ matrices' = WithApproval(matrices, g, n, a)
    BY <1>5 DEF Approve, WithApproval
  <2> QED
    BY <2>1, ApproveTyped
<1>6. ASSUME NEW a \in Admins, NEW b \in Admins, ApplySheet(a, b) PROVE ScoringInv'
  <2>1. PICK k \in Keys, c \in Contents, g \in Groups :
          /\ a # b
          /\ \/ matrices' = [matrices EXCEPT ![g] =
                  <<[status |-> "active", isCurrent |-> TRUE, body |-> Body(k, c, a, b, c)]>>]
             \/ \E n \in DOMAIN matrices[g] :
                  /\ <<g, n>> \in Current(matrices)
                  /\ matrices' = activate(updateAsNewVersion(matrices, g, n, Body(k, c, a, b, c)),
                                          g, Len(matrices[g]) + 1)
    BY <1>6 DEF ApplySheet
  <2>2. /\ Draft(Body(k, c, a, b, c)) \in Matrices
        /\ [status |-> "active", isCurrent |-> TRUE, body |-> Body(k, c, a, b, c)] \in Matrices
        /\ Body(k, c, a, b, c).approvedBy # Nobody
    BY <2>1, BodyTyped
  <2>3. ASSUME NEW n \in DOMAIN matrices[g], <<g, n>> \in Current(matrices),
               matrices' = activate(updateAsNewVersion(matrices, g, n, Body(k, c, a, b, c)),
                                    g, Len(matrices[g]) + 1)
        PROVE  ScoringInv'
    <3> DEFINE docs == updateAsNewVersion(matrices, g, n, Body(k, c, a, b, c))
               last == Len(matrices[g]) + 1
    <3>1. docs \in [Groups -> Seq(Matrices)]
      BY <2>2, UpdateTyped
    <3>2. matrices[g][n].status = "active"
      BY <2>3 DEF Current, At
    <3>3. docs[g] = Append(matrices[g], Draft(Body(k, c, a, b, c)))
      BY <3>2 DEF updateAsNewVersion
    <3>4. last \in DOMAIN docs[g] /\ docs[g][last].body.approvedBy # Nobody
      BY <2>2, <3>3 DEF Draft
    <3> HIDE DEF docs, last
    <3> QED
      BY <2>3, <3>1, <3>4, ActivateTyped DEF docs, last
  <2>4. ASSUME matrices' = [matrices EXCEPT ![g] =
                  <<[status |-> "active", isCurrent |-> TRUE, body |-> Body(k, c, a, b, c)]>>]
        PROVE  ScoringInv'
    <3> DEFINE d == [status |-> "active", isCurrent |-> TRUE, body |-> Body(k, c, a, b, c)]
    <3>1. d \in Matrices
      BY <2>2
    <3> HIDE DEF d
    <3>2. <<d>> \in Seq(Matrices)
      BY <3>1
    <3>3. matrices' = [matrices EXCEPT ![g] = <<d>>]
      BY <2>4 DEF d
    <3> QED
      BY <3>2, <3>3
  <2> QED
    BY <2>1, <2>3, <2>4, Zenon
<1>7. CASE UNCHANGED matrices
  BY <1>7
<1> QED
  BY <1>1, <1>2, <1>3, <1>4, <1>5, <1>6, <1>7 DEF Next

-------------------------------------------------------------------------------
(* Theorems *)

\* Every matrix, in every reachable state, is well-typed, carries no approval but one of the body as
\* it is, and is current only with one.
THEOREM TypeCorrect == Spec => []ScoringInv
<1> QED
  BY InitHoldsInv, NextKeepsInv, PTL DEF Spec

\* A current matrix, under the invariant.
LEMMA CurrentTyped ==
  ASSUME ScoringInv, NEW v \in Current(matrices)
  PROVE  At(matrices, v) \in Matrices /\ At(matrices, v).isCurrent
         /\ Content(At(matrices, v).body) \in Contents
<1>1. At(matrices, v).isCurrent /\ v \in Versions(matrices)
  BY DEF Current
<1>2. PICK g \in Groups : \E n \in DOMAIN matrices[g] : v = <<g, n>>
  BY <1>1 DEF Versions, ScoringInv
<1>3. At(matrices, v) \in Matrices
  BY <1>2 DEF At, ScoringInv
<1> QED
  BY <1>1, <1>3 DEF Matrices, MatrixVersions, Bodies, Content, Contents

\* The code's own four-eyes rule: approve wants another administrator than the author, and no path
\* to an active matrix - edit, copy, sheet - carries an approval over to another content.
THEOREM ActiveMatricesWereApproved == Spec => []MatrixFourEyes
<1>1. ScoringInv => MatrixFourEyes
  <2> SUFFICES ASSUME ScoringInv, NEW v \in Current(matrices)
               PROVE  LET b == At(matrices, v).body IN
                      b.approvedBy \in Admins \ {b.createdBy} /\ b.seen = Content(b)
    BY DEF MatrixFourEyes
  <2> QED
    BY CurrentTyped DEF Matrices, MatrixVersions, Approved
<1> QED
  BY <1>1, TypeCorrect, PTL

\* The schema of a matrix is strong enough for compute.ts: whatever the number of factors and
\* classes and whatever the scales, the weighted sum needs no bounds, and one class fits it.
THEOREM AcceptedMatricesScoreExactly == Spec => []RefinedIsExact
<1>1. ScoringInv => RefinedIsExact
  <2> SUFFICES ASSUME ScoringInv, NEW v \in Current(matrices),
                      Refined(Content(At(matrices, v).body)),
                      NEW r \in Readings(Content(At(matrices, v).body))
               PROVE  LET c == Content(At(matrices, v).body) IN
                      /\ ~NaN(c, r) /\ Rounded(Raw(c, r)) \in 0..Top
                      /\ Cardinality(Fitting(c, r)) = 1
    BY DEF RefinedIsExact
  <2>1. Content(At(matrices, v).body) \in Contents
    BY CurrentTyped
  <2> QED
    BY <2>1, RefinedExact
<1> QED
  BY <1>1, TypeCorrect, PTL

\* What ResultIsDetermined says of one list of the rules: the winner is a fired rule of the lowest
\* priority and, among those, of the most severe class.
LEMMA WinnerIsStrongest ==
  ASSUME NEW F, NEW rules \in SetToSeqs(Rules)
  PROVE  LET S         == {x \in Rules : matches(x.trigger, F)}
             strongest == {x \in S : \A y \in S : x.priority <= y.priority}
         IN /\ Fired(rules, F) # {} <=> S # {}
            /\ S # {} => evaluate(rules, Fired(rules, F)).class = Max({x.class : x \in strongest})
<1> DEFINE S         == {x \in Rules : matches(x.trigger, F)}
           strongest == {x \in S : \A y \in S : x.priority <= y.priority}
           classes   == {x.class : x \in strongest}
           fired     == Fired(rules, F)
<1>1. /\ DOMAIN rules \subseteq Nat
      /\ \A n \in DOMAIN rules : rules[n] \in Rules
      /\ \A x \in Rules : \E n \in DOMAIN rules : rules[n] = x
  BY EveryRuleIsListed
<1>2. fired \in SUBSET DOMAIN rules /\ \A n \in fired : rules[n] \in S
  BY <1>1 DEF Fired
<1>3. \A x \in S : \E n \in fired : rules[n] = x
  BY <1>1 DEF Fired
<1>4. ASSUME S # {} PROVE evaluate(rules, fired).class = Max(classes)
  <2>1. fired # {}
    BY <1>3, <1>4
  <2> HIDE DEF fired, S
  <2>2. PICK n \in fired : /\ evaluate(rules, fired) = rules[n]
                           /\ \A m \in fired : ~Before(rules[m], rules[n])
    BY <1>1, <1>2, <2>1, WinnerExists
  <2> DEFINE w == rules[n]
  <2>3. w \in S /\ \A y \in S : ~Before(y, w)
    BY <1>2, <1>3, <2>2
  <2>4. \A y \in S : y.priority \in Nat /\ y.class \in Nat
    BY ScoringOK DEF S
  <2> HIDE DEF w
  <2>5. w \in strongest
    BY <2>3, <2>4 DEF Before
  <2>6. \A x \in strongest : x.class <= w.class
    BY <2>3, <2>4 DEF Before
  <2>7. w.class \in classes /\ \A k \in classes : k \in Nat /\ w.class >= k
    BY <2>3, <2>4, <2>5, <2>6
  <2> HIDE DEF classes
  <2>8. Max(classes) \in classes /\ Max(classes) >= w.class
    BY <2>7 DEF Max
  <2>9. Max(classes) = w.class
    BY <2>7, <2>8
  <2> QED
    BY <2>2, <2>9 DEF w
<1> QED
  BY <1>2, <1>3, <1>4

\* A result of simulate depends on the facts and the matrix alone: not on the order in which the
\* database or the snapshot lists the rules, and more facts, or the same in another spelling, take
\* no rule back.
THEOREM ResultsAreDetermined == Spec => []ResultIsDetermined
<1>1. ResultIsDetermined
  <2> SUFFICES ASSUME NEW v \in Current(matrices), NEW F \in FactSets
               PROVE
       LET c == Content(At(matrices, v).body)
           S == {x \in Rules : matches(x.trigger, F)}
           strongest == {x \in S : \A y \in S : x.priority <= y.priority}
           clicked   == [k \in DOMAIN F |-> 10]
           limits    == [professionalConsultBelow |-> 100, mandatoryReviewBelow |-> 100]
       IN /\ \A rules \in SetToSeqs(Rules), r \in Readings(c) :
               LET result == simulate(c, r, rules, F, clicked, Present(F), limits) IN
               /\ result.ruleDriven <=> S # {}
               /\ S # {} => result.class = Max({x.class : x \in strongest})
               /\ result.errorReview <=> result.zero /\ S = {}
               /\ Present(F) # {} => ~result.professionalConsult /\ ~result.mandatoryReview
          /\ \A G \in FactSets :
               (\A k \in DOMAIN F : k \in DOMAIN G /\ normalizeValue(F[k]) = normalizeValue(G[k]))
                 => \A x \in S : matches(x.trigger, G)
    BY Zenon DEF ResultIsDetermined
  <2> DEFINE c == Content(At(matrices, v).body)
             S == {x \in Rules : matches(x.trigger, F)}
             strongest == {x \in S : \A y \in S : x.priority <= y.priority}
             clicked   == [k \in DOMAIN F |-> 10]
             limits    == [professionalConsultBelow |-> 100, mandatoryReviewBelow |-> 100]
  <2>1. ASSUME NEW rules \in SetToSeqs(Rules), NEW r \in Readings(c)
        PROVE  LET result == simulate(c, r, rules, F, clicked, Present(F), limits) IN
               /\ result.ruleDriven <=> S # {}
               /\ S # {} => result.class = Max({x.class : x \in strongest})
               /\ result.errorReview <=> result.zero /\ S = {}
               /\ Present(F) # {} => ~result.professionalConsult /\ ~result.mandatoryReview
    <3> DEFINE fired == Fired(rules, F)
               sure == computeConfidence(F, clicked, Present(F))
               result == simulate(c, r, rules, F, clicked, Present(F), limits)
    <3>1. /\ fired # {} <=> S # {}
          /\ S # {} => evaluate(rules, fired).class = Max({x.class : x \in strongest})
      BY WinnerIsStrongest
    <3>2. Present(F) # {} => sure = 100
      <4>1. Present(F) \subseteq FactKeys /\ IsFiniteSet(FactKeys)
        BY ScoringOK DEF Present
      <4>2. IsFiniteSet(Present(F))
        BY <4>1, FS_Subset
      <4>3. \A k \in Present(F) : clicked[k] = 10
        BY DEF Present
      <4> HIDE DEF clicked
      <4> QED
        BY <4>2, <4>3, SureOfClickedFacts
    <3>3. /\ result.ruleDriven = (fired # {})
          /\ fired # {} => result.class = evaluate(rules, fired).class
          /\ result.errorReview = (result.zero /\ fired = {})
          /\ result.professionalConsult = (sure < 100)
          /\ result.mandatoryReview = (sure < 100)
      BY DEF simulate
    <3>4. Present(F) # {} => ~result.professionalConsult /\ ~result.mandatoryReview
      <4> HIDE DEF sure, result
      <4>1. ~(100 < 100)
        OBVIOUS
      <4> QED
        BY <3>2, <3>3, <4>1, Zenon
    <3>5. (result.ruleDriven <=> S # {}) /\ (result.errorReview <=> result.zero /\ S = {})
      <4> HIDE DEF fired, S, result
      <4> QED
        BY <3>1, <3>3, Zenon
    <3>6. S # {} => result.class = Max({x.class : x \in strongest})
      <4> HIDE DEF fired, S, strongest, result
      <4> QED
        BY <3>1, <3>3, Zenon
    <3> HIDE DEF S, strongest
    <3> QED
      BY <3>4, <3>5, <3>6, Zenon
  <2>2. ASSUME NEW G \in FactSets,
               \A k \in DOMAIN F : k \in DOMAIN G /\ normalizeValue(F[k]) = normalizeValue(G[k])
        PROVE  \A x \in S : matches(x.trigger, G)
    <3>1. Extends(G, F)
      BY <2>2 DEF Extends
    <3>2. \A x \in S : IsCondition(x.trigger)
      BY ScoringOK
    <3> QED
      BY <3>1, <3>2, ConditionsPersist
  <2> QED
    BY <2>1, <2>2
<1> QED
  BY <1>1, PTL
===============================================================================
