-------------------------- MODULE SlotAssemblyProofs --------------------------
(***************************************************************************)
(* What holds of the evidence of any question, over any corpus, whatever   *)
(* the words of its rows are worth.                                        *)
(***************************************************************************)
EXTENDS SlotAssembly, FiniteSetTheorems, TLAPS

----------------------------------------------------------------------------
(* Numbers.                                                                *)

\* A set of naturals has a least element.
LEMMA NatMin ==
  ASSUME NEW T, T \subseteq Nat, T # {}
  PROVE  \E x \in T : \A y \in T : x <= y
<1> DEFINE R == OpToRel(<, Nat)
<1>1. IsWellFoundedOn(R, Nat)
  BY NatLessThanWellFounded
<1>2. \A x, y \in Nat : y < x => <<y, x>> \in R
  BY DEF OpToRel
<1> HIDE DEF R
<1>3. \E x \in T : \A y \in T : ~ (<<y, x>> \in R)
  BY <1>1, WFMin
<1>4. PICK x \in T : \A y \in T : ~ (<<y, x>> \in R)
  BY <1>3, Zenon
<1>5. \A y \in T : ~ (y < x)
  BY <1>2, <1>4
<1>6. QED
  BY <1>5

\* A set of integers below a bound has a greatest element.
LEMMA MaxIs ==
  ASSUME NEW T, T # {}, NEW b \in Int, \A x \in T : x \in Int /\ x <= b
  PROVE  Max(T) \in T /\ \A y \in T : y <= Max(T)
<1> DEFINE Back(x) == b - x
           back    == {Back(x) : x \in T}
<1>1. back \subseteq Nat /\ back # {}
  OBVIOUS
<1>2. PICK z \in back : \A y \in back : z <= y
  <2> HIDE DEF back
  <2> QED  BY <1>1, NatMin
<1>3. PICK m \in T : z = Back(m)
  OBVIOUS
<1>4. \A y \in T : y <= m
  <2> TAKE y \in T
  <2>1. z <= Back(y)
    BY <1>2
  <2> QED  BY <2>1, <1>3
<1>5. QED
  BY <1>4 DEF Max

LEMMA WholeIs == Whole = 1000000
BY DEF Whole

LEMMA ScoresAre == \A x : x \in Scores <=> x \in Nat /\ x <= 1000000
<1>1. ASSUME NEW n \in Nat
      PROVE  \A x : x \in 0..n <=> x \in Nat /\ x <= n
  OBVIOUS
<1>2. Whole \in Nat
  BY WholeIs, SMT
<1>3. \A x : x \in Scores <=> x \in Nat /\ x <= Whole
  BY <1>1, <1>2 DEF Scores
<1>4. QED
  BY <1>3, WholeIs, SMT

LEMMA ClampIs ==
  ASSUME NEW x \in Int
  PROVE  Clamp(x) = IF x < 0 THEN 0 ELSE IF x > 1000000 THEN 1000000 ELSE x
<1>1. ASSUME NEW a \in Int, NEW b \in Int
      PROVE  /\ Min({a, b}) = IF a <= b THEN a ELSE b
             /\ Max({a, b}) = IF a >= b THEN a ELSE b
  BY DEF Min, Max
<1>2. Whole = 1000000
  BY DEF Whole
<1> DEFINE low == Min({Whole, x})
<1>3. low = IF x > 1000000 THEN 1000000 ELSE x
  BY <1>1, <1>2
<1>4. Clamp(x) = Max({0, low})
  BY DEF Clamp
<1> HIDE DEF low
<1>5. low \in Int
  BY <1>3
<1>6. Max({0, low}) = IF 0 >= low THEN 0 ELSE low
  BY <1>1, <1>5
<1>7. QED
  BY <1>3, <1>4, <1>6

LEMMA ClampType ==
  ASSUME NEW x \in Int
  PROVE  Clamp(x) \in Scores
BY ClampIs, ScoresAre, SMT

LEMMA PartIs ==
  ASSUME NEW x \in Scores, NEW p \in Nat, p <= 100
  PROVE  /\ Part(x, p) \in Scores
         /\ 100 * Part(x, p) <= x * p + 50 /\ x * p - 50 <= 100 * Part(x, p)
<1>1. x \in Nat /\ x <= 1000000
  BY ScoresAre, SMT
<1> DEFINE y == x * p
<1>2. y \in Nat /\ y <= 100 * x
  BY <1>1
<1> HIDE DEF y
<1>3. Part(x, p) = (y + 50) \div 100
  BY DEF Part, y
<1>4. /\ Part(x, p) \in Int
      /\ 100 * Part(x, p) <= y + 50 /\ y + 50 < 100 * Part(x, p) + 100
  BY <1>2, <1>3
<1>5. Part(x, p) \in Nat /\ Part(x, p) <= 1000000
  BY <1>1, <1>2, <1>4
<1>6. QED
  BY <1>2, <1>4, <1>5, ScoresAre, SMT DEF y

----------------------------------------------------------------------------
(* How well a row fits what a question says about time.                    *)

\* What a constraint is worth for a row.
Fit(k, r, q) == IF k.ambiguous THEN 18 ELSE Fits(k, RowInterval(r, q), r.kind)

PositiveFits(r, q) == {0} \cup {Fit(k, r, q) : k \in {c \in Scored(q) : ~ c.negative}}
NegativeFits(r, q) == {0} \cup {Fit(k, r, q) : k \in {c \in Scored(q) : c.negative /\ ~ c.ambiguous}}

LEMMA ScoredAre ==
  ASSUME NEW q \in Query, NEW k \in Scored(q)
  PROVE  k \in Constraint
BY DEF Scored, Query

LEMMA IntervalType ==
  ASSUME NEW r \in Row, NEW q \in Query
  PROVE  RowInterval(r, q).from \in Nat /\ RowInterval(r, q).to \in Nat
BY DEF RowInterval, Row

LEMMA FitType ==
  ASSUME NEW r \in Row, NEW q \in Query, NEW k
  PROVE  Fit(k, r, q) \in Nat /\ Fit(k, r, q) <= 100
<1> DEFINE t == RowInterval(r, q)
<1>1. FitsDay(k, t, r.kind) \in {100, 78, 62, 34, 18, 2}
  BY DEF FitsDay
<1>2. FitsMonth(k, t) \in {86, 26, 2} /\ FitsYear(k, t) \in {72, 4}
  BY DEF FitsMonth, FitsYear
<1>3. FitsRange(k, t) \in {78, 68, 25, 3}
  BY DEF FitsRange
<1>4. Fits(k, t, r.kind) \in {100, 86, 78, 72, 68, 62, 34, 26, 25, 18, 4, 3, 2}
  BY <1>1, <1>2, <1>3 DEF Fits
<1>5. Fit(k, r, q) \in {100, 86, 78, 72, 68, 62, 34, 26, 25, 18, 4, 3, 2}
  BY <1>4 DEF Fit
<1>6. QED
  BY <1>5

\* The best fit of several is one of them.
LEMMA FitsAreBounded ==
  ASSUME NEW r \in Row, NEW q \in Query
  PROVE  \A T \in {PositiveFits(r, q), NegativeFits(r, q)} :
           /\ Max(T) \in T /\ Max(T) \in Nat /\ Max(T) <= 100
           /\ \A y \in T : y <= Max(T)
<1> TAKE T \in {PositiveFits(r, q), NegativeFits(r, q)}
<1>1. T # {} /\ \A y \in T : y \in Nat /\ y <= 100
  BY FitType DEF PositiveFits, NegativeFits
<1>2. Max(T) \in T /\ \A y \in T : y <= Max(T)
  BY <1>1, MaxIs
<1>3. QED
  BY <1>1, <1>2

LEMMA WeightOfFits ==
  ASSUME NEW a \in Nat, NEW b \in Nat, a <= 100, b <= 100
  PROVE  a * (100 - b) \in Nat /\ a * (100 - b) <= 10000
<1>1. 100 - b \in Nat /\ 100 - b <= 100
  OBVIOUS
<1>2. ASSUME NEW c \in Nat, c <= 100
      PROVE  a * c \in Nat /\ a * c <= 10000
  BY <1>2
<1>3. QED
  BY <1>1, <1>2

LEMMA MaxOfTwo ==
  ASSUME NEW a \in Int, NEW b \in Int
  PROVE  Max({a, b}) = IF a >= b THEN a ELSE b
BY DEF Max

LEMMA PrecisionIs ==
  ASSUME NEW r \in Row, NEW q \in Query
  PROVE  LET contested == q.contested /\ r.kind \in {"conflict", "revision"}
             floor     == IF contested THEN 8000 ELSE 0
             weight    == Max(PositiveFits(r, q)) * (100 - Max(NegativeFits(r, q)))
         IN  Precision(r, q) =
               IF r.kind = "filing" /\ ~ AsksFiling(q) THEN 300 ELSE
               IF RowInterval(r, q).from # 0  THEN Max({floor, weight}) ELSE
               IF contested   THEN floor ELSE
               IF r.kind = "unknown" THEN 200 ELSE 800
BY DEF Precision, PositiveFits, NegativeFits, Fit

LEMMA WeightType ==
  ASSUME NEW r \in Row, NEW q \in Query
  PROVE  TemporalWeight(r, q) \in Nat /\ TemporalWeight(r, q) <= 10000
<1> DEFINE weight == Max(PositiveFits(r, q)) * (100 - Max(NegativeFits(r, q)))
<1>1. weight \in Nat /\ weight <= 10000
  BY FitsAreBounded, WeightOfFits
<1>2. \A floor \in {0, 8000} : Max({floor, weight}) \in {floor, weight}
  BY <1>1, MaxOfTwo
<1>3. Precision(r, q) \in {300, 0, 8000, weight, 200, 800}
  BY <1>2, PrecisionIs
<1> HIDE DEF weight
<1>4. QED
  BY <1>1, <1>3 DEF TemporalWeight

\* A row whose time is asked for is worth its best fit, less what is ruled out.
LEMMA DatedWeight ==
  ASSUME NEW r \in Row, NEW q \in Query, HasValidTime(r), ~ q.contested, ~ AsksFiling(q)
  PROVE  /\ RowInterval(r, q) = [from |-> r.from, to |-> r.to]
         /\ TemporalWeight(r, q) = Max(PositiveFits(r, q)) * (100 - Max(NegativeFits(r, q)))
<1> DEFINE weight == Max(PositiveFits(r, q)) * (100 - Max(NegativeFits(r, q)))
<1>1. weight \in Nat
  BY FitsAreBounded, WeightOfFits
<1>2. RowInterval(r, q) = [from |-> r.from, to |-> r.to]
  BY DEF RowInterval
<1>3. Precision(r, q) = Max({0, weight})
  BY <1>2, PrecisionIs DEF HasValidTime
<1> HIDE DEF weight
<1>4. Max({0, weight}) = weight
  BY <1>1, MaxOfTwo
<1>5. TemporalWeight(r, q) = weight
  BY <1>3, <1>4 DEF TemporalWeight
<1>6. QED
  BY <1>2, <1>5 DEF weight

\* A question whose times are well formed.
Question(q) == q \in Query /\ \A k \in q.constraints : WellFormed(k)

RulesOut(q, k) == \E n \in q.constraints : n.negative /\ ~ n.ambiguous /\ IsExactMatch(n, k)

\* A row of the day that is asked for keeps a fifth of its weight, whatever else
\* is ruled out.
LEMMA ExactWeight ==
  ASSUME NEW r \in Row, NEW q, Question(q), HasValidTime(r), ~ q.contested, ~ AsksFiling(q),
         NEW k \in Positive(q), IsExactMatch(k, r), ~ RulesOut(q, k)
  PROVE  /\ TemporalWeight(r, q) >= 2200 /\ ~ RuledOut(r, q)
         /\ (\A n \in q.constraints : ~ n.negative) => TemporalWeight(r, q) = 10000
<1>1. q \in Query /\ k \in q.constraints /\ k.grain = "day" /\ ~ k.negative /\ ~ k.ambiguous
  BY DEF Question, Positive
<1>2. k \in Constraint /\ k.from \in Nat /\ k.from = k.to
  BY <1>1 DEF Question, WellFormed, Query, Constraint
<1>3. r.from = k.from /\ r.to = k.from
  BY <1>1, <1>2 DEF IsExactMatch
<1> DEFINE t == RowInterval(r, q)
<1>4. t.from = k.from /\ t.to = k.from
  BY <1>1, <1>3, DatedWeight
<1>5. Scored(q) = q.constraints
  BY <1>1 DEF Scored
<1>6. Max(PositiveFits(r, q)) = 100
  <2>1. Fit(k, r, q) = 100
    BY <1>1, <1>2, <1>4 DEF Fit, Fits, FitsDay
  <2>2. 100 \in PositiveFits(r, q)
    BY <1>1, <1>5, <2>1 DEF PositiveFits
  <2>3. QED
    BY <1>1, <2>2, FitsAreBounded
<1>7. ASSUME NEW n \in q.constraints, n.negative, ~ n.ambiguous
      PROVE  Fit(n, r, q) <= 78
  <2>1. n \in Constraint /\ WellFormed(n) /\ ~ IsExactMatch(n, k)
    BY <1>1, <1>7 DEF Question, Query, RulesOut
  <2>2. Fit(n, r, q) = Fits(n, t, r.kind)
    BY <1>7 DEF Fit
  <2>3. CASE n.grain = "day"
    <3>1. n.from # k.from
      BY <1>2, <2>1, <2>3 DEF IsExactMatch, WellFormed
    <3>2. FitsDay(n, t, r.kind) \in {78, 62, 34, 18, 2}
      BY <1>4, <3>1 DEF FitsDay
    <3>3. QED
      BY <2>2, <2>3, <3>2 DEF Fits
  <2>4. CASE n.grain = "month"
    <3>1. ~ SameMonth(t.from, n.from)
      BY <1>2, <1>4, <2>1, <2>4 DEF IsExactMatch, WellFormed, SameMonth
    <3>2. FitsMonth(n, t) \in {26, 2}
      BY <3>1 DEF FitsMonth
    <3>3. QED
      BY <2>2, <2>4, <3>2 DEF Fits
  <2>5. CASE n.grain \notin {"day", "month"}
    <3>1. FitsYear(n, t) \in {72, 4} /\ FitsRange(n, t) \in {78, 68, 25, 3}
      BY DEF FitsYear, FitsRange
    <3>2. Fits(n, t, r.kind) \in {78, 72, 68, 25, 4, 3}
      BY <2>5, <3>1 DEF Fits
    <3>3. QED
      BY <2>2, <3>2
  <2>6. QED
    BY <2>3, <2>4, <2>5
<1>8. Max(NegativeFits(r, q)) \in Nat /\ Max(NegativeFits(r, q)) <= 78
  <2>1. \A y \in NegativeFits(r, q) : y <= 78
    BY <1>5, <1>7 DEF NegativeFits
  <2>2. QED
    BY <1>1, <2>1, FitsAreBounded
<1>9. TemporalWeight(r, q) >= 2200
  BY <1>1, <1>6, <1>8, DatedWeight
<1>10. ~ RuledOut(r, q)
  <2>1. \A n \in q.constraints : IsExactMatch(n, t) <=> IsExactMatch(n, k)
    BY <1>2, <1>4 DEF IsExactMatch
  <2>2. QED
    BY <2>1 DEF RuledOut, RulesOut
<1>11. ASSUME \A n \in q.constraints : ~ n.negative
       PROVE  TemporalWeight(r, q) = 10000
  <2>1. \A y \in NegativeFits(r, q) : y = 0
    BY <1>5, <1>11 DEF NegativeFits
  <2>2. Max(NegativeFits(r, q)) = 0
    BY <1>1, <2>1, FitsAreBounded
  <2>3. QED
    BY <1>1, <1>6, <2>2, DatedWeight
<1>12. QED
  BY <1>9, <1>10, <1>11

\* No other row of a question about one day is worth more than one of its month.
LEMMA OtherWeight ==
  ASSUME NEW r \in Row, NEW q, Question(q), HasValidTime(r), ~ q.contested, ~ AsksFiling(q),
         NEW k, Positive(q) = {k}, ~ IsExactMatch(k, r)
  PROVE  TemporalWeight(r, q) <= 8600
<1>1. q \in Query /\ k \in q.constraints /\ k.grain = "day"
  BY DEF Question, Positive
<1>2. k.from = k.to
  BY <1>1 DEF Question, WellFormed
<1> DEFINE t == RowInterval(r, q)
<1>3. t = [from |-> r.from, to |-> r.to]
  BY <1>1, DatedWeight
<1>4. Scored(q) = q.constraints
  BY <1>1 DEF Scored
<1>5. ASSUME NEW n \in q.constraints, ~ n.negative
      PROVE  Fit(n, r, q) <= 86
  <2>1. CASE n.ambiguous
    BY <2>1 DEF Fit
  <2>2. CASE ~ n.ambiguous /\ n.grain = "day"
    <3>1. n = k
      BY <1>5, <2>2 DEF Positive
    <3>2. ~ (t.from = k.from /\ t.to = k.to)
      BY <1>1, <1>3 DEF IsExactMatch
    <3>3. FitsDay(n, t, r.kind) \in {78, 62, 34, 18, 2}
      BY <3>1, <3>2 DEF FitsDay
    <3>4. QED
      BY <2>2, <3>3 DEF Fit, Fits
  <2>3. CASE ~ n.ambiguous /\ n.grain # "day"
    <3>1. /\ FitsMonth(n, t) \in {86, 26, 2} /\ FitsYear(n, t) \in {72, 4}
          /\ FitsRange(n, t) \in {78, 68, 25, 3}
      BY DEF FitsMonth, FitsYear, FitsRange
    <3>2. Fits(n, t, r.kind) \in {86, 78, 72, 68, 26, 25, 4, 3, 2}
      BY <2>3, <3>1 DEF Fits
    <3>3. QED
      BY <2>3, <3>2 DEF Fit
  <2>4. QED
    BY <2>1, <2>2, <2>3
<1>6. Max(PositiveFits(r, q)) \in Nat /\ Max(PositiveFits(r, q)) <= 86
  <2>1. \A y \in PositiveFits(r, q) : y <= 86
    BY <1>4, <1>5 DEF PositiveFits
  <2>2. QED
    BY <1>1, <2>1, FitsAreBounded
<1>7. Max(NegativeFits(r, q)) \in Nat /\ Max(NegativeFits(r, q)) <= 100
  BY <1>1, FitsAreBounded
<1>8. ASSUME NEW a \in Nat, a <= 86, NEW b \in Nat, b <= 100
      PROVE  a * (100 - b) <= 8600
  <2>1. 100 - b \in Nat /\ 100 - b <= 100
    BY <1>8
  <2>2. ASSUME NEW c \in Nat, c <= 100
        PROVE  a * c <= 8600
    BY <1>8, <2>2
  <2>3. QED
    BY <2>1, <2>2
<1>9. QED
  BY <1>1, <1>6, <1>7, <1>8, DatedWeight

----------------------------------------------------------------------------
(* The fusion.                                                             *)

LEMMA FusedType ==
  ASSUME NEW r \in Row, NEW relevance \in Nat, NEW temporal \in Nat
  PROVE  Fused(r, relevance, temporal) \in Scores
BY ClampType DEF Fused

LEMMA FusedBounds ==
  ASSUME NEW r \in Row, NEW relevance \in Nat, NEW temporal \in Nat, relevance <= 100, r.kind # "filing"
  PROVE  /\ temporal >= 2200 => Fused(r, relevance, temporal) >= 127000
         /\ temporal = 10000 => Fused(r, relevance, temporal) >= 400000
         /\ temporal <= 8600 => Fused(r, relevance, temporal) <= 871000
<1> DEFINE x == 5000 * relevance + 35 * temporal + (IF r.official THEN 70000 ELSE 50000)
                - (IF r.kind = "filing" THEN 150000 ELSE 0)
<1>1. /\ x \in Int
      /\ temporal >= 2200 => x >= 127000
      /\ temporal = 10000 => x >= 400000
      /\ temporal <= 8600 => x >= 0 /\ x <= 871000
  BY SMT
<1>2. Fused(r, relevance, temporal) = Clamp(x)
  BY SMT DEF Fused
<1> HIDE DEF x
<1>3. QED
  BY <1>1, <1>2, ClampIs, SMT

----------------------------------------------------------------------------
(* The corrections.                                                        *)

LEMMA ExactCleanupType ==
  ASSUME NEW q, NEW S, NEW old \in [S -> Scores]
  PROVE  ExactTimeCleanup(q, old) \in [S -> Scores]
<1>1. ASSUME NEW x \in Scores
      PROVE  Clamp(x + 40000) \in Scores /\ Part(x, 18) \in Scores
  <2>1. x + 40000 \in Int
    BY ScoresAre, SMT
  <2>2. Part(x, 18) \in Scores
    BY PartIs, SMT
  <2>3. QED
    BY <2>1, <2>2, ClampType
<1>2. QED
  BY <1>1, SMT DEF ExactTimeCleanup

LEMMA RoleCleanupType ==
  ASSUME NEW q, NEW S, NEW old \in [S -> Scores]
  PROVE  TransactionRoleCleanup(q, old) \in [S -> Scores]
<1>1. \A x \in Scores : Part(x, 10) \in Scores /\ Part(x, 45) \in Scores
  BY PartIs, SMT
<1>2. QED
  BY <1>1, SMT DEF TransactionRoleCleanup

\* What a share of a score comes to.
LEMMA ShareIs ==
  ASSUME NEW x \in Scores, NEW p \in Nat, p <= 1000
  PROVE  LET y == (x * p + 500) \div 1000 IN
         y \in Nat /\ y <= 1000000 /\ 1000 * y <= x * p + 500 /\ x * p - 500 <= 1000 * y
<1>1. x \in Nat /\ x <= 1000000
  BY ScoresAre, SMT
<1> DEFINE y == x * p
<1>2. y \in Nat /\ y <= 1000 * x
  BY <1>1
<1> HIDE DEF y
<1>3. \A z : z = (y + 500) \div 1000 => z \in Nat /\ z <= 1000000 /\ 1000 * z <= y + 500 /\ y - 500 <= 1000 * z
  BY <1>1, <1>2
<1>4. QED
  BY <1>3 DEF y

\* A field cannot be named more than whole.
LEMMA OverlapType ==
  ASSUME NEW words, NEW field, IsFiniteSet(field)
  PROVE  Overlap(words, field) \in Nat /\ Overlap(words, field) <= 100
<1>1. CASE field = {}
  BY <1>1 DEF Overlap
<1>2. CASE field # {}
  <2> DEFINE n == Cardinality(field)
             m == Cardinality(words \cap field)
  <2>1. n \in Nat /\ n # 0 /\ m \in Nat /\ m <= n
    BY <1>2, FS_Subset, FS_CardinalityType, FS_EmptySet
  <2>2. Overlap(words, field) = (100 * m) \div n
    BY <1>2 DEF Overlap
  <2> HIDE DEF m, n
  <2>3. ASSUME NEW a \in Nat, NEW v \in Int, v = a \div n, a <= 100 * n
        PROVE  v \in Nat /\ v <= 100
    <3>1. n * v <= a /\ a < n * v + n
      BY <2>1, <2>3
    <3>2. v >= 0
      BY <2>1, <2>3, <3>1
    <3>3. v < 101
      <4>1. SUFFICES ASSUME v >= 101  PROVE FALSE
        BY <2>3
      <4>2. n * v >= n * 101
        BY <2>1, <2>3, <4>1
      <4>3. QED
        BY <2>1, <2>3, <3>1, <4>2
    <3>4. QED
      BY <2>3, <3>2, <3>3
  <2>4. (100 * m) \div n \in Int /\ 100 * m \in Nat /\ 100 * m <= 100 * n
    BY <2>1
  <2>5. QED
    BY <2>2, <2>3, <2>4
<1>3. QED
  BY <1>1, <1>2

LEMMA StrengthType ==
  ASSUME NEW r \in Row, NEW q
  PROVE  /\ SourceStrength(r, q) \in Nat /\ SourceStrength(r, q) <= 100
         /\ MetricStrength(r, q) \in Nat /\ MetricStrength(r, q) <= 100
<1>1. IsFiniteSet(r.metric) /\ \A f \in Sources(r) : IsFiniteSet(f)
  BY DEF Row, Words, Sources
<1> DEFINE T == {Overlap(q.words, f) : f \in Sources(r)}
<1>2. T # {} /\ \A x \in T : x \in Nat /\ x <= 100
  BY <1>1, OverlapType DEF Sources
<1>3. Max(T) \in T
  <2> HIDE DEF T
  <2>1. QED
    BY <1>2, MaxIs
<1>4. QED
  BY <1>1, <1>2, <1>3, OverlapType DEF SourceStrength, MetricStrength

\* What is left of a score when the question names another source or metric, and
\* what a row gets for those that it names.
BySource(q, S) == \E c \in S : SourceStrength(Rows[c], q) >= 50
ByMetric(q, S) == "metric" \in q.words \/ \E c \in S : MetricStrength(Rows[c], q) >= 45

SourceShare(q, S, r) == IF BySource(q, S) /\ SourceStrength(r, q) < 50 THEN 92 ELSE 100
MetricShare(q, S, r) == IF ByMetric(q, S) /\ MetricStrength(r, q) < 45 /\ r.metric # {} THEN 9 ELSE 10

Share(q, S, r) == SourceShare(q, S, r) * MetricShare(q, S, r)

SourceReward(q, r) == Points(SourceStrength(r, q) >= 50, 600 * SourceStrength(r, q))
MetricReward(q, r) == Points(MetricStrength(r, q) >= 45, 800 * MetricStrength(r, q))

Adjusted(x, share, source, metric) == (x * share + 500) \div 1000 + (source + metric)

LEMMA AdjustedIs ==
  ASSUME NEW q, NEW S, NEW old \in [S -> Scores]
  PROVE  SourceMetricAdjustments(q, old) =
           [c \in S |-> IF old[c] = 0 THEN 0
             ELSE Clamp(Adjusted(old[c], Share(q, S, Rows[c]),
                                 SourceReward(q, Rows[c]), MetricReward(q, Rows[c])))]
<1>1. DOMAIN old = S
  OBVIOUS
<1>2. QED
  BY <1>1, SMT
     DEF SourceMetricAdjustments, Adjusted, Share, SourceShare, MetricShare, BySource, ByMetric,
         SourceReward, MetricReward

LEMMA ShareType ==
  ASSUME NEW q, NEW S, NEW r
  PROVE  /\ SourceShare(q, S, r) \in {92, 100} /\ MetricShare(q, S, r) \in {9, 10}
         /\ Share(q, S, r) \in {828, 920, 900, 1000}
BY DEF Share, SourceShare, MetricShare

LEMMA RewardType ==
  ASSUME NEW q, NEW r \in Row
  PROVE  /\ SourceReward(q, r) \in Nat /\ SourceReward(q, r) <= 60000
         /\ MetricReward(q, r) \in Nat /\ MetricReward(q, r) <= 80000
BY StrengthType, SMT DEF SourceReward, MetricReward, Points

LEMMA AdjustmentsType ==
  ASSUME NEW q, NEW S, NEW old \in [S -> Scores], \A c \in S : Rows[c] \in Row
  PROVE  SourceMetricAdjustments(q, old) \in [S -> Scores]
<1>1. ASSUME NEW c \in S
      PROVE  Clamp(Adjusted(old[c], Share(q, S, Rows[c]),
                            SourceReward(q, Rows[c]), MetricReward(q, Rows[c]))) \in Scores
  <2> DEFINE share  == Share(q, S, Rows[c])
             f      == SourceReward(q, Rows[c])
             h      == MetricReward(q, Rows[c])
             kept   == (old[c] * share + 500) \div 1000
  <2>1. share \in Nat /\ share <= 1000
    BY ShareType
  <2>2. f \in Nat /\ h \in Nat
    BY RewardType, SMT
  <2>3. kept \in Nat
    <3> HIDE DEF share
    <3>1. QED
      BY <2>1, ShareIs, SMT
  <2>4. Adjusted(old[c], share, f, h) = kept + (f + h)
    BY DEF Adjusted
  <2> HIDE DEF kept, f, h, share
  <2>5. Clamp(Adjusted(old[c], share, f, h)) \in Scores
    BY <2>2, <2>3, <2>4, ClampType, SMT
  <2>6. QED
    BY <2>5 DEF share, f, h
<1>2. 0 \in Scores
  BY ScoresAre, SMT
<1>3. QED
  BY <1>1, <1>2, AdjustedIs, SMT

\* A score that is raised.
LEMMA RaisedIs ==
  ASSUME NEW x \in Nat, x >= 127000
  PROVE  /\ Clamp(x + 40000) >= 167000
         /\ x >= 400000 => Clamp(x + 40000) >= 440000
<1>1. x + 40000 \in Int
  OBVIOUS
<1>2. QED
  BY <1>1, ClampIs

\* A set of one has one element, and that is the one chosen.
LEMMA OnlyOne ==
  ASSUME NEW T, NEW k, T = {k}
  PROVE  Cardinality(T) = 1 /\ (CHOOSE n \in T : TRUE) = k
<1>1. Cardinality({k}) = 1
  BY FS_Singleton
<1>2. (CHOOSE n \in {k} : TRUE) \in {k}
  OBVIOUS
<1>3. QED
  BY <1>1, <1>2

\* A row of the day that is asked for gets ahead of the others about its subject.
LEMMA ExactCleanupParts ==
  ASSUME NEW q, NEW S, NEW old \in [S -> Scores], ~ q.cue,
         NEW k, Positive(q) = {k}, NEW c \in S, NEW d \in S,
         HasValidTime(Rows[d]), Neighborhood(Rows[c]) = Neighborhood(Rows[d]),
         IsExactMatch(k, Rows[c]), ~ IsExactMatch(k, Rows[d]),
         old[c] >= 127000, old[d] <= 871000
  PROVE  /\ ExactTimeCleanup(q, old)[c] >= 167000 /\ ExactTimeCleanup(q, old)[d] <= 156780
         /\ old[c] >= 400000 => ExactTimeCleanup(q, old)[c] >= 440000
<1>1. Cardinality(Positive(q)) = 1 /\ (CHOOSE n \in Positive(q) : TRUE) = k
  BY OnlyOne
<1>2. ExactTimeCleanup(q, old)[c] = Clamp(old[c] + 40000)
  BY <1>1, SMT DEF ExactTimeCleanup
<1>3. ExactTimeCleanup(q, old)[d] = Part(old[d], 18)
  BY <1>1, SMT DEF ExactTimeCleanup
<1>4. Clamp(old[c] + 40000) >= 167000 /\ (old[c] >= 400000 => Clamp(old[c] + 40000) >= 440000)
  <2>1. old[c] \in Nat
    BY ScoresAre, SMT
  <2>2. QED
    BY <2>1, RaisedIs
<1>5. Part(old[d], 18) <= 156780
  <2>1. /\ Part(old[d], 18) \in Scores
        /\ 100 * Part(old[d], 18) <= old[d] * 18 + 50
    BY PartIs, SMT
  <2>2. Part(old[d], 18) \in Nat /\ old[d] \in Nat
    BY <2>1, ScoresAre, SMT
  <2>3. QED
    BY <2>1, <2>2, SMT
<1>6. QED
  BY <1>2, <1>3, <1>4, <1>5, SMT

LEMMA RoleCleanupSpares ==
  ASSUME NEW q, NEW S, NEW old \in [S -> Scores], NEW c \in S, HasValidTime(Rows[c])
  PROVE  TransactionRoleCleanup(q, old)[c] = old[c]
BY SMT DEF TransactionRoleCleanup, HasValidTime

\* A score x that is kept by a and rewarded by f and h is ahead of y, kept by b and
\* rewarded by g and h, with room for both.
Ahead(x, y, a, b, f, g, h) ==
  /\ x \in Scores /\ y \in Scores /\ y <= 156780
  /\ a \in {828, 920, 900, 1000} /\ b \in {828, 920, 900, 1000}
  /\ f \in Nat /\ g \in Nat /\ h \in Nat /\ f <= 60000 /\ g <= 60000 /\ h <= 80000
  /\ \/ x >= 167000 /\ a >= b /\ f >= g
     \/ x >= 440000

\* A score that is ahead by enough stays ahead, whatever both lose and gain.
LEMMA AdjustedKeepsApart ==
  ASSUME NEW x, NEW y, NEW a, NEW b, NEW f, NEW g, NEW h, Ahead(x, y, a, b, f, g, h)
  PROVE  Clamp(Adjusted(x, a, f, h)) > Clamp(Adjusted(y, b, g, h))
         /\ Clamp(Adjusted(x, a, f, h)) > 0
<1> USE DEF Ahead
<1> DEFINE v == (x * a + 500) \div 1000
           w == (y * b + 500) \div 1000
<1>1. x \in Nat /\ y \in Nat /\ x <= 1000000
  BY ScoresAre, SMT
<1>2. /\ v \in Nat /\ x * a - 500 <= 1000 * v
      /\ w \in Nat /\ 1000 * w <= y * b + 500
  BY ShareIs, SMT
<1>3. Adjusted(x, a, f, h) = v + (f + h) /\ Adjusted(y, b, g, h) = w + (g + h)
  BY DEF Adjusted
<1> HIDE DEF v, w
<1>4. w <= 156781
  <2> DEFINE n == y * b
  <2>1. n \in Nat /\ n <= 156780000
    BY <1>1, SMT
  <2>2. 1000 * w <= n + 500
    BY <1>2
  <2> HIDE DEF n
  <2>3. QED
    BY <1>2, <2>1, <2>2
<1>5. v + f > w + g
  <2>1. CASE x >= 167000 /\ a >= b /\ f >= g
    <3>1. x * a - y * b >= 8000000
      <4>1. CASE b = 828
        BY <1>1, <2>1, <4>1, SMT
      <4>2. CASE b = 920
        BY <1>1, <2>1, <4>2, SMT
      <4>3. CASE b = 900
        BY <1>1, <2>1, <4>3, SMT
      <4>4. CASE b = 1000
        BY <1>1, <2>1, <4>4, SMT
      <4>5. QED
        BY <4>1, <4>2, <4>3, <4>4
    <3> DEFINE m == x * a
               n == y * b
    <3>2. m \in Nat /\ n \in Nat
      BY <1>1
    <3>3. m - n >= 8000000 /\ m - 500 <= 1000 * v /\ 1000 * w <= n + 500
      BY <1>2, <3>1
    <3> HIDE DEF m, n
    <3>4. QED
      BY <1>2, <2>1, <3>2, <3>3
  <2>2. CASE x >= 440000
    <3>1. x * a >= 364320000
      BY <1>1, <2>2, SMT
    <3> DEFINE m == x * a
    <3>2. m \in Nat /\ m >= 364320000 /\ m - 500 <= 1000 * v
      BY <1>1, <1>2, <3>1
    <3> HIDE DEF m
    <3>3. v >= 364319
      BY <1>2, <3>2
    <3>4. QED
      BY <1>2, <1>4, <3>3
  <2>3. QED
    BY <2>1, <2>2
<1> DEFINE s == v + (f + h)
           t == w + (g + h)
<1>6. s \in Int /\ t \in Int /\ s > t /\ t >= 0 /\ t < 1000000
  BY <1>2, <1>4, <1>5, SMT
<1> HIDE DEF s, t
<1>7. Clamp(s) > Clamp(t) /\ Clamp(s) > 0
  BY <1>6, ClampIs, SMT
<1>8. QED
  BY <1>3, <1>7 DEF s, t

\* Rows about the same thing lose and gain the same for their metric.
LEMMA AdjustmentsKeepApart ==
  ASSUME NEW q, NEW S, NEW old \in [S -> Scores], NEW c \in S, NEW d \in S,
         Rows[c] \in Row, Rows[d] \in Row,
         Neighborhood(Rows[c]) = Neighborhood(Rows[d]), old[c] >= 167000, old[d] <= 156780,
         old[c] >= 440000 \/ SourceStrength(Rows[c], q) >= SourceStrength(Rows[d], q)
  PROVE  SourceMetricAdjustments(q, old)[c] > SourceMetricAdjustments(q, old)[d]
<1> DEFINE a == Share(q, S, Rows[c])
           b == Share(q, S, Rows[d])
           f == SourceReward(q, Rows[c])
           g == SourceReward(q, Rows[d])
           h == MetricReward(q, Rows[c])
<1>1. Rows[c].metric = Rows[d].metric
  BY DEF Neighborhood
<1>2. MetricReward(q, Rows[d]) = h /\ MetricShare(q, S, Rows[c]) = MetricShare(q, S, Rows[d])
  BY <1>1 DEF MetricReward, MetricShare, MetricStrength
<1>3. old[c] \in Scores /\ old[d] \in Scores /\ old[c] # 0
  BY ScoresAre, SMT
<1>4. a \in {828, 920, 900, 1000} /\ b \in {828, 920, 900, 1000}
  BY ShareType
<1>5. f \in Nat /\ g \in Nat /\ h \in Nat /\ f <= 60000 /\ g <= 60000 /\ h <= 80000
  BY RewardType
<1>6. ASSUME SourceStrength(Rows[c], q) >= SourceStrength(Rows[d], q)
      PROVE  a >= b /\ f >= g
  <2>1. /\ SourceStrength(Rows[c], q) \in Nat /\ SourceStrength(Rows[d], q) \in Nat
    BY StrengthType
  <2>2. f >= g
    BY <1>6, <2>1, SMT DEF SourceReward, Points
  <2>3. SourceShare(q, S, Rows[c]) >= SourceShare(q, S, Rows[d])
    BY <1>6, <2>1, SMT DEF SourceShare
  <2>4. a >= b
    BY <1>2, <2>3, ShareType, SMT DEF Share
  <2>5. QED
    BY <2>2, <2>4
<1>7. /\ SourceMetricAdjustments(q, old)[c] = Clamp(Adjusted(old[c], a, f, h))
      /\ SourceMetricAdjustments(q, old)[d] = IF old[d] = 0 THEN 0 ELSE Clamp(Adjusted(old[d], b, g, h))
  BY <1>2, <1>3, AdjustedIs, SMT
<1> DEFINE x == old[c]
           y == old[d]
<1> HIDE DEF a, b, f, g, h
<1>8. \/ old[c] >= 167000 /\ a >= b /\ f >= g
      \/ old[c] >= 440000
  BY <1>6
<1>9. Clamp(Adjusted(x, a, f, h)) > Clamp(Adjusted(y, b, g, h)) /\ Clamp(Adjusted(x, a, f, h)) > 0
  <2>1. x \in Scores /\ y \in Scores /\ y <= 156780
    BY <1>3
  <2>2. \/ x >= 167000 /\ a >= b /\ f >= g
        \/ x >= 440000
    BY <1>8
  <2> HIDE DEF x, y
  <2>3. Ahead(x, y, a, b, f, g, h)
    BY <1>4, <1>5, <2>1, <2>2 DEF Ahead
  <2>4. QED
    BY <2>3, AdjustedKeepsApart
<1>10. QED
  BY <1>7, <1>9, SMT

----------------------------------------------------------------------------
(* What a choice among candidates returns.                                 *)

Steps == {"fuse", "finalize", "rank", "slots", "fill", "weak", "emergency", "done"}

SlotNames ==
  {"comparison_slot", "transaction_valid_time", "exact_temporal_target", "exact_version",
   "conflict_primary", "conflict_side"}

Labels == SlotNames \cup {"score", "eligible_filler", "weak_eligible_filler", "emergency_fallback"}

\* The slots of a question: those of a comparison are numbered by its sides.
SlotsOf(q) == {s \in SlotNames \X Nat : s[1] = "comparison_slot" => s[2] \in DOMAIN q.sides}

TypeInv ==
  /\ pc \in Steps
  /\ query \in Queries /\ topK \in Nat
  /\ DOMAIN score \subseteq DOMAIN Rows /\ pool \subseteq DOMAIN score
  /\ score \in [DOMAIN score -> Scores]
  /\ required \subseteq pool
  /\ selected \in Seq(pool) /\ IsInjective(selected)
  /\ filled \in Seq(Labels) /\ Len(filled) = Len(selected) /\ Len(selected) <= topK
  /\ todo \in Seq(SlotsOf(query))

\* The corpus, and with it the pool, consists of numbered rows.
LEMMA ScoredRows ==
  ASSUME TypeInv, NEW c \in DOMAIN score
  PROVE  c \in Nat /\ Rows[c] \in Row /\ score[c] \in Scores
BY SlotAssumption DEF TypeInv

LEMMA CandidatesAreRows ==
  ASSUME TypeInv, NEW c \in pool
  PROVE  c \in Nat /\ Rows[c] \in Row /\ score[c] \in Scores
BY ScoredRows DEF TypeInv

LEMMA FirstIsOne ==
  ASSUME TypeInv, NEW S, S \subseteq pool, S # {}
  PROVE  First(S) \in S
<1> DEFINE T == {score[c] : c \in S}
<1>1. \A x \in T : x \in Int /\ x <= 1000000
  BY CandidatesAreRows, ScoresAre, SMT
<1>2. Max(T) \in T /\ \A y \in T : y <= Max(T)
  <2>1. T # {} /\ 1000000 \in Int
    OBVIOUS
  <2> HIDE DEF T
  <2>2. QED
    BY <1>1, <2>1, MaxIs, SMT
<1> DEFINE m == Max(T)
           U == {c \in S : score[c] = m}
<1> HIDE DEF m
<1>3. U # {} /\ U \subseteq Nat
  BY <1>2, CandidatesAreRows DEF m
<1>4. PICK c \in U : \A d \in U : c <= d
  <2> HIDE DEF U
  <2>1. QED
    BY <1>3, NatMin
<1>5. \A d \in S \ {c} : Before(score, c, d)
  <2> TAKE d \in S \ {c}
  <2>1. score[c] = m /\ score[d] <= m /\ score[d] \in Int /\ m \in Int /\ c \in Nat /\ d \in Nat
    BY <1>1, <1>2, CandidatesAreRows, SMT DEF m
  <2>2. CASE score[d] = m
    BY <1>4, <2>1, <2>2 DEF Before
  <2>3. CASE score[d] # m
    BY <2>1, <2>3 DEF Before
  <2>4. QED
    BY <2>2, <2>3
<1>6. QED
  BY <1>5 DEF First

\* What a row shares with a side is bounded by the words of the side.
LEMMA SideScore ==
  ASSUME NEW r, NEW side \in Side
  PROVE  /\ Cardinality(side.words) \in Nat
         /\ SlotMatchScore(r, side) \in Nat /\ SlotMatchScore(r, side) <= Cardinality(side.words) + 20
<1> DEFINE n == Cardinality(Tokens(r) \cap side.words)
<1>1. Cardinality(side.words) \in Nat /\ n \in Nat /\ n <= Cardinality(side.words)
  <2>1. IsFiniteSet(side.words)
    BY DEF Side, Words
  <2>2. QED
    BY <2>1, FS_Subset, FS_CardinalityType
<1> HIDE DEF n
<1>2. QED
  BY <1>1 DEF SlotMatchScore, Points, n

\* The preferences among the candidates of a slot are bounded.
LEMMA PreferenceIs ==
  ASSUME TypeInv, NEW slot \in SlotsOf(query)
  PROVE  \E b \in Int : \A c \in pool : Preference(slot, c) \in Int /\ Preference(slot, c) <= b
<1> DEFINE side    == query.sides[slot[2]]
           isSide  == slot[1] = "comparison_slot"
           w       == IF isSide THEN Cardinality(side.words) + 20 ELSE 7
           fits(r) == Points(SourceFit(r, query) = "exact", 4) + Points(MetricFit(r, query) = "exact", 2)
                      + Points(VersionFit(r, query) = "exact", 1)
           x(r)    == IF isSide THEN SlotMatchScore(r, side) ELSE fits(r)
<1>1. isSide => side \in Side
  <2>1. query.sides \in Seq(Side)
    BY SlotAssumption DEF TypeInv, Query
  <2>2. QED
    BY <2>1 DEF SlotsOf
<1>2. w \in Nat
  <2>1. isSide => Cardinality(side.words) \in Nat
    BY <1>1, SideScore
  <2> DEFINE words == Cardinality(side.words)
  <2>2. isSide => words \in Nat
    BY <2>1
  <2>3. w = IF isSide THEN words + 20 ELSE 7
    OBVIOUS
  <2> HIDE DEF words, isSide, w
  <2>4. QED
    BY <2>2, <2>3
<1>3. \A r : fits(r) \in Nat /\ fits(r) <= 7
  <2>1. \A holds : Points(holds, 4) \in {0, 4} /\ Points(holds, 2) \in {0, 2} /\ Points(holds, 1) \in {0, 1}
    BY Zenon DEF Points
  <2>2. QED
    BY <2>1
<1>4. \A r : x(r) \in Nat /\ x(r) <= w
  <2> HIDE DEF fits
  <2>1. CASE isSide
    <3>1. Cardinality(side.words) \in Nat
      BY <1>1, <2>1, SideScore
    <3>2. \A r : SlotMatchScore(r, side) \in Nat /\ SlotMatchScore(r, side) <= Cardinality(side.words) + 20
      BY <1>1, <2>1, SideScore
    <3>3. QED
      BY <2>1, <3>2
  <2>2. CASE ~ isSide
    BY <1>3, <2>2
  <2>3. QED
    BY <2>1, <2>2
<1>5. \A c \in pool : Preference(slot, c) = score[c] + 2000000 * x(Rows[c])
  BY SMT DEF Preference
<1> HIDE DEF w, x
<1>6. \A c \in pool : score[c] \in Nat /\ score[c] <= 1000000
  BY CandidatesAreRows, ScoresAre, SMT
<1>7. 1000000 + 2000000 * w \in Int
  BY <1>2
<1>8. \A c \in pool : Preference(slot, c) \in Int /\ Preference(slot, c) <= 1000000 + 2000000 * w
  BY <1>2, <1>4, <1>5, <1>6
<1>9. QED
  BY <1>7, <1>8

LEMMA BestIsOne ==
  ASSUME TypeInv, NEW slot \in SlotsOf(query), SlotMatches(slot) \subseteq pool, SlotMatches(slot) # {}
  PROVE  Best(slot) \in SlotMatches(slot)
<1> DEFINE S == SlotMatches(slot)
           T == {Preference(slot, c) : c \in S}
<1> PICK top \in Int : \A c \in pool : Preference(slot, c) \in Int /\ Preference(slot, c) <= top
  BY PreferenceIs
<1>1. \A x \in T : x \in Int /\ x <= top
  OBVIOUS
<1>2. Max(T) \in T /\ \A y \in T : y <= Max(T)
  <2>1. T # {}
    OBVIOUS
  <2> HIDE DEF T
  <2>2. QED
    BY <1>1, <2>1, MaxIs, SMT
<1> DEFINE m == Max(T)
           U == {c \in S : Preference(slot, c) = m}
<1> HIDE DEF m
<1>3. U # {} /\ U \subseteq Nat
  BY <1>2, CandidatesAreRows DEF m
<1>4. PICK c \in U : \A d \in U : c <= d
  <2> HIDE DEF U
  <2>1. QED
    BY <1>3, NatMin
<1>5. \A d \in S \ {c} : \/ Preference(slot, c) > Preference(slot, d)
                         \/ Preference(slot, c) = Preference(slot, d) /\ c < d
  <2> TAKE d \in S \ {c}
  <2>1. /\ Preference(slot, c) = m /\ Preference(slot, d) <= m
        /\ Preference(slot, d) \in Int /\ m \in Int /\ c \in Nat /\ d \in Nat
    BY <1>1, <1>2, CandidatesAreRows, SMT DEF m
  <2>2. CASE Preference(slot, d) = m
    BY <1>4, <2>1, <2>2
  <2>3. CASE Preference(slot, d) # m
    BY <2>1, <2>3
  <2>4. QED
    BY <2>2, <2>3
<1> HIDE DEF T, m
<1>6. c \in S
  OBVIOUS
<1>7. QED
  BY <1>5, <1>6, Zenon DEF Best

----------------------------------------------------------------------------
(* The slots of a question.                                                *)

\* The sides of a comparison are its first slots.
LEMMA SlotsAre ==
  ASSUME NEW q \in Queries
  PROVE  /\ Slots(q) \in Seq(SlotsOf(q))
         /\ \A i \in DOMAIN q.sides :
              i \in 1..Len(Slots(q)) /\ i <= 2 /\ Slots(q)[i] = <<"comparison_slot", i>>
<1> DEFINE Kind    == SlotsOf(q)
           sides   == [i \in DOMAIN q.sides |-> <<"comparison_slot", i>>]
           valid   == IF q.validTime THEN <<<<"transaction_valid_time", 0>>>> ELSE <<>>
           target  == IF q.dates # {} \/ q.years # {} THEN <<<<"exact_temporal_target", 0>>>> ELSE <<>>
           version == IF q.versions # {} THEN <<<<"exact_version", 0>>>> ELSE <<>>
           claims  == IF q.conflict THEN <<<<"conflict_primary", 0>>, <<"conflict_side", 0>>>> ELSE <<>>
<1>1. q.sides \in Seq(Side) /\ Len(q.sides) \in {0, 2}
  BY SlotAssumption DEF Query
<1>2. DOMAIN q.sides = 1..Len(q.sides) /\ Len(q.sides) \in Nat
  BY <1>1
<1>3. sides \in Seq(Kind) /\ Len(sides) = Len(q.sides)
  <2>1. \A i \in 1..Len(q.sides) : <<"comparison_slot", i>> \in Kind
    BY <1>2 DEF SlotNames, SlotsOf
  <2>2. sides \in [1..Len(q.sides) -> Kind]
    BY <1>2, <2>1
  <2>3. QED
    BY <1>2, <2>2
<1>4. ASSUME NEW i \in DOMAIN q.sides
      PROVE  i \in 1..Len(sides) /\ i <= 2 /\ sides[i] = <<"comparison_slot", i>>
  <2>1. i \in 1..Len(sides) /\ sides[i] = <<"comparison_slot", i>>
    BY <1>2, <1>3
  <2>2. i \in 1..Len(q.sides)
    BY <1>2
  <2>3. i <= 2
    BY <1>1, <2>2
  <2>4. QED
    BY <2>1, <2>3
<1>5. valid \in Seq(Kind) /\ target \in Seq(Kind) /\ version \in Seq(Kind) /\ claims \in Seq(Kind)
  <2>1. \A name \in SlotNames \ {"comparison_slot"} : <<name, 0>> \in Kind
    BY DEF SlotsOf
  <2> HIDE DEF Kind
  <2>2. \A x, y \in Kind : <<>> \in Seq(Kind) /\ <<x>> \in Seq(Kind) /\ <<x, y>> \in Seq(Kind)
    OBVIOUS
  <2> USE <2>1 DEF SlotNames
  <2>3. valid \in Seq(Kind)
    BY <2>2
  <2>4. target \in Seq(Kind)
    BY <2>2
  <2>5. version \in Seq(Kind)
    BY <2>2
  <2>6. claims \in Seq(Kind)
    BY <2>2
  <2>7. QED
    BY <2>3, <2>4, <2>5, <2>6
<1>6. Slots(q) = (((sides \o valid) \o target) \o version) \o claims
  BY DEF Slots
<1> HIDE DEF Kind, sides, valid, target, version, claims
<1>7. ASSUME NEW s \in Seq(Kind), NEW t \in Seq(Kind)
      PROVE  s \o t \in Seq(Kind)
             /\ \A i \in 1..Len(s) : i \in 1..Len(s \o t) /\ (s \o t)[i] = s[i]
  OBVIOUS
<1> DEFINE two   == sides \o valid
           three == two \o target
           four  == three \o version
<1>8. two \in Seq(Kind) /\ \A i \in 1..Len(sides) : i \in 1..Len(two) /\ two[i] = sides[i]
  BY <1>3, <1>5, <1>7
<1> HIDE DEF two
<1>9. three \in Seq(Kind) /\ \A i \in 1..Len(two) : i \in 1..Len(three) /\ three[i] = two[i]
  BY <1>5, <1>7, <1>8
<1> HIDE DEF three
<1>10. four \in Seq(Kind) /\ \A i \in 1..Len(three) : i \in 1..Len(four) /\ four[i] = three[i]
  BY <1>5, <1>7, <1>9
<1> HIDE DEF four
<1>11. Slots(q) = four \o claims
  BY <1>6 DEF two, three, four
<1>12. Slots(q) \in Seq(Kind)
       /\ \A i \in 1..Len(four) : i \in 1..Len(Slots(q)) /\ Slots(q)[i] = four[i]
  BY <1>5, <1>7, <1>10, <1>11
<1>13. QED
  BY <1>4, <1>8, <1>9, <1>10, <1>12 DEF Kind

LEMMA SlotMatchesAre ==
  ASSUME NEW slot \in SlotsOf(query)
  PROVE  /\ SlotMatches(slot) \subseteq pool \ Chosen
         /\ slot[1] \in {"comparison_slot", "transaction_valid_time", "exact_temporal_target"} =>
              \A c \in SlotMatches(slot) : IsExactTarget(Rows[c], query)
<1>1. slot[1] \in SlotNames
  BY DEF SlotsOf
<1>2. Exact(query) \subseteq pool \ Chosen /\ Version(query) \subseteq pool \ Chosen
  BY DEF Exact, Version
<1>3. ComparisonMatches(slot[2]) \subseteq Exact(query)
  BY DEF ComparisonMatches
<1>4. \A c \in Exact(query) : IsExactTarget(Rows[c], query)
  BY DEF Exact
<1>5. QED
  BY <1>1, <1>2, <1>3, <1>4 DEF SlotMatches, SlotNames

\* A row of the time that is asked for is not one that is known by its filing only.
LEMMA TargetsAreDated ==
  ASSUME NEW r, NEW q, IsExactTarget(r, q)
  PROVE  ~ TransactionOnly(r)
BY DEF IsExactTarget, TemporalFit

----------------------------------------------------------------------------
(* Every variable keeps its type.                                          *)

\* What a turn of a loop does: nothing, when there is no room.
LEMMA AddIs ==
  ASSUME TypeInv, NEW c \in pool \ Chosen, NEW slot \in Labels, Add(c, slot)
  PROVE  IF Len(selected) < topK
         THEN /\ selected' = Append(selected, c) /\ filled' = Append(filled, slot)
              /\ selected' \in Seq(pool) /\ filled' \in Seq(Labels) /\ IsInjective(selected')
              /\ Len(selected') = Len(selected) + 1 /\ Len(filled') = Len(selected')
              /\ Chosen' = Chosen \cup {c}
         ELSE UNCHANGED <<selected, filled>> /\ Chosen' = Chosen
<1>1. /\ selected \in Seq(pool) /\ filled \in Seq(Labels) /\ Len(filled) = Len(selected)
      /\ topK \in Nat /\ \A a, b \in 1..Len(selected) : selected[a] = selected[b] => a = b
  BY DEF TypeInv, IsInjective
<1>2. \A i \in 1..Len(selected) : selected[i] # c
  BY <1>1 DEF Chosen, ToSet
<1>3. CASE Len(selected) < topK
  <2>1. selected' = Append(selected, c) /\ filled' = Append(filled, slot)
    BY <1>3 DEF Add
  <2>2. selected' \in Seq(pool) /\ Len(selected') = Len(selected) + 1
        /\ filled' \in Seq(Labels) /\ Len(filled') = Len(selected')
    <3>1. ASSUME NEW T, NEW s \in Seq(T), NEW x \in T
          PROVE  Append(s, x) \in Seq(T) /\ Len(Append(s, x)) = Len(s) + 1
      OBVIOUS
    <3>2. selected' \in Seq(pool) /\ Len(selected') = Len(selected) + 1
      BY <1>1, <2>1, <3>1
    <3>3. filled' \in Seq(Labels) /\ Len(filled') = Len(filled) + 1
      BY <1>1, <2>1, <3>1
    <3>4. QED
      BY <1>1, <3>2, <3>3
  <2>3. \A i \in 1..Len(selected') : selected'[i] = IF i = Len(selected) + 1 THEN c ELSE selected[i]
    BY <1>1, <2>1, <2>2
  <2>4. DOMAIN selected' = 1..Len(selected') /\ Len(selected) \in Nat /\ DOMAIN selected = 1..Len(selected)
    BY <1>1, <2>2
  <2>5. IsInjective(selected')
    <3> SUFFICES ASSUME NEW a \in 1..Len(selected'), NEW b \in 1..Len(selected'), selected'[a] = selected'[b]
                 PROVE  a = b
      BY <2>4 DEF IsInjective
    <3>1. a \in Nat /\ b \in Nat /\ a >= 1 /\ b >= 1 /\ a <= Len(selected) + 1 /\ b <= Len(selected) + 1
      BY <2>2, <2>4
    <3>2. CASE a = Len(selected) + 1 /\ b # Len(selected) + 1
      BY <1>2, <2>3, <2>4, <3>1, <3>2
    <3>3. CASE a # Len(selected) + 1 /\ b = Len(selected) + 1
      BY <1>2, <2>3, <2>4, <3>1, <3>3
    <3>4. CASE a # Len(selected) + 1 /\ b # Len(selected) + 1
      BY <1>1, <2>3, <2>4, <3>1, <3>4
    <3>5. QED
      BY <3>2, <3>3, <3>4
  <2>6. Chosen' = Chosen \cup {c}
    <3>1. Len(selected) + 1 \in 1..Len(selected') /\ 1..Len(selected') = 1..Len(selected) \cup {Len(selected) + 1}
      BY <2>2, <2>4
    <3>2. ToSet(selected') = {selected'[i] : i \in 1..Len(selected')}
          /\ Chosen = {selected[i] : i \in 1..Len(selected)}
      BY <2>4 DEF ToSet, Chosen
    <3>3. Chosen' = ToSet(selected')
      BY DEF Chosen
    <3>4. \A i \in 1..Len(selected) : selected'[i] = selected[i]
      BY <2>3, <2>4, <3>1
    <3>5. selected'[Len(selected) + 1] = c
      BY <2>3, <3>1
    <3>6. QED
      BY <3>1, <3>2, <3>3, <3>4, <3>5
  <2>7. QED
    BY <1>3, <2>1, <2>2, <2>5, <2>6
<1>4. CASE ~ Len(selected) < topK
  <2>1. UNCHANGED <<selected, filled>>
    BY <1>4 DEF Add
  <2>2. Chosen' = Chosen
    BY <2>1 DEF Chosen
  <2>3. QED
    BY <1>4, <2>1, <2>2
<1>5. QED
  BY <1>3, <1>4

\* The parts that choosing evidence does not touch.
CaseInv ==
  /\ query \in Queries /\ topK \in Nat
  /\ DOMAIN score \subseteq DOMAIN Rows /\ pool \subseteq DOMAIN score
  /\ score \in [DOMAIN score -> Scores]

EvidenceInv ==
  /\ selected \in Seq(pool) /\ IsInjective(selected)
  /\ filled \in Seq(Labels) /\ Len(filled) = Len(selected) /\ Len(selected) <= topK

LEMMA TypeParts ==
  TypeInv <=> /\ pc \in Steps /\ CaseInv /\ required \subseteq pool
              /\ EvidenceInv /\ todo \in Seq(SlotsOf(query))
BY DEF TypeInv, CaseInv, EvidenceInv

LEMMA CaseKeeps ==
  ASSUME CaseInv, UNCHANGED <<case, score, pool>>
  PROVE  CaseInv' /\ pool' = pool /\ SlotsOf(query)' = SlotsOf(query)
BY DEF CaseInv, case, SlotsOf

LEMMA AddKeeps ==
  ASSUME TypeInv, UNCHANGED <<case, score, pool>>, NEW c \in pool \ Chosen, NEW slot \in Labels, Add(c, slot)
  PROVE  EvidenceInv'
<1>1. pool' = pool /\ topK' = topK /\ topK \in Nat
  BY DEF case, TypeInv
<1>2. CASE Len(selected) < topK
  <2>1. /\ selected' \in Seq(pool) /\ filled' \in Seq(Labels) /\ IsInjective(selected')
        /\ Len(selected') = Len(selected) + 1 /\ Len(filled') = Len(selected')
    BY <1>2, AddIs
  <2>2. Len(selected') <= topK
    BY <1>1, <1>2, <2>1 DEF TypeInv
  <2>3. QED
    BY <1>1, <2>1, <2>2 DEF EvidenceInv
<1>3. CASE ~ Len(selected) < topK
  BY <1>1, <1>3 DEF Add, TypeInv, EvidenceInv
<1>4. QED
  BY <1>2, <1>3

LEMMA SameEvidence ==
  ASSUME TypeInv, UNCHANGED <<case, score, pool, selected, filled>>
  PROVE  EvidenceInv'
BY DEF TypeInv, EvidenceInv, case

\* A turn of a loop over the ordered candidates.
LEMMA TakeKeepsTypes ==
  ASSUME TypeInv, NEW step, NEW S, S \subseteq pool, NEW slot \in Labels, NEW next \in Steps,
         Take(step, S, slot, next)
  PROVE  TypeInv'
<1>1. UNCHANGED <<case, score, pool>> /\ UNCHANGED <<todo, required>>
  BY DEF Take
<1>2. CaseInv' /\ pool' = pool /\ SlotsOf(query)' = SlotsOf(query)
  BY <1>1, CaseKeeps, TypeParts
<1>3. pc' \in Steps
  BY DEF Take, TypeInv
<1>4. EvidenceInv'
  <2>1. CASE UNCHANGED <<selected, filled>>
    BY <1>1, <2>1, SameEvidence
  <2>2. CASE S \ Chosen # {} /\ Add(First(S \ Chosen), slot)
    <3>1. First(S \ Chosen) \in S \ Chosen
      BY <2>2, FirstIsOne
    <3>2. QED
      BY <1>1, <2>2, <3>1, AddKeeps
  <2>3. QED
    BY <2>1, <2>2 DEF Take
<1>5. QED
  BY <1>1, <1>2, <1>3, <1>4 DEF TypeInv, CaseInv, EvidenceInv

LEMMA InitType == Init => TypeInv
<1> SUFFICES ASSUME Init
             PROVE  TypeInv
  OBVIOUS
<1>1. PICK corpus \in Corpora : score = [c \in corpus |-> 0]
  BY DEF Init
<1>2. DOMAIN score = corpus /\ DOMAIN score \subseteq DOMAIN Rows /\ pool = {}
  BY <1>1, SlotAssumption DEF Init
<1>3. 0 \in Scores
  BY ScoresAre, SMT
<1>4. score \in [DOMAIN score -> Scores]
  BY <1>1, <1>2, <1>3
<1>5. query \in Queries /\ topK \in Nat /\ pc \in Steps
  BY SlotAssumption DEF Init, Steps
<1>6. /\ selected \in Seq(pool) /\ IsInjective(selected) /\ Len(selected) = 0
      /\ filled \in Seq(Labels) /\ Len(filled) = 0 /\ todo \in Seq(SlotsOf(query))
  <2>1. selected = <<>> /\ filled = <<>> /\ todo = <<>>
    BY DEF Init
  <2>2. \A T : <<>> \in Seq(T) /\ Len(<<>>) = 0
    OBVIOUS
  <2>3. IsInjective(<<>>)
    BY DEF IsInjective
  <2>4. QED
    BY <2>1, <2>2, <2>3
<1>7. required = {}
  BY DEF Init
<1>8. QED
  BY <1>2, <1>4, <1>5, <1>6, <1>7 DEF TypeInv

LEMMA RelevancesAre ==
  ASSUME NEW S, NEW relevance \in [S -> Relevances], NEW c \in S
  PROVE  relevance[c] \in Nat /\ relevance[c] <= 100
BY SlotAssumption

LEMMA FuseKeepsTypes == ASSUME TypeInv, Fuse  PROVE TypeInv'
<1>1. PICK relevance \in [DOMAIN score -> Relevances] :
        score' = [c \in DOMAIN score |->
          IF "precision" \in off        THEN Fused(Rows[c], relevance[c], 0) ELSE
          IF RuledOut(Rows[c], query)   THEN 0
          ELSE Fused(Rows[c], relevance[c], TemporalWeight(Rows[c], query))]
  BY DEF Fuse
<1>2. query \in Query
  BY SlotAssumption DEF TypeInv
<1>3. ASSUME NEW c \in DOMAIN score
      PROVE  score'[c] \in Scores
  <2>1. Rows[c] \in Row /\ relevance[c] \in Nat
    BY ScoredRows, RelevancesAre
  <2>2. TemporalWeight(Rows[c], query) \in Nat /\ 0 \in Nat /\ 0 \in Scores
    BY <1>2, <2>1, WeightType, ScoresAre, SMT
  <2>3. /\ Fused(Rows[c], relevance[c], 0) \in Scores
        /\ Fused(Rows[c], relevance[c], TemporalWeight(Rows[c], query)) \in Scores
    BY <2>1, <2>2, FusedType
  <2>4. QED
    BY <1>1, <2>2, <2>3, SMT
<1>4. DOMAIN score' = DOMAIN score
  BY <1>1
<1>5. score' \in [DOMAIN score' -> Scores]
  BY <1>1, <1>3, <1>4
<1>6. QED
  BY <1>4, <1>5 DEF Fuse, TypeInv, case, Steps, SlotsOf

\* Nothing is chosen before the scores are final.
Unfilled == pc \in {"fuse", "finalize"} => selected = <<>> /\ required = {}

LEMMA FinalizeKeepsTypes == ASSUME TypeInv, Unfilled, Finalize  PROVE TypeInv'
<1> DEFINE exact == IF Off("precision") THEN score ELSE ExactTimeCleanup(query, score)
           roles == IF Off("role") THEN exact ELSE TransactionRoleCleanup(query, exact)
<1>1. exact \in [DOMAIN score -> Scores]
  BY ExactCleanupType DEF TypeInv
<1> HIDE DEF exact
<1>2. roles \in [DOMAIN score -> Scores]
  BY <1>1, RoleCleanupType
<1> HIDE DEF roles
<1>3. score' = IF Off("anchors") THEN roles ELSE SourceMetricAdjustments(query, roles)
  BY DEF Finalize, roles, exact
<1>4. score' \in [DOMAIN score -> Scores] /\ DOMAIN score' = DOMAIN score
  <2>1. \A c \in DOMAIN score : Rows[c] \in Row
    BY ScoredRows
  <2>2. QED
    BY <1>2, <1>3, <2>1, AdjustmentsType
<1>5. pool' \subseteq DOMAIN score'
  <2>1. pool' = BestRows(score')
    BY DEF Finalize
  <2>2. QED
    BY <2>1 DEF BestRows
<1>6. todo' \in Seq(SlotsOf(query)')
  BY SlotsAre DEF Finalize, TypeInv, case, SlotsOf
<1>7. selected' = <<>> /\ selected' \in Seq(pool') /\ required' = {}
  <2>1. selected = <<>> /\ required = {} /\ UNCHANGED <<selected, required>>
    BY DEF Unfilled, Finalize
  <2>2. \A T : <<>> \in Seq(T)
    OBVIOUS
  <2>3. QED
    BY <2>1, <2>2
<1>8. UNCHANGED <<case, filled, selected>> /\ pc' \in Steps
  BY DEF Finalize, Steps
<1>9. QED
  BY <1>4, <1>5, <1>6, <1>7, <1>8 DEF TypeInv, case

LEMMA FillSlotKeepsTypes == ASSUME TypeInv, FillSlot  PROVE TypeInv'
<1>1. UNCHANGED <<case, score, pool>> /\ UNCHANGED pc /\ todo # <<>> /\ todo' = Tail(todo)
  BY DEF FillSlot
<1>2. todo' \in Seq(SlotsOf(query)') /\ Head(todo) \in SlotsOf(query)
  <2>1. query' = query /\ todo \in Seq(SlotsOf(query))
    BY <1>1 DEF case, TypeInv
  <2>2. Tail(todo) \in Seq(SlotsOf(query)) /\ Head(todo) \in SlotsOf(query)
    BY <1>1, <2>1
  <2>3. QED
    BY <1>1, <2>1, <2>2 DEF SlotsOf
<1>3. CaseInv' /\ pool' = pool
  BY <1>1, CaseKeeps, TypeParts
<1>4. required' \subseteq pool /\ EvidenceInv'
  <2>1. CASE UNCHANGED <<selected, filled, required>>
    BY <1>1, <2>1, SameEvidence DEF TypeInv
  <2>2. CASE /\ SlotMatches(Head(todo)) # {}
             /\ required' = required \cup {Best(Head(todo))}
             /\ Add(Best(Head(todo)), Head(todo)[1])
    <3>1. Best(Head(todo)) \in pool \ Chosen
      BY <1>2, <2>2, SlotMatchesAre, BestIsOne
    <3>2. Head(todo)[1] \in Labels
      BY <1>2 DEF Labels, SlotsOf
    <3>3. QED
      BY <1>1, <2>2, <3>1, <3>2, AddKeeps DEF TypeInv
  <2>3. QED
    BY <2>1, <2>2 DEF FillSlot
<1>5. QED
  BY <1>1, <1>2, <1>3, <1>4 DEF TypeInv, CaseInv, EvidenceInv

LEMMA EmergencyKeepsTypes == ASSUME TypeInv, Emergency  PROVE TypeInv'
<1> DEFINE weak == Having("weak_eligible")
           last == IF weak # {} THEN weak ELSE Having("suppressed")
<1>1. UNCHANGED <<case, score, pool>> /\ UNCHANGED <<todo, required>> /\ pc' = "done"
  BY DEF Emergency
<1>2. CaseInv' /\ pool' = pool /\ SlotsOf(query)' = SlotsOf(query)
  BY <1>1, CaseKeeps, TypeParts
<1>3. EvidenceInv'
  <2>1. CASE UNCHANGED <<selected, filled>>
    BY <1>1, <2>1, SameEvidence
  <2>2. CASE selected = <<>> /\ last # {} /\ Add(First(last), "emergency_fallback")
    <3>1. last \subseteq pool
      BY DEF Having
    <3>2. First(last) \in pool
      BY <2>2, <3>1, FirstIsOne
    <3>3. Chosen = {}
      BY <2>2 DEF Chosen, ToSet
    <3>4. "emergency_fallback" \in Labels
      BY DEF Labels
    <3>5. QED
      BY <1>1, <2>2, <3>2, <3>3, <3>4, AddKeeps
  <2>3. QED
    BY <2>1, <2>2 DEF Emergency
<1>4. QED
  BY <1>1, <1>2, <1>3 DEF TypeInv, CaseInv, EvidenceInv, Steps

LEMMA NextTypes == TypeInv /\ Unfilled /\ [Next]_vars => TypeInv'
<1> SUFFICES ASSUME TypeInv, Unfilled, [Next]_vars
             PROVE  TypeInv'
  OBVIOUS
<1>1. CASE Fuse
  BY <1>1, FuseKeepsTypes
<1>2. CASE Finalize
  BY <1>2, FinalizeKeepsTypes
<1>3. CASE Rank
  <2>1. pool \subseteq pool /\ "score" \in Labels /\ "done" \in Steps
    BY DEF Steps, Labels
  <2>2. QED
    BY <1>3, <2>1, TakeKeepsTypes DEF Rank
<1>4. CASE FillSlot
  BY <1>4, FillSlotKeepsTypes
<1>5. CASE SlotsDone
  BY <1>5 DEF SlotsDone, TypeInv, case, Steps, SlotsOf
<1>6. CASE FillEligible
  <2>1. Having("eligible") \subseteq pool /\ "eligible_filler" \in Labels /\ "weak" \in Steps
    BY DEF Having, Steps, Labels
  <2>2. QED
    BY <1>6, <2>1, TakeKeepsTypes DEF FillEligible
<1>7. CASE FillWeak
  <2>1. /\ Having("weak_eligible") \subseteq pool /\ "weak_eligible_filler" \in Labels
        /\ "emergency" \in Steps
    BY DEF Having, Steps, Labels
  <2>2. QED
    BY <1>7, <2>1, TakeKeepsTypes DEF FillWeak
<1>8. CASE SkipWeak
  BY <1>8 DEF SkipWeak, TypeInv, case, Steps, SlotsOf
<1>9. CASE Emergency
  BY <1>9, EmergencyKeepsTypes
<1>10. CASE UNCHANGED vars
  BY <1>10 DEF vars, TypeInv, case, SlotsOf
<1>11. QED
  BY <1>1, <1>2, <1>3, <1>4, <1>5, <1>6, <1>7, <1>8, <1>9, <1>10 DEF Next

----------------------------------------------------------------------------
(* The scores of the day that is asked for.                                *)

\* A question that asks for the day k and for no other.
AsksForOnly(k) ==
  /\ ~ Off("precision") /\ ~ query.cue
  /\ ~ query.contested /\ ~ AsksFiling(query)
  /\ Targets = {k} /\ ~ RuledOutDay(k)

\* After the fusion a row of that day may be behind, but not by too much.
FusedInv ==
  pc = "finalize" =>
    \A k \in Targets : AsksForOnly(k) => \A c \in DOMAIN score : HasValidTime(Rows[c]) =>
      IF IsExactMatch(k, Rows[c])
      THEN score[c] >= 127000 /\ (NothingRuledOut => score[c] >= 400000)
      ELSE score[c] <= 871000

LEMMA TargetsArePositive == Targets = Positive(query)
BY DEF Targets, Positive

LEMMA QueriesAreQuestions ==
  ASSUME TypeInv
  PROVE  Question(query) /\ query \in Query /\ IsFiniteSet(Targets)
<1>1. query \in Query /\ IsFiniteSet(query.constraints) /\ \A k \in query.constraints : WellFormed(k)
  BY SlotAssumption DEF TypeInv
<1>2. IsFiniteSet(Targets)
  BY <1>1, FS_Subset DEF Targets
<1>3. QED
  BY <1>1, <1>2 DEF Question

LEMMA FuseBounds ==
  ASSUME TypeInv, Fuse, NEW k \in Targets, AsksForOnly(k), NEW c \in DOMAIN score, HasValidTime(Rows[c])
  PROVE  IF IsExactMatch(k, Rows[c])
         THEN score'[c] >= 127000 /\ (NothingRuledOut => score'[c] >= 400000)
         ELSE score'[c] <= 871000
<1>1. PICK relevance \in [DOMAIN score -> Relevances] :
        score' = [e \in DOMAIN score |->
          IF "precision" \in off        THEN Fused(Rows[e], relevance[e], 0) ELSE
          IF RuledOut(Rows[e], query)   THEN 0
          ELSE Fused(Rows[e], relevance[e], TemporalWeight(Rows[e], query))]
  BY DEF Fuse
<1>2. Question(query) /\ query \in Query
  BY QueriesAreQuestions
<1>3. "precision" \notin off /\ ~ query.contested /\ ~ AsksFiling(query)
  BY DEF AsksForOnly, Off
<1>4. Rows[c] \in Row /\ relevance[c] \in Nat /\ relevance[c] <= 100
  BY ScoredRows, RelevancesAre
<1> DEFINE r == Rows[c]
           w == TemporalWeight(r, query)
<1>5. w \in Nat /\ r.kind # "filing"
  BY <1>2, <1>4, WeightType DEF HasValidTime
<1>6. score'[c] = IF RuledOut(r, query) THEN 0 ELSE Fused(r, relevance[c], w)
  BY <1>1, <1>3
<1>7. CASE IsExactMatch(k, r)
  <2>1. k \in Positive(query) /\ ~ RulesOut(query, k)
    BY TargetsArePositive DEF AsksForOnly, RulesOut, RuledOutDay
  <2>2. w >= 2200 /\ ~ RuledOut(r, query) /\ (NothingRuledOut => w = 10000)
    BY <1>2, <1>3, <1>4, <1>5, <1>7, <2>1, ExactWeight DEF NothingRuledOut
  <2>3. QED
    BY <1>4, <1>5, <1>6, <1>7, <2>2, FusedBounds
<1>8. CASE ~ IsExactMatch(k, r)
  <2>1. Positive(query) = {k}
    BY TargetsArePositive DEF AsksForOnly
  <2>2. w <= 8600
    BY <1>2, <1>3, <1>4, <1>8, <2>1, OtherWeight
  <2>3. Fused(r, relevance[c], w) <= 871000
    BY <1>4, <1>5, <2>2, FusedBounds
  <2>4. QED
    BY <1>6, <1>8, <2>3, SMT
<1>9. QED
  BY <1>7, <1>8

\* Both corrections leave it ahead.
LEMMA FinalizeKeepsApart ==
  ASSUME TypeInv, FusedInv, Finalize, NEW k \in Targets, AsksForOnly(k),
         NEW c \in DOMAIN score, NEW d \in DOMAIN score,
         HasValidTime(Rows[c]), HasValidTime(Rows[d]), Neighborhood(Rows[c]) = Neighborhood(Rows[d]),
         NothingRuledOut \/ SourceStrength(Rows[c], query) >= SourceStrength(Rows[d], query),
         IsExactMatch(k, Rows[c]), ~ IsExactMatch(k, Rows[d])
  PROVE  score'[c] > score'[d]
<1> DEFINE exact == ExactTimeCleanup(query, score)
           roles == IF Off("role") THEN exact ELSE TransactionRoleCleanup(query, exact)
<1>1. /\ ~ Off("precision") /\ ~ query.cue /\ Positive(query) = {k}
      /\ score \in [DOMAIN score -> Scores] /\ pc = "finalize"
  BY TargetsArePositive DEF AsksForOnly, TypeInv, Finalize
<1>2. score[c] >= 127000 /\ score[d] <= 871000 /\ (NothingRuledOut => score[c] >= 400000)
  BY <1>1, SMT DEF FusedInv
<1>3. /\ exact \in [DOMAIN score -> Scores] /\ exact[c] >= 167000 /\ exact[d] <= 156780
      /\ NothingRuledOut => exact[c] >= 440000
  <2>1. exact \in [DOMAIN score -> Scores]
    BY <1>1, ExactCleanupType
  <2>2. /\ exact[c] >= 167000 /\ exact[d] <= 156780
        /\ score[c] >= 400000 => exact[c] >= 440000
    <3> HIDE DEF exact
    <3>1. exact = ExactTimeCleanup(query, score)
      BY DEF exact
    <3>2. /\ ExactTimeCleanup(query, score)[c] >= 167000
          /\ ExactTimeCleanup(query, score)[d] <= 156780
          /\ score[c] >= 400000 => ExactTimeCleanup(query, score)[c] >= 440000
      BY <1>1, <1>2, ExactCleanupParts
    <3>3. QED
      BY <3>1, <3>2
  <2>3. QED
    BY <1>2, <2>1, <2>2
<1>4. score' = IF Off("anchors") THEN roles ELSE SourceMetricAdjustments(query, roles)
  BY <1>1 DEF Finalize
<1> HIDE DEF exact
<1>5. /\ roles \in [DOMAIN score -> Scores] /\ roles[c] >= 167000 /\ roles[d] <= 156780
      /\ NothingRuledOut => roles[c] >= 440000
  BY <1>3, RoleCleanupType, RoleCleanupSpares, SMT
<1> HIDE DEF roles
<1>6. roles[c] > roles[d]
  BY <1>5, ScoresAre, SMT
<1>7. SourceMetricAdjustments(query, roles)[c] > SourceMetricAdjustments(query, roles)[d]
  <2>1. Rows[c] \in Row /\ Rows[d] \in Row
    BY ScoredRows
  <2>2. roles[c] >= 440000 \/ SourceStrength(Rows[c], query) >= SourceStrength(Rows[d], query)
    BY <1>5
  <2>3. QED
    BY <1>5, <2>1, <2>2, AdjustmentsKeepApart, SMT
<1>8. QED
  BY <1>4, <1>6, <1>7

ScoreInv == FusedInv /\ ExactBeatsItsNeighbours

\* What does not touch the case or the scores leaves the order of the rows alone.
LEMMA SameScores ==
  ASSUME UNCHANGED <<case, score, pool>>
  PROVE  /\ pool' = pool /\ DOMAIN score' = DOMAIN score /\ query' = query /\ topK' = topK /\ off' = off
         /\ score' = score /\ Targets' = Targets /\ \A part : Off(part)' = Off(part)
         /\ \A k : RuledOutDay(k)' = RuledOutDay(k)
         /\ NothingRuledOut' = NothingRuledOut
BY DEF case, Targets, Off, RuledOutDay, NothingRuledOut

LEMMA ScoresStay ==
  ASSUME ScoreInv, UNCHANGED <<case, score, pool>>, pc \notin {"fuse", "finalize"}, pc' \notin {"fuse", "finalize"}
  PROVE  ScoreInv'
<1>1. FusedInv'
  BY DEF FusedInv
<1>2. ExactBeatsItsNeighbours'
  BY SameScores, SMT DEF ScoreInv, ExactBeatsItsNeighbours
<1>3. QED
  BY <1>1, <1>2 DEF ScoreInv

LEMMA FuseScores == ASSUME TypeInv, Fuse  PROVE ScoreInv'
<1>1. UNCHANGED case /\ pc' = "finalize" /\ DOMAIN score' = DOMAIN score
  BY DEF Fuse
<1>2. query' = query /\ off' = off /\ Targets' = Targets /\ NothingRuledOut' = NothingRuledOut
  BY <1>1 DEF case, Targets, NothingRuledOut
<1>3. \A k : AsksForOnly(k)' <=> AsksForOnly(k)
  BY <1>2 DEF AsksForOnly, Off, Targets, RuledOutDay
<1>4. FusedInv'
  <2> SUFFICES ASSUME NEW k \in Targets', AsksForOnly(k)', NEW c \in DOMAIN score', HasValidTime(Rows[c])
               PROVE  IF IsExactMatch(k, Rows[c])
                      THEN score'[c] >= 127000 /\ (NothingRuledOut' => score'[c] >= 400000)
                      ELSE score'[c] <= 871000
    BY SMT DEF FusedInv
  <2>1. k \in Targets /\ AsksForOnly(k) /\ c \in DOMAIN score
    BY <1>1, <1>2, <1>3
  <2>2. QED
    BY <1>2, <2>1, FuseBounds
<1>5. ExactBeatsItsNeighbours'
  BY <1>1 DEF ExactBeatsItsNeighbours
<1>6. QED
  BY <1>4, <1>5 DEF ScoreInv

LEMMA FinalizeScores == ASSUME TypeInv, ScoreInv, Finalize  PROVE ScoreInv'
<1>1. UNCHANGED case /\ pc' \in {"rank", "slots"}
  BY DEF Finalize
<1>2. DOMAIN score' = DOMAIN score
  <2>1. \A q, old : DOMAIN ExactTimeCleanup(q, old) = DOMAIN old
    BY DEF ExactTimeCleanup
  <2>2. \A q, old : DOMAIN TransactionRoleCleanup(q, old) = DOMAIN old
    BY DEF TransactionRoleCleanup
  <2>3. \A q, old : DOMAIN SourceMetricAdjustments(q, old) = DOMAIN old
    BY DEF SourceMetricAdjustments
  <2>4. QED
    BY <2>1, <2>2, <2>3 DEF Finalize
<1>3. query' = query /\ off' = off /\ Targets' = Targets /\ NothingRuledOut' = NothingRuledOut
  BY <1>1 DEF case, Targets, NothingRuledOut
<1>4. FusedInv'
  BY <1>1 DEF FusedInv
<1>5. ExactBeatsItsNeighbours'
  <2> SUFFICES ASSUME ~ Off("precision"), ~ query.cue, ~ query.contested,
                      ~ AsksFiling(query), Cardinality(Targets) = 1,
                      NEW k \in Targets, ~ RuledOutDay(k), NEW c \in DOMAIN score, NEW d \in DOMAIN score,
                      HasValidTime(Rows[c]), HasValidTime(Rows[d]),
                      Neighborhood(Rows[c]) = Neighborhood(Rows[d]),
                      NothingRuledOut \/ SourceStrength(Rows[c], query) >= SourceStrength(Rows[d], query),
                      IsExactMatch(k, Rows[c]), ~ IsExactMatch(k, Rows[d])
               PROVE  score'[c] > score'[d]
    BY <1>2, <1>3 DEF ExactBeatsItsNeighbours, Off, RuledOutDay
  <2>1. Targets = {k}
    BY QueriesAreQuestions, FS_Singleton
  <2>2. AsksForOnly(k)
    BY <2>1 DEF AsksForOnly
  <2>3. QED
    BY <2>2, FinalizeKeepsApart DEF ScoreInv
<1>6. QED
  BY <1>4, <1>5 DEF ScoreInv

LEMMA NextScores == ASSUME TypeInv, ScoreInv, [Next]_vars  PROVE ScoreInv'
<1>1. CASE Fuse
  BY <1>1, FuseScores
<1>2. CASE Finalize
  BY <1>2, FinalizeScores
<1>3. CASE Rank
  BY <1>3, ScoresStay DEF Rank, Take
<1>4. CASE FillSlot
  BY <1>4, ScoresStay DEF FillSlot
<1>5. CASE SlotsDone
  BY <1>5, ScoresStay DEF SlotsDone
<1>6. CASE FillEligible
  BY <1>6, ScoresStay DEF FillEligible, Take
<1>7. CASE FillWeak
  BY <1>7, ScoresStay DEF FillWeak, Take
<1>8. CASE SkipWeak
  BY <1>8, ScoresStay DEF SkipWeak
<1>9. CASE Emergency
  BY <1>9, ScoresStay DEF Emergency
<1>10. CASE UNCHANGED vars
  <2>1. UNCHANGED <<case, score, pool, pc>>
    BY <1>10 DEF vars
  <2>2. FusedInv'
    BY <2>1, SameScores, SMT DEF ScoreInv, FusedInv, AsksForOnly
  <2>3. ExactBeatsItsNeighbours'
    BY <2>1, SameScores, SMT DEF ScoreInv, ExactBeatsItsNeighbours
  <2>4. QED
    BY <2>2, <2>3 DEF ScoreInv
<1>11. QED
  BY <1>1, <1>2, <1>3, <1>4, <1>5, <1>6, <1>7, <1>8, <1>9, <1>10 DEF Next

----------------------------------------------------------------------------
(* The slots and what fills the room that they leave.                      *)

Assembling ==
  \/ pc \in {"slots", "fill", "weak", "emergency"}
  \/ pc = "done" /\ ~ Off("slots")

SideRows(i) == {c \in pool : IsExactTarget(Rows[c], query) /\ BestSide(Rows[c], query) = i}

\* Slots that had their turn.
Turn == Len(Slots(query)) - Len(todo)

SlotsInv ==
  /\ Len(todo) <= Len(Slots(query))
  /\ \A j \in 1..Len(todo) : todo[j] = Slots(query)[Turn + j]
  /\ Len(selected) <= Turn
  /\ Chosen \subseteq required

RequiredInv == required \subseteq Chosen \/ (Chosen \subseteq required /\ Len(selected) >= topK)

AloneInv ==
  \A c \in Chosen \ required : Suppressed(Rows[c]) => pc = "done" /\ selected = <<c>>

\* What is known by its filing only, where the time something was valid is asked for.
Stale(c) == query.validTime /\ TransactionOnly(Rows[c]) /\ \E d \in pool : ~ TransactionOnly(Rows[d])

FilingInv ==
  \A i \in 1..Len(selected) : Stale(selected[i]) =>
    filled[i] \in {"exact_version", "conflict_primary", "conflict_side"}

SidesInv ==
  topK >= 2 =>
    \A i \in DOMAIN query.sides : (pc = "slots" => i <= Turn) =>
      SideRows(i) = {} \/ SideRows(i) \cap Chosen # {}

SeatedInv == RequiredInv /\ AloneInv /\ FilingInv /\ SidesInv

AssemblyInv ==
  /\ Unfilled
  /\ pc = "rank" => Off("slots")
  /\ pc = "slots" => SlotsInv
  /\ Assembling /\ topK > 0 => SeatedInv

\* Neither the slots nor the fillers change what a row is.
LEMMA SameRows ==
  ASSUME UNCHANGED <<case, score, pool>>
  PROVE  /\ \A c : Suppressed(Rows[c])' <=> Suppressed(Rows[c])
         /\ \A c : Stale(c)' <=> Stale(c)
         /\ \A i : SideRows(i)' = SideRows(i)
         /\ Slots(query)' = Slots(query) /\ (Off("slots")' <=> Off("slots"))
<1>1. pool' = pool /\ query' = query /\ off' = off
  BY SameScores
<1>2. ExactOrNarrow' = ExactOrNarrow
  BY <1>1 DEF ExactOrNarrow
<1>3. \A c : Suppressed(Rows[c])' <=> Suppressed(Rows[c])
  <2>1. AskedMetrics(query)' = AskedMetrics(query)
    BY <1>1 DEF AskedMetrics
  <2>2. \A c : MetricFit(Rows[c], query)' = MetricFit(Rows[c], query)
    BY <1>1, <2>1 DEF MetricFit
  <2>3. QED
    BY <1>1, <1>2, <2>2 DEF Suppressed, WrongTime
<1>4. \A c : Stale(c)' <=> Stale(c)
  BY <1>1 DEF Stale
<1>5. \A i : SideRows(i)' = SideRows(i)
  BY <1>1 DEF SideRows
<1>6. QED
  BY <1>1, <1>3, <1>4, <1>5, SameScores

\* Evidence that does not change stays well seated.
LEMMA SeatsStay ==
  ASSUME TypeInv, SeatedInv, UNCHANGED <<case, score, pool, selected, filled, required>>,
         pc # "done", pc' # "slots", pc = "slots" => \A i \in DOMAIN query.sides : i <= Turn
  PROVE  SeatedInv'
<1>1. topK' = topK /\ query' = query /\ Chosen' = Chosen
  BY SameScores DEF Chosen
<1>2. RequiredInv'
  BY <1>1 DEF SeatedInv, RequiredInv
<1>3. AloneInv'
  BY <1>1, SameRows DEF SeatedInv, AloneInv
<1>4. FilingInv'
  BY <1>1, SameRows DEF SeatedInv, FilingInv
<1>5. SidesInv'
  BY <1>1, SameRows DEF SeatedInv, SidesInv
<1>6. QED
  BY <1>2, <1>3, <1>4, <1>5 DEF SeatedInv

\* A row that is not held back takes a seat that is left.
LEMMA FillerSeats ==
  ASSUME TypeInv, SeatedInv, UNCHANGED <<case, score, pool, required>>, pc \notin {"slots", "done"}, pc' # "slots",
         NEW c \in pool \ Chosen, NEW slot \in Labels, Add(c, slot), Len(selected) < topK,
         ~ Suppressed(Rows[c]) \/ (pc' = "done" /\ selected = <<>>),
         ~ Stale(c)
  PROVE  SeatedInv'
<1>1. /\ topK' = topK /\ query' = query /\ Chosen' = Chosen \cup {c}
      /\ selected' = Append(selected, c) /\ filled' = Append(filled, slot)
      /\ Len(selected') = Len(selected) + 1 /\ Len(filled) = Len(selected)
  BY SameScores, AddIs DEF TypeInv
<1>2. RequiredInv'
  <2>1. required \subseteq Chosen
    BY DEF SeatedInv, RequiredInv, TypeInv
  <2>2. QED
    BY <1>1, <2>1 DEF RequiredInv
<1>3. AloneInv'
  <2> SUFFICES ASSUME NEW e \in Chosen' \ required', Suppressed(Rows[e])'
               PROVE  pc' = "done" /\ selected' = <<e>>
    BY DEF AloneInv
  <2>1. Suppressed(Rows[e])
    BY SameRows
  <2>2. e = c
    BY <1>1, <2>1 DEF SeatedInv, AloneInv
  <2>3. pc' = "done" /\ selected = <<>>
    BY <2>1, <2>2
  <2>4. selected' = <<e>>
    BY <1>1, <2>2, <2>3
  <2>5. QED
    BY <2>3, <2>4
<1>4. FilingInv'
  <2> SUFFICES ASSUME NEW i \in 1..Len(selected'), Stale(selected[i])'
               PROVE  filled'[i] \in {"exact_version", "conflict_primary", "conflict_side"}
    BY DEF FilingInv
  <2>1. Stale(selected'[i])
    BY SameScores DEF Stale
  <2>2. Len(selected) \in Nat /\ selected \in Seq(pool) /\ filled \in Seq(Labels)
    BY DEF TypeInv
  <2>3. CASE i \in 1..Len(selected)
    <3>1. selected'[i] = selected[i] /\ filled'[i] = filled[i]
      BY <1>1, <2>2, <2>3
    <3>2. QED
      BY <2>1, <2>3, <3>1 DEF SeatedInv, FilingInv
  <2>4. CASE i = Len(selected) + 1
    <3>1. selected'[i] = c
      BY <1>1, <2>2, <2>4
    <3>2. QED
      BY <2>1, <3>1
  <2>5. QED
    BY <1>1, <2>2, <2>3, <2>4
<1>5. SidesInv'
  BY <1>1, SameRows DEF SeatedInv, SidesInv
<1>6. QED
  BY <1>2, <1>3, <1>4, <1>5 DEF SeatedInv

\* The slots have their turns in order.
LEMMA TurnIsNext ==
  ASSUME TypeInv, SlotsInv, FillSlot
  PROVE  /\ Turn \in Nat /\ Turn' = Turn + 1 /\ Len(todo') <= Len(Slots(query)')
         /\ \A j \in 1..Len(todo') : todo'[j] = Slots(query)'[Turn' + j]
         /\ \A i \in DOMAIN query.sides : i \in Nat /\ i <= 2
         /\ \A i \in DOMAIN query.sides : i = Turn + 1 => Head(todo) = <<"comparison_slot", i>>
<1>1. UNCHANGED <<case, score, pool>> /\ todo # <<>> /\ todo' = Tail(todo)
  BY DEF FillSlot
<1>2. Slots(query)' = Slots(query)
  BY <1>1, SameRows
<1> DEFINE all == Slots(query)
<1>3. all \in Seq(SlotsOf(query)) /\ todo \in Seq(SlotsOf(query))
  BY SlotsAre DEF TypeInv
<1>4. \A i \in DOMAIN query.sides : i \in 1..Len(all) /\ i <= 2 /\ all[i] = <<"comparison_slot", i>>
  BY SlotsAre DEF TypeInv
<1>5. Len(todo) <= Len(all) /\ (\A j \in 1..Len(todo) : todo[j] = all[Turn + j]) /\ Turn = Len(all) - Len(todo)
  BY DEF SlotsInv, Turn
<1>6. Turn' = Len(all) - Len(todo')
  BY <1>2 DEF Turn
<1> HIDE DEF all
<1>7. Len(todo) \in Nat /\ Len(todo) >= 1 /\ Len(all) \in Nat /\ Len(todo') = Len(todo) - 1
      /\ Head(todo) = todo[1] /\ \A j \in 1..Len(todo') : todo'[j] = todo[j + 1]
  BY <1>1, <1>3
<1>8. Turn \in Nat /\ Turn' = Turn + 1
  BY <1>5, <1>6, <1>7
<1>9. \A j \in 1..Len(todo') : todo'[j] = all[Turn' + j]
  <2> TAKE j \in 1..Len(todo')
  <2>1. j + 1 \in 1..Len(todo) /\ Turn + (j + 1) = Turn' + j
    BY <1>7, <1>8
  <2>2. QED
    BY <1>5, <1>7, <2>1
<1>10. ASSUME NEW i \in DOMAIN query.sides, i = Turn + 1
       PROVE  Head(todo) = <<"comparison_slot", i>>
  <2>1. 1 \in 1..Len(todo)
    BY <1>7
  <2>2. QED
    BY <1>4, <1>5, <1>7, <1>10, <2>1
<1>11. \A i \in DOMAIN query.sides : i \in Nat /\ i <= 2
  BY <1>4
<1>12. QED
  BY <1>2, <1>5, <1>7, <1>8, <1>9, <1>10, <1>11 DEF all

LEMMA SlotIsMissed ==
  ASSUME TypeInv, SlotsInv, SeatedInv, FillSlot, pc = "slots",
         SlotMatches(Head(todo)) = {}, UNCHANGED <<selected, filled, required>>
  PROVE  SlotsInv' /\ SeatedInv'
<1>1. UNCHANGED <<case, score, pool, pc>>
  BY DEF FillSlot
<1>2. topK' = topK /\ query' = query /\ Chosen' = Chosen /\ Chosen \subseteq required
  BY <1>1, SameScores DEF Chosen, SlotsInv
<1>3. SlotsInv'
  <2>1. Len(selected) <= Turn /\ Len(selected) \in Nat
    BY DEF SlotsInv, TypeInv
  <2>2. Len(selected') <= Turn'
    BY <2>1, TurnIsNext
  <2>3. QED
    BY <1>2, <2>2, TurnIsNext DEF SlotsInv
<1>4. RequiredInv'
  BY <1>2 DEF SeatedInv, RequiredInv
<1>5. AloneInv'
  BY <1>2 DEF AloneInv
<1>6. FilingInv'
  BY <1>1, SameRows DEF SeatedInv, FilingInv
<1>7. SidesInv'
  <2> SUFFICES ASSUME topK >= 2, NEW i \in DOMAIN query.sides, i <= Turn'
               PROVE  SideRows(i) = {} \/ SideRows(i) \cap Chosen # {}
    BY <1>1, <1>2, SameRows DEF SidesInv
  <2>1. CASE i <= Turn
    BY <1>1, <2>1 DEF SeatedInv, SidesInv
  <2>2. CASE ~ i <= Turn
    <3>1. i = Turn + 1
      BY <2>2, TurnIsNext
    <3>2. Head(todo) = <<"comparison_slot", i>>
      BY <3>1, TurnIsNext
    <3>3. ComparisonMatches(i) = {}
      BY <3>2 DEF SlotMatches
    <3>4. \A c \in SideRows(i) \ Chosen : c \in ComparisonMatches(i)
      BY DEF SideRows, ComparisonMatches, Exact
    <3>5. QED
      BY <3>3, <3>4
  <2>3. QED
    BY <2>1, <2>2
<1>8. QED
  BY <1>3, <1>4, <1>5, <1>6, <1>7 DEF SeatedInv

LEMMA SlotIsFilled ==
  ASSUME TypeInv, SlotsInv, SeatedInv, FillSlot, pc = "slots", SlotMatches(Head(todo)) # {},
         required' = required \cup {Best(Head(todo))}, Add(Best(Head(todo)), Head(todo)[1])
  PROVE  SlotsInv' /\ SeatedInv'
<1> DEFINE slot == Head(todo)
           c    == Best(slot)
<1>1. UNCHANGED <<case, score, pool, pc>> /\ todo # <<>>
  BY DEF FillSlot
<1>2. slot \in SlotsOf(query)
  BY <1>1 DEF TypeInv
<1>3. c \in SlotMatches(slot) /\ c \in pool \ Chosen
  BY <1>2, SlotMatchesAre, BestIsOne
<1>4. slot[1] \in SlotNames /\ slot[1] \in Labels
  BY <1>2 DEF Labels, SlotsOf
<1>5. topK' = topK /\ query' = query /\ Chosen \subseteq required
  BY <1>1, SameScores DEF SlotsInv
<1>6. /\ Len(selected) \in Nat /\ Len(filled) = Len(selected) /\ topK \in Nat
      /\ selected \in Seq(pool) /\ filled \in Seq(Labels)
  BY DEF TypeInv
<1>7. IF Len(selected) < topK
      THEN /\ selected' = Append(selected, c) /\ filled' = Append(filled, slot[1])
           /\ Len(selected') = Len(selected) + 1 /\ Chosen' = Chosen \cup {c}
      ELSE UNCHANGED <<selected, filled>> /\ Chosen' = Chosen
  BY <1>3, <1>4, AddIs
<1>8. SlotsInv'
  <2>1. Len(selected) <= Turn
    BY DEF SlotsInv
  <2>2. Len(selected') <= Turn'
    BY <1>6, <1>7, <2>1, TurnIsNext
  <2>3. Chosen' \subseteq required'
    BY <1>5, <1>7
  <2>4. QED
    BY <2>2, <2>3, TurnIsNext DEF SlotsInv
<1>9. RequiredInv'
  <2>1. CASE Len(selected) < topK
    <3>1. required \subseteq Chosen
      BY <1>6, <2>1 DEF SeatedInv, RequiredInv
    <3>2. QED
      BY <1>7, <2>1, <3>1 DEF RequiredInv
  <2>2. CASE ~ Len(selected) < topK
    BY <1>5, <1>6, <1>7, <2>2 DEF RequiredInv
  <2>3. QED
    BY <2>1, <2>2
<1>10. AloneInv'
  <2>1. Chosen' \subseteq required'
    BY <1>5, <1>7
  <2>2. QED
    BY <2>1 DEF AloneInv
<1>11. FilingInv'
  <2>1. CASE Len(selected) < topK
    <3> SUFFICES ASSUME NEW i \in 1..Len(selected'), Stale(selected[i])'
                 PROVE  filled'[i] \in {"exact_version", "conflict_primary", "conflict_side"}
      BY DEF FilingInv
    <3>1. Stale(selected'[i])
      BY <1>1, SameScores DEF Stale
    <3>2. CASE i \in 1..Len(selected)
      <4>1. selected'[i] = selected[i] /\ filled'[i] = filled[i]
        BY <1>6, <1>7, <2>1, <3>2
      <4>2. QED
        BY <3>1, <3>2, <4>1 DEF SeatedInv, FilingInv
    <3>3. CASE i = Len(selected) + 1
      <4>1. selected'[i] = c /\ filled'[i] = slot[1]
        BY <1>6, <1>7, <2>1, <3>3
      <4>2. ~ IsExactTarget(Rows[c], query)
        BY <3>1, <4>1, TargetsAreDated DEF Stale
      <4>3. slot[1] \notin {"comparison_slot", "transaction_valid_time", "exact_temporal_target"}
        BY <1>2, <1>3, <4>2, SlotMatchesAre
      <4>4. QED
        BY <1>4, <4>1, <4>3 DEF SlotNames
    <3>4. QED
      BY <1>6, <1>7, <2>1, <3>2, <3>3
  <2>2. CASE ~ Len(selected) < topK
    BY <1>1, <1>7, <2>2, SameRows DEF SeatedInv, FilingInv
  <2>3. QED
    BY <2>1, <2>2
<1>12. SidesInv'
  <2> SUFFICES ASSUME topK >= 2, NEW i \in DOMAIN query.sides, i <= Turn'
               PROVE  SideRows(i) = {} \/ SideRows(i) \cap Chosen' # {}
    BY <1>1, <1>5, SameRows DEF SidesInv
  <2>1. CASE i <= Turn
    <3>1. SideRows(i) = {} \/ SideRows(i) \cap Chosen # {}
      BY <1>1, <2>1 DEF SeatedInv, SidesInv
    <3>2. Chosen \subseteq Chosen'
      BY <1>7
    <3>3. QED
      BY <3>1, <3>2
  <2>2. CASE ~ i <= Turn
    <3>1. i = Turn + 1 /\ i <= 2 /\ Len(selected) <= Turn
      BY <2>2, TurnIsNext DEF SlotsInv
    <3>2. Len(selected) < topK
      BY <1>6, <3>1, TurnIsNext
    <3>3. slot = <<"comparison_slot", i>>
      BY <3>1, TurnIsNext
    <3>4. c \in ComparisonMatches(i)
      BY <1>3, <3>3 DEF SlotMatches
    <3>5. c \in SideRows(i)
      BY <3>4 DEF ComparisonMatches, Exact, SideRows
    <3>6. QED
      BY <1>7, <3>2, <3>5
  <2>3. QED
    BY <2>1, <2>2
<1>13. QED
  BY <1>8, <1>9, <1>10, <1>11, <1>12 DEF SeatedInv

\* What may fill a seat.
LEMMA EligibleAreClean ==
  ASSUME NEW state \in {"eligible", "weak_eligible", "suppressed"}, NEW c \in Having(state)
  PROVE  c \in pool /\ ~ Stale(c) /\ (state # "suppressed" => ~ Suppressed(Rows[c]))
BY DEF Having, Eligibility, Stale

LEMMA FillerTakes ==
  ASSUME TypeInv, AssemblyInv, NEW state \in {"eligible", "weak_eligible"}, NEW step \in {"fill", "weak"},
         NEW next \in {"weak", "emergency"}, NEW slot \in Labels, Take(step, Having(state), slot, next)
  PROVE  AssemblyInv'
<1>1. UNCHANGED <<case, score, pool, required>> /\ pc = step /\ pc' \in {"fill", "weak", "emergency"}
  BY DEF Take
<1>2. topK' = topK
  BY <1>1, SameScores
<1>3. ASSUME topK > 0
      PROVE  SeatedInv'
  <2>1. SeatedInv
    BY <1>1, <1>3 DEF AssemblyInv, Assembling
  <2>2. CASE UNCHANGED <<selected, filled>>
    BY <1>1, <2>1, <2>2, SeatsStay
  <2>3. CASE /\ Having(state) \ Chosen # {} /\ Len(selected) < topK
             /\ Add(First(Having(state) \ Chosen), slot)
    <3>1. Having(state) \subseteq pool
      BY DEF Having
    <3>2. First(Having(state) \ Chosen) \in Having(state) \ Chosen
      BY <2>3, <3>1, FirstIsOne
    <3>3. QED
      BY <1>1, <2>1, <2>3, <3>2, EligibleAreClean, FillerSeats
  <2>4. QED
    BY <2>2, <2>3 DEF Take
<1>4. QED
  BY <1>1, <1>2, <1>3 DEF AssemblyInv, Unfilled

LEMMA EmergencySeats == ASSUME TypeInv, AssemblyInv, Emergency  PROVE AssemblyInv'
<1> DEFINE weak == Having("weak_eligible")
           last == IF weak # {} THEN weak ELSE Having("suppressed")
<1>1. UNCHANGED <<case, score, pool, required>> /\ pc = "emergency" /\ pc' = "done"
  BY DEF Emergency
<1>2. topK' = topK
  BY <1>1, SameScores
<1>3. ASSUME topK > 0
      PROVE  SeatedInv'
  <2>1. SeatedInv
    BY <1>1, <1>3 DEF AssemblyInv, Assembling
  <2>2. CASE UNCHANGED <<selected, filled>>
    BY <1>1, <2>1, <2>2, SeatsStay
  <2>3. CASE selected = <<>> /\ last # {} /\ Add(First(last), "emergency_fallback")
    <3>1. last \subseteq pool
      BY DEF Having
    <3>2. First(last) \in last
      BY <2>3, <3>1, FirstIsOne
    <3>3. Chosen = {} /\ Len(selected) = 0
      BY <2>3 DEF Chosen, ToSet
    <3>4. First(last) \in pool \ Chosen /\ ~ Stale(First(last))
      BY <3>1, <3>2, <3>3, EligibleAreClean
    <3>5. "emergency_fallback" \in Labels
      BY DEF Labels
    <3>6. Len(selected) < topK
      BY <1>3, <3>3
    <3> HIDE DEF last
    <3>7. QED
      BY <1>1, <2>1, <2>3, <3>4, <3>5, <3>6, FillerSeats
  <2>4. QED
    BY <2>2, <2>3 DEF Emergency
<1>4. QED
  BY <1>1, <1>2, <1>3 DEF AssemblyInv, Unfilled

LEMMA FillSlotSeats == ASSUME TypeInv, AssemblyInv, FillSlot  PROVE AssemblyInv'
<1>1. pc = "slots" /\ pc' = "slots" /\ topK > 0
  BY DEF FillSlot
<1>2. SlotsInv /\ SeatedInv
  BY <1>1 DEF AssemblyInv, Assembling
<1>3. SlotsInv' /\ SeatedInv'
  <2>1. CASE SlotMatches(Head(todo)) = {} /\ UNCHANGED <<selected, filled, required>>
    BY <1>1, <1>2, <2>1, SlotIsMissed
  <2>2. CASE /\ SlotMatches(Head(todo)) # {}
             /\ required' = required \cup {Best(Head(todo))}
             /\ Add(Best(Head(todo)), Head(todo)[1])
    BY <1>1, <1>2, <2>2, SlotIsFilled
  <2>3. QED
    BY <2>1, <2>2 DEF FillSlot
<1>4. QED
  BY <1>1, <1>3 DEF AssemblyInv, Unfilled

LEMMA SlotsDoneSeats == ASSUME TypeInv, AssemblyInv, SlotsDone  PROVE AssemblyInv'
<1>1. UNCHANGED <<case, score, pool, selected, filled, required>> /\ pc = "slots" /\ pc' \in {"done", "fill"}
  BY DEF SlotsDone
<1>2. topK' = topK
  BY <1>1, SameScores
<1>3. ASSUME topK > 0
      PROVE  SeatedInv'
  <2>1. SeatedInv /\ todo = <<>>
    BY <1>1, <1>3 DEF AssemblyInv, Assembling, SlotsDone
  <2>2. \A i \in DOMAIN query.sides : i <= Turn
    <3>1. Len(todo) = 0
      BY <2>1
    <3>2. Slots(query) \in Seq(SlotsOf(query)) /\ \A i \in DOMAIN query.sides : i \in 1..Len(Slots(query))
      BY SlotsAre DEF TypeInv
    <3>3. Turn = Len(Slots(query)) /\ Len(Slots(query)) \in Nat
      BY <3>1, <3>2 DEF Turn
    <3>4. QED
      BY <3>2, <3>3
  <2>3. QED
    BY <1>1, <2>1, <2>2, SeatsStay
<1>4. QED
  BY <1>1, <1>2, <1>3 DEF AssemblyInv, Unfilled

LEMMA FinalizeSeats == ASSUME TypeInv, AssemblyInv, Finalize  PROVE AssemblyInv'
<1>1. /\ selected = <<>> /\ required = {} /\ UNCHANGED <<selected, filled, required>> /\ UNCHANGED case
      /\ todo' = Slots(query) /\ pc' = (IF Off("slots") THEN "rank" ELSE "slots")
  BY DEF AssemblyInv, Unfilled, Finalize
<1>2. query' = query /\ off' = off /\ topK' = topK /\ topK \in Nat
  BY <1>1 DEF case, TypeInv
<1>3. Slots(query)' = Slots(query) /\ (Off("slots")' <=> Off("slots"))
  BY <1>2 DEF Off
<1>4. Chosen' = {} /\ Len(selected') = 0 /\ required' = {}
  BY <1>1 DEF Chosen, ToSet
<1>5. /\ Slots(query) \in Seq(SlotsOf(query))
      /\ \A i \in DOMAIN query.sides : i \in 1..Len(Slots(query))
  BY SlotsAre DEF TypeInv
<1>6. Turn' = 0
  BY <1>1, <1>3, <1>5 DEF Turn
<1>7. SlotsInv'
  BY <1>1, <1>3, <1>4, <1>5, <1>6 DEF SlotsInv
<1>8. CASE pc' = "slots"
  <2>1. RequiredInv' /\ AloneInv'
    BY <1>4 DEF RequiredInv, AloneInv
  <2>2. FilingInv'
    BY <1>4 DEF FilingInv
  <2>3. SidesInv'
    BY <1>2, <1>5, <1>6, <1>8 DEF SidesInv
  <2>4. QED
    BY <1>7, <1>8, <2>1, <2>2, <2>3 DEF AssemblyInv, Unfilled, SeatedInv
<1>9. CASE pc' = "rank"
  BY <1>1, <1>3, <1>9 DEF AssemblyInv, Unfilled, Assembling
<1>10. QED
  BY <1>1, <1>8, <1>9

LEMMA NextAssembly == ASSUME TypeInv, AssemblyInv, [Next]_vars  PROVE AssemblyInv'
<1>1. CASE Fuse
  BY <1>1 DEF Fuse, AssemblyInv, Unfilled, Assembling
<1>2. CASE Finalize
  BY <1>2, FinalizeSeats
<1>3. CASE Rank
  <2>1. UNCHANGED <<case, score, pool>> /\ pc = "rank" /\ pc' \in {"rank", "done"}
    BY <1>3 DEF Rank, Take
  <2>2. Off("slots")'
    BY <2>1, SameRows DEF AssemblyInv, Unfilled
  <2>3. QED
    BY <2>1, <2>2 DEF AssemblyInv, Unfilled, Assembling
<1>4. CASE FillSlot
  BY <1>4, FillSlotSeats
<1>5. CASE SlotsDone
  BY <1>5, SlotsDoneSeats
<1>6. CASE FillEligible
  BY <1>6, FillerTakes DEF FillEligible, Labels
<1>7. CASE FillWeak
  BY <1>7, FillerTakes DEF FillWeak, Labels
<1>8. CASE SkipWeak
  <2>1. UNCHANGED <<case, score, pool, selected, filled, required>> /\ pc = "weak" /\ pc' = "emergency"
    BY <1>8 DEF SkipWeak
  <2>2. topK' = topK
    BY <2>1, SameScores
  <2>3. topK > 0 => SeatedInv'
    BY <2>1, SeatsStay DEF AssemblyInv, Assembling
  <2>4. QED
    BY <2>1, <2>2, <2>3 DEF AssemblyInv, Unfilled
<1>9. CASE Emergency
  BY <1>9, EmergencySeats
<1>10. CASE UNCHANGED vars
  <2>1. UNCHANGED <<pc, todo, selected, filled, required>> /\ UNCHANGED <<case, score, pool>>
    BY <1>10 DEF vars
  <2>2. topK' = topK /\ query' = query /\ Chosen' = Chosen /\ Turn' = Turn /\ Assembling' = Assembling
    BY <2>1, SameScores, SameRows DEF Chosen, Turn, Assembling
  <2>3. SlotsInv => SlotsInv'
    BY <2>1, <2>2, SameRows DEF SlotsInv
  <2>4. SeatedInv => SeatedInv'
    BY <2>1, <2>2, SameRows DEF SeatedInv, RequiredInv, AloneInv, FilingInv, SidesInv
  <2>5. QED
    BY <2>1, <2>2, <2>3, <2>4, SameRows DEF AssemblyInv, Unfilled
<1>11. QED
  BY <1>1, <1>2, <1>3, <1>4, <1>5, <1>6, <1>7, <1>8, <1>9, <1>10 DEF Next

----------------------------------------------------------------------------
(* The theorems.                                                           *)

IInv == TypeInv /\ ScoreInv /\ AssemblyInv

\* What every state of a case satisfies: types, the distance between the scores, and
\* what the slots and the fillers have seated so far (finalization.py 59-103,
\* slot_assembler.py 244-352).
THEOREM Invariance == Spec => []IInv
<1>1. Init => IInv
  <2> SUFFICES ASSUME Init
               PROVE  IInv
    OBVIOUS
  <2>1. TypeInv
    BY InitType
  <2>2. pc = "fuse" /\ selected = <<>> /\ required = {}
    BY DEF Init
  <2>3. ScoreInv
    BY <2>2 DEF ScoreInv, FusedInv, ExactBeatsItsNeighbours
  <2>4. AssemblyInv
    BY <2>2 DEF AssemblyInv, Unfilled, Assembling
  <2>5. QED
    BY <2>1, <2>3, <2>4 DEF IInv
<1>2. IInv /\ [Next]_vars => IInv'
  BY NextTypes, NextScores, NextAssembly DEF IInv, AssemblyInv
<1>3. QED
  BY <1>1, <1>2, PTL DEF Spec

\* No question gets more rows than it asked for, a row twice, or one that is not a
\* candidate, and no score leaves its range (slot_assembler.py 264-274).
THEOREM TypeCorrect == Spec => []TypeOK
<1>1. IInv => TypeOK
  <2> SUFFICES ASSUME TypeInv
               PROVE  TypeOK
    BY DEF IInv
  <2>1. \A i \in DOMAIN selected : selected[i] \in pool
    BY DEF TypeInv
  <2>2. Chosen \subseteq pool
    BY <2>1 DEF Chosen, ToSet
  <2>3. QED
    BY <2>2 DEF TypeOK, TypeInv
<1>2. QED
  BY <1>1, Invariance, PTL

\* However the scores of the rows that reach the assembler fall, a comparison with
\* room for both sides keeps a row of the time that is asked for on each side that
\* has one among those rows (slot_assembler.py 276-283, finalization.py 92).
THEOREM NoSideIsCrowdedOut == Spec => []BothSidesAreKept
<1>1. IInv => BothSidesAreKept
  <2> SUFFICES ASSUME IInv, Assembled, topK >= 2, NEW i \in DOMAIN query.sides
               PROVE  SideRows(i) # {} => SideRows(i) \cap Chosen # {}
    BY DEF BothSidesAreKept, SideRows
  <2>1. SidesInv /\ pc = "done"
    BY DEF IInv, AssemblyInv, Assembling, Assembled, SeatedInv
  <2>2. QED
    BY <2>1 DEF SidesInv
<1>2. QED
  BY <1>1, Invariance, PTL

\* A row of another time, version, source or metric than what reaches the assembler
\* has is evidence only if a slot asked for it or there is nothing else, and no filler
\* takes the seat of a required row (slot_assembler.py 313-340, 475-531).
THEOREM WrongEvidenceIsLast == Spec => []WrongEvidenceStandsAlone
<1>1. IInv => WrongEvidenceStandsAlone
  <2> SUFFICES ASSUME IInv, Assembled
               PROVE  /\ \A c \in Chosen \ required : Suppressed(Rows[c]) => selected = <<c>>
                      /\ ~ required \subseteq Chosen => Chosen \subseteq required
    BY DEF WrongEvidenceStandsAlone
  <2>1. RequiredInv /\ AloneInv
    BY DEF IInv, AssemblyInv, Assembling, Assembled, SeatedInv
  <2>2. QED
    BY <2>1 DEF RequiredInv, AloneInv
<1>2. QED
  BY <1>1, Invariance, PTL

\* What is known by its filing only does not answer for a time something was valid
\* that a row before the assembler has, unless as a version or as a side of a
\* conflict (slot_assembler.py 285-311, 499-501).
THEOREM FilingsStayOut == Spec => []FilingsNeverStandIn
<1>1. IInv => FilingsNeverStandIn
  <2> SUFFICES ASSUME IInv, Assembled, query.validTime, \E c \in pool : ~ TransactionOnly(Rows[c]),
                      NEW i \in DOMAIN selected, TransactionOnly(Rows[selected[i]])
               PROVE  filled[i] \in {"exact_version", "conflict_primary", "conflict_side"}
    BY DEF FilingsNeverStandIn
  <2>1. FilingInv
    BY DEF IInv, AssemblyInv, Assembling, Assembled, SeatedInv
  <2>2. i \in 1..Len(selected)
    BY DEF IInv, TypeInv
  <2>3. Stale(selected[i])
    BY DEF Stale
  <2>4. QED
    BY <2>1, <2>2, <2>3 DEF FilingInv
<1>2. QED
  BY <1>1, Invariance, PTL

\* Whatever the words are worth, a row of the one day that is asked for ends up ahead
\* of every dated row about the same thing; where times are ruled out, of those whose
\* source the question does not name better (adapter.py 143-170, finalization.py
\* 126-223, 299-306).
THEOREM ExactIsAhead == Spec => []ExactBeatsItsNeighbours
<1>1. IInv => ExactBeatsItsNeighbours
  BY DEF IInv, ScoreInv
<1>2. QED
  BY <1>1, Invariance, PTL

=============================================================================
