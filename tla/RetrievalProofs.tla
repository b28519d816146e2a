-------------------------- MODULE RetrievalProofs --------------------------
(***************************************************************************)
(* What Retrieval guarantees for any corpus, any number of requests and    *)
(* ingests, any fan-out and any weights that hold apart exact evidence and *)
(* evidence of an unknown or a publication time only.                      *)
(***************************************************************************)
EXTENDS Retrieval, FiniteSetTheorems, TLAPS

----------------------------------------------------------------------------
(* The invariant.                                                          *)

Stages == {"list", "search", "searching", "filter", "score", "reply", "idle"}

Scores == UNION {[S -> Nat] : S \in SUBSET Ids}

Locals ==
  [k : TopKs \cup {1}, mode : {"HARD", "INTELLIGENT"}, judge : JudgeModes \cup {"off"},
   lexical : SUBSET Ids, size : Nat, first : Scores, todo : SUBSET Ids,
   final : Scores, results : SUBSET Ids, outcome : {"none", "ok", "error"}]

Types ==
  /\ chunks \in SUBSET Ids /\ entries \in SUBSET Ids /\ closed \in SUBSET Ids
  /\ pc \in [Readers -> Stages]
  /\ local \in [Readers -> Locals]
  /\ writing \in [Writers -> [step : {"idle", "close", "put"}, new : Ids \cup {0}]]
  /\ known \in [Readers -> SUBSET Ids]

\* A chunk is stored after its entry, and closed only when it is stored.
StoreInv ==
  /\ chunks \subseteq entries /\ closed \subseteq chunks
  /\ \A w \in Writers : writing[w].step # "idle" => writing[w].new \in entries

\* What a reader has in hand was stored when it read it.
HandInv(t) ==
  /\ known[t] \subseteq chunks
  /\ local[t].lexical \subseteq chunks
  /\ DOMAIN local[t].first \subseteq chunks
  /\ local[t].todo \subseteq chunks
  /\ DOMAIN local[t].final \subseteq chunks
  /\ local[t].results \subseteq DOMAIN local[t].final
  /\ Cardinality(local[t].results) <= local[t].k

Fits(t) == Cardinality(entries) <= RerankLimit(local[t].k)

Wanted(t) == {c \in known[t] : Admitted(local[t].mode, Corpus[c])}

\* A chunk that was stored when the request came is in each stage's result.
FitInv(t) ==
  Fits(t) =>
    /\ pc[t] \in {"search", "searching"} => known[t] \subseteq local[t].lexical
    /\ pc[t] = "filter" => known[t] \subseteq DOMAIN local[t].first
    /\ pc[t] = "score" => Wanted(t) \subseteq local[t].todo \cup DOMAIN local[t].final
    /\ pc[t] = "reply" => Wanted(t) \subseteq DOMAIN local[t].final
    /\ Answered(t) =>
         \A c \in Wanted(t) \ local[t].results :
           /\ c \in DOMAIN local[t].final
           /\ Cardinality(local[t].results) = local[t].k
           /\ \A d \in local[t].results : local[t].final[d] >= local[t].final[c]

Sound(c) == Exact(c) /\ Consistent(c)

\* Before the regions count, the scores are as far apart as the weights make
\* them; afterwards the exact one may have lost seven times eight hundredths.
ScoreInv(t) ==
  /\ pc[t] = "score" =>
       \A c \in DOMAIN local[t].final :
         /\ Weak(c) => local[t].final[c] <= WeakMost
         /\ Sound(c) => local[t].final[c] >= ExactLeast
  /\ pc[t] = "reply" \/ Answered(t) =>
       \A c \in DOMAIN local[t].final :
         /\ Weak(c) => local[t].final[c] <= 100 * WeakMost
         /\ Sound(c) /\ ~ Crowded(t, c) => local[t].final[c] >= 44 * ExactLeast

\* Nothing is scored before the stage that scores.
FreshInv(t) ==
  pc[t] \in {"list", "search", "searching", "filter"} =>
    DOMAIN local[t].final = {} /\ local[t].outcome = "none"

IInv ==
  /\ Types /\ StoreInv
  /\ \A t \in Readers : HandInv(t) /\ FitInv(t) /\ ScoreInv(t) /\ FreshInv(t)

----------------------------------------------------------------------------
(* The n best of a set.                                                    *)

\* A set of numbers has a least one.
LEMMA NatMin ==
  ASSUME NEW T, T \subseteq Nat, T # {}
  PROVE  \E x \in T : \A y \in T : x <= y
<1> DEFINE R == OpToRel(<, Nat)
<1>1. IsWellFoundedOn(R, Nat)
  BY NatLessThanWellFounded
<1>2. \A x, y \in Nat : y < x => <<y, x>> \in R
  BY DEF OpToRel
<1> HIDE DEF R
<1>3. \E x \in T : \A y \in T : ~ (<<y, x>> \in R)
  BY <1>1, WFMin
<1>4. PICK x \in T : \A y \in T : ~ (<<y, x>> \in R)
  BY <1>3, Zenon
<1>5. \A y \in T : ~ (y < x)
  BY <1>2, <1>4
<1>6. \A y \in T : x <= y
  BY <1>5
<1>7. QED
  BY <1>6

Better(S, score, c) == {d \in S : Before(score, d, c)}

\* Among the chunks ahead of another there are all those ahead of them: whoever
\* comes first has fewer ahead.
LEMMA BetterGrows ==
  ASSUME NEW S, IsFiniteSet(S), S \subseteq Nat, NEW score, \A c \in S : score[c] \in Nat,
         NEW c \in S, NEW d \in S, Before(score, c, d)
  PROVE  Cardinality(Better(S, score, c)) < Cardinality(Better(S, score, d))
<1> DEFINE C == Better(S, score, c)
           D == Better(S, score, d)
<1>1. C \subseteq D
  <2>1. ASSUME NEW e \in S, Before(score, e, c)
        PROVE  Before(score, e, d)
    <3>1. score[c] \in Nat /\ score[d] \in Nat /\ score[e] \in Nat
      OBVIOUS
    <3>2. c \in Nat /\ d \in Nat /\ e \in Nat
      OBVIOUS
    <3>3. QED
      BY <2>1, <3>1, <3>2 DEF Before
  <2>2. QED
    BY <2>1 DEF Better
<1>2. c \in D /\ c \notin C
  BY DEF Better, Before
<1>3. IsFiniteSet(D) /\ Cardinality(D) \in Nat
  BY FS_Subset, FS_CardinalityType DEF Better
<1> HIDE DEF C, D
<1>4. IsFiniteSet(C) /\ Cardinality(C) <= Cardinality(D) /\ Cardinality(C) # Cardinality(D)
  BY <1>1, <1>2, <1>3, FS_Subset
<1>5. Cardinality(C) \in Nat
  BY <1>4, FS_CardinalityType
<1>6. Cardinality(C) < Cardinality(D)
  BY <1>3, <1>4, <1>5
<1>7. QED
  BY <1>6 DEF C, D

LEMMA BetterType ==
  ASSUME NEW S, IsFiniteSet(S), NEW score, NEW c
  PROVE  Cardinality(Better(S, score, c)) \in Nat
<1>1. IsFiniteSet(Better(S, score, c))
  BY FS_Subset DEF Better
<1>2. QED
  BY <1>1, FS_CardinalityType

LEMMA TopSize ==
  ASSUME NEW S, IsFiniteSet(S), S \subseteq Nat, NEW score, \A c \in S : score[c] \in Nat,
         NEW n \in Nat
  PROVE  /\ Top(S, score, n) \subseteq S
         /\ Cardinality(Top(S, score, n)) \in Nat
         /\ Cardinality(Top(S, score, n)) <= n
<1> DEFINE T == Top(S, score, n)
           I == 0..(n - 1)
           f == [c \in T |-> Cardinality(Better(S, score, c))]
<1>1. T \subseteq S
  BY DEF Top
<1>2. \A c \in T : Cardinality(Better(S, score, c)) < n
  BY DEF Top, Better
<1>3. \A c \in T : f[c] \in I
  BY <1>2, BetterType
<1>4. ASSUME NEW c \in T, NEW d \in T, c # d
      PROVE  f[c] # f[d]
  <2>1. c \in S /\ d \in S
    BY <1>1
  <2>2. Before(score, c, d) \/ Before(score, d, c)
    BY <1>4, <2>1 DEF Before
  <2>3. f[c] \in Nat /\ f[d] \in Nat
    BY BetterType
  <2>4. f[c] < f[d] \/ f[d] < f[c]
    BY <2>1, <2>2, BetterGrows
  <2>5. QED
    BY <2>3, <2>4
<1>5. IsFiniteSet(T) /\ Cardinality(T) \in Nat
  BY <1>1, FS_Subset, FS_CardinalityType
<1>6. IsFiniteSet(I) /\ Cardinality(I) = n
  <2>1. 0 \in Int /\ n - 1 \in Int
    OBVIOUS
  <2>2. IsFiniteSet(I) /\ Cardinality(I) = IF 0 > n - 1 THEN 0 ELSE (n - 1) - 0 + 1
    BY <2>1, FS_Interval
  <2>3. QED
    BY <2>2
<1> HIDE DEF T, I
<1>7. f \in [T -> I]
  BY <1>3
<1>8. f \in Injection(T, I)
  BY <1>4, <1>7 DEF Injection, IsInjective
<1>9. Cardinality(T) <= Cardinality(I)
  BY <1>6, <1>8, FS_Injection
<1>10. QED
  BY <1>1, <1>5, <1>6, <1>9 DEF T

\* A set that fits is returned as it is.
LEMMA TopAll ==
  ASSUME NEW S, IsFiniteSet(S), S \subseteq Nat, NEW score, \A c \in S : score[c] \in Nat,
         NEW n \in Nat, Cardinality(S) <= n
  PROVE  Top(S, score, n) = S
<1> SUFFICES ASSUME NEW c \in S
             PROVE  Cardinality(Better(S, score, c)) < n
  BY DEF Top, Better
<1> DEFINE C == Better(S, score, c)
<1>1. C \subseteq S /\ c \notin C
  BY DEF Better, Before
<1> HIDE DEF C
<1>2. Cardinality(S) \in Nat /\ Cardinality(C) \in Nat
  BY FS_CardinalityType, BetterType DEF C
<1>3. Cardinality(C) <= Cardinality(S) /\ Cardinality(C) # Cardinality(S)
  BY <1>1, FS_Subset
<1>4. Cardinality(C) < n
  BY <1>2, <1>3
<1>5. QED
  BY <1>4 DEF C

\* Where one is left out, n others are in, and none of them scores less.
LEMMA TopFull ==
  ASSUME NEW S, IsFiniteSet(S), S \subseteq Nat, NEW score, \A c \in S : score[c] \in Nat,
         NEW n \in Nat, NEW c \in S \ Top(S, score, n)
  PROVE  /\ Cardinality(Top(S, score, n)) = n
         /\ \A d \in Top(S, score, n) : score[d] >= score[c]
<1> DEFINE T == Top(S, score, n)
           rank(d) == Cardinality(Better(S, score, d))
<1>1. \A d \in S : rank(d) \in Nat
  BY BetterType
<1>2. T \subseteq S /\ \A d \in S : d \in T <=> rank(d) < n
  BY DEF Top, Better
<1>3. \A d, e \in S : Before(score, d, e) => rank(d) < rank(e)
  BY BetterGrows
<1> HIDE DEF T, rank
<1>4. ASSUME NEW d \in T, NEW e \in S \ T
      PROVE  Before(score, d, e)
  <2>1. rank(d) < rank(e)
    BY <1>1, <1>2
  <2>2. ~ Before(score, e, d)
    BY <1>1, <1>2, <1>3, <2>1
  <2>3. d \in S /\ e \in S /\ d # e
    BY <1>2
  <2>4. QED
    BY <2>2, <2>3 DEF Before
<1>5. \A d \in T : score[d] >= score[c]
  <2>1. c \in S \ T
    BY DEF T
  <2>2. ASSUME NEW d \in T
        PROVE  score[d] >= score[c]
    <3>1. score[d] \in Nat /\ score[c] \in Nat
      BY <1>2, <2>1
    <3>2. Before(score, d, c)
      BY <1>4, <2>1
    <3>3. QED
      BY <3>1, <3>2 DEF Before
  <2>3. QED
    BY <2>2
<1>6. Cardinality(T) >= n
  <2> DEFINE O == {rank(d) : d \in S \ T}
  <2>1. O \subseteq Nat
    BY <1>1
  <2>2. O # {}
    BY DEF T
  <2> HIDE DEF O
  <2>3. PICK m \in O : \A r \in O : m <= r
    BY <2>1, <2>2, NatMin
  <2>4. PICK e \in S \ T : m = rank(e)
    BY DEF O
  <2>5. \A d \in S \ T : rank(e) <= rank(d)
    BY <2>3, <2>4 DEF O
  <2>6. Better(S, score, e) = T
    <3>1. \A d \in T : d \in Better(S, score, e)
      BY <1>2, <1>4 DEF Better
    <3>2. ASSUME NEW d \in Better(S, score, e)
          PROVE  d \in T
      <4>1. d \in S /\ Before(score, d, e)
        BY DEF Better
      <4>2. rank(d) < rank(e)
        BY <1>3, <4>1
      <4>3. QED
        BY <1>1, <2>5, <4>1, <4>2
    <3>3. QED
      BY <3>1, <3>2
  <2>7. rank(e) = Cardinality(T)
    BY <2>6 DEF rank
  <2>8. QED
    BY <1>1, <1>2, <2>7
<1>7. Cardinality(T) \in Nat /\ Cardinality(T) <= n
  BY TopSize DEF T
<1>8. Cardinality(T) = n
  BY <1>6, <1>7
<1>9. QED
  BY <1>5, <1>8 DEF T

----------------------------------------------------------------------------
(* The scores.                                                             *)

LEMMA PercentBounds == \A p \in Percent : p \in Nat /\ p <= 100
BY DEF Percent

LEMMA FindingType ==
  ASSUME NEW c \in Ids
  PROVE  /\ Corpus[c] \in Finding
         /\ Corpus[c].lexical \in Nat /\ Corpus[c].vector \in Nat /\ Corpus[c].rank \in Nat
         /\ Corpus[c].bias \in Nat /\ Corpus[c].age \in Nat
         /\ Corpus[c].weight \in Nat /\ Corpus[c].weight <= 100
         /\ Corpus[c].authority \in Nat /\ Corpus[c].authority <= 100
         /\ Corpus[c].meets \in BOOLEAN /\ Corpus[c].supersedes \in Ids \cup {0}
         /\ Corpus[c].mismatch.open \in BOOLEAN /\ Corpus[c].mismatch.shut \in BOOLEAN
<1>1. Corpus[c] \in Finding
  BY RetrievalAssumption DEF Ids
<1>2. Corpus[c].rank \in Percent /\ Corpus[c].age \in Percent
      /\ Corpus[c].weight \in Percent /\ Corpus[c].authority \in Percent
  BY <1>1 DEF Finding
<1>3. Corpus[c].bias \in Nat
  BY <1>1 DEF Finding
<1>4. QED
  BY <1>1, <1>2, <1>3, PercentBounds DEF Finding

LEMMA IdsFinite == IsFiniteSet(Ids) /\ Ids \subseteq Nat \ {0}
<1>1. Len(Corpus) \in Nat /\ Ids = 1..Len(Corpus)
  BY RetrievalAssumption DEF Ids
<1>2. 1 \in Int /\ Len(Corpus) \in Int
  BY <1>1
<1>3. IsFiniteSet(1..Len(Corpus))
  BY <1>2, FS_Interval
<1>4. QED
  BY <1>1, <1>3

LEMMA WeightsType ==
  Weights.alpha \in Nat /\ Weights.beta \in Nat /\ Weights.gamma \in Nat
  /\ Weights.age \in Nat /\ Weights.tx \in Nat
BY RetrievalAssumption

LEMMA MinMaxType ==
  /\ \A a, b \in Int : Min2(a, b) \in Int /\ Min2(a, b) <= a /\ Min2(a, b) <= b
  /\ \A a, b \in Int : Max2(a, b) \in Int /\ a <= Max2(a, b) /\ b <= Max2(a, b)
  /\ \A a, b \in Nat : Min2(a, b) \in Nat /\ Max2(a, b) \in Nat /\ Min2(a, b) <= a
  /\ \A a \in Int : Clamp(a) \in Nat /\ Clamp(a) <= 100
BY DEF Min2, Max2, Clamp

LEMMA MulMonotone ==
  ASSUME NEW a \in Nat, NEW b \in Nat, NEW c \in Nat, NEW d \in Nat, a <= c, b <= d
  PROVE  a * b \in Nat /\ c * d \in Nat /\ a * b <= c * d
<1>1. a * b \in Nat /\ c * d \in Nat /\ c * b \in Nat
  OBVIOUS
<1>2. a * b <= c * b
  OBVIOUS
<1>3. c * b <= c * d
  OBVIOUS
<1>4. QED
  BY <1>1, <1>2, <1>3

\* Whatever the reranker says, the fusion of weak evidence is
\* bounded by its weight, and that of exact evidence is at least its weight.
LEMMA FusionBounds ==
  ASSUME NEW c \in Ids, NEW rank \in Nat, NEW m \in BOOLEAN
  PROVE  /\ Fusion(Corpus[c], rank, m) \in Nat
         /\ Weak(c) => Fusion(Corpus[c], rank, m)
              <= Min2(10000, 100 * Weights.alpha + 12 * Weights.beta + 100 * Weights.gamma)
         /\ Exact(c) /\ ~ m => Fusion(Corpus[c], rank, m) >= Min2(10000, 90 * Weights.beta)
<1> DEFINE x == Corpus[c]
           al == Weights.alpha
           be == Weights.beta
           ga == Weights.gamma
           r == Clamp(rank)
           w == x.weight
           g == x.authority
           pen == Weights.age * (IF x.meets THEN 0 ELSE x.age)
                    + Weights.tx * (IF m THEN 100 ELSE 0)
           base == al * r + be * w + ga * g
<1>1. al \in Nat /\ be \in Nat /\ ga \in Nat
  BY WeightsType
<1>2. r \in Nat /\ r <= 100 /\ w \in Nat /\ w <= 100 /\ g \in Nat /\ g <= 100
  BY MinMaxType, FindingType
<1>3. pen \in Nat /\ (w > 12 /\ ~ m => pen = 0)
  <2>1. (IF x.meets THEN 0 ELSE x.age) \in Nat /\ (IF m THEN 100 ELSE 0) \in Nat
    BY FindingType
  <2>2. w > 12 => x.meets
    BY RetrievalAssumption
  <2> DEFINE ag == IF x.meets THEN 0 ELSE x.age
             mi == IF m THEN 100 ELSE 0
  <2>3. w > 12 /\ ~ m => ag = 0 /\ mi = 0
    BY <2>2
  <2>4. pen = Weights.age * ag + Weights.tx * mi
    OBVIOUS
  <2>5. ag \in Nat /\ mi \in Nat
    BY <2>1
  <2>6. Weights.age \in Nat /\ Weights.tx \in Nat
    BY WeightsType
  <2> HIDE DEF ag, mi, pen
  <2>7. Weights.age * ag \in Nat /\ Weights.tx * mi \in Nat
    BY <2>5, <2>6
  <2>8. ag = 0 /\ mi = 0 => Weights.age * ag = 0 /\ Weights.tx * mi = 0
    BY <2>6
  <2>9. QED
    BY <2>3, <2>4, <2>7, <2>8
<1>4. Fusion(x, rank, m) = Min2(10000, Max2(0, base - pen))
  BY DEF Fusion
<1>5. Weak(c) <=> w <= 12
  BY DEF Weak
<1>6. Exact(c) <=> w >= 90
  BY DEF Exact
<1> HIDE DEF x, al, be, ga, r, w, g, pen
<1>7. al * r \in Nat /\ be * w \in Nat /\ ga * g \in Nat
  BY <1>1, <1>2
<1>8. al * r <= al * 100 /\ ga * g <= ga * 100
  BY <1>1, <1>2, MulMonotone
<1>9. w <= 12 => be * w <= be * 12
  BY <1>1, <1>2, MulMonotone
<1>10. w >= 90 => be * 90 <= be * w
  BY <1>1, <1>2, MulMonotone
<1>11. base \in Nat
  BY <1>7
<1>12. w <= 12 => base <= 100 * al + 12 * be + 100 * ga
  BY <1>1, <1>7, <1>8, <1>9
<1>13. w >= 90 => base >= 90 * be
  BY <1>1, <1>7, <1>10
<1> HIDE DEF base
<1>14. Fusion(x, rank, m) \in Nat
  BY <1>3, <1>4, <1>11 DEF Min2, Max2
<1>15. w <= 12 => Fusion(x, rank, m) <= Min2(10000, 100 * al + 12 * be + 100 * ga)
  BY <1>1, <1>3, <1>4, <1>11, <1>12 DEF Min2, Max2
<1>16. w >= 90 /\ ~ m => Fusion(x, rank, m) >= Min2(10000, 90 * be)
  BY <1>1, <1>2, <1>3, <1>4, <1>11, <1>13 DEF Min2, Max2
<1>17. QED
  BY <1>5, <1>6, <1>14, <1>15, <1>16 DEF x, al, be, ga

LEMMA SumsType ==
  /\ Min2(10000, 90 * Weights.beta) \in Nat
  /\ Min2(10000, 100 * Weights.alpha + 12 * Weights.beta + 100 * Weights.gamma) \in Nat
<1> DEFINE most == 10000
           u == 100 * Weights.alpha + 12 * Weights.beta + 100 * Weights.gamma
           v == 90 * Weights.beta
<1>1. most \in Nat /\ u \in Nat /\ v \in Nat
  BY WeightsType
<1> HIDE DEF most, u, v
<1>2. Min2(most, v) \in Nat /\ Min2(most, u) \in Nat
  BY <1>1, MinMaxType
<1>3. QED
  BY <1>2 DEF most, u, v

\* The weight of the time enters again after the fusion: this is what holds the
\* two apart.
LEMMA FinalBounds ==
  ASSUME NEW c \in Ids, NEW rank \in Nat, NEW m \in BOOLEAN
  PROVE  /\ Final(Corpus[c], rank, m) \in Nat
         /\ Weak(c) => Final(Corpus[c], rank, m) <= WeakMost
         /\ Exact(c) /\ ~ m => Final(Corpus[c], rank, m) >= ExactLeast
<1> DEFINE x == Corpus[c]
           r == Min2(100, rank + x.bias)
           f == Fusion(x, r, m)
           w == Max2(5, x.weight)
           u == Min2(10000, 100 * Weights.alpha + 12 * Weights.beta + 100 * Weights.gamma)
           v == Min2(10000, 90 * Weights.beta)
<1>1. x.bias \in Nat /\ x.weight \in Nat
  BY FindingType
<1>2. r \in Nat
  <2>1. rank + x.bias \in Nat /\ 100 \in Nat
    BY <1>1
  <2>2. QED
    BY <2>1, MinMaxType, Zenon
<1>3. u \in Nat /\ v \in Nat
  BY SumsType
<1> HIDE DEF r
<1>4. /\ f \in Nat
      /\ Weak(c) => f <= u
      /\ Exact(c) /\ ~ m => f >= v
  BY <1>2, FusionBounds
<1>5. /\ w \in Nat
      /\ Weak(c) => w <= 12
      /\ Exact(c) => w >= 90
  BY <1>1 DEF Max2, Weak, Exact
<1>6. Final(x, rank, m) = f * w /\ WeakMost = 12 * u /\ ExactLeast = 90 * v
  BY DEF Final, WeakMost, ExactLeast, r
<1> HIDE DEF x, f, w, u, v
<1>7. f * w \in Nat
  BY <1>4, <1>5
<1>8. Weak(c) => f * w <= u * 12
  BY <1>3, <1>4, <1>5, MulMonotone
<1>9. Exact(c) /\ ~ m => v * 90 <= f * w
  BY <1>3, <1>4, <1>5, MulMonotone
<1>10. QED
  BY <1>3, <1>6, <1>7, <1>8, <1>9 DEF x

LEMMA LimitsType ==
  /\ WeakMost \in Nat /\ ExactLeast \in Nat
  /\ \A k \in Nat : /\ Fanout(k) \in Nat /\ RerankLimit(k) \in Nat
                    /\ RerankLimit(k) <= Fanout(k)
<1>1. WeakMost \in Nat /\ ExactLeast \in Nat
  <2> DEFINE u == Min2(10000, 100 * Weights.alpha + 12 * Weights.beta + 100 * Weights.gamma)
             v == Min2(10000, 90 * Weights.beta)
  <2>1. u \in Nat /\ v \in Nat
    BY SumsType
  <2>2. WeakMost = 12 * u /\ ExactLeast = 90 * v
    BY DEF WeakMost, ExactLeast
  <2> HIDE DEF u, v
  <2>3. QED
    BY <2>1, <2>2
<1>2. ASSUME NEW k \in Nat
      PROVE  /\ Fanout(k) \in Nat /\ RerankLimit(k) \in Nat
             /\ RerankLimit(k) <= Fanout(k)
  <2>1. MinFanout \in Nat /\ MaxRerank \in Nat /\ 2 * k \in Nat
    BY RetrievalAssumption
  <2>2. Fanout(k) \in Nat
    BY <2>1, MinMaxType DEF Fanout
  <2>3. RerankLimit(k) = Min2(Fanout(k), MaxRerank)
    BY DEF RerankLimit
  <2> DEFINE f == Fanout(k)
  <2> HIDE DEF f
  <2>4. f \in Nat => Min2(f, MaxRerank) \in Nat /\ Min2(f, MaxRerank) <= f
    BY <2>1, MinMaxType
  <2>5. QED
    BY <2>2, <2>3, <2>4 DEF f
<1>3. QED
  BY <1>1, <1>2

\* What a judge makes of a rank is a score.
LEMMA JudgedType ==
  ASSUME NEW c \in Ids, NEW judge \in JudgeModes \cup {"off"}, NEW r \in Judged(judge, Corpus[c])
  PROVE  r \in Nat
<1> DEFINE x == Corpus[c]
<1>1. x.rank \in Nat /\ x.authority \in Nat /\ x.weight \in Nat
  BY FindingType
<1>2. LightJudge(x) \in Nat
  <2> DEFINE a == x.rank
             b == x.authority
             d == x.weight
             e == 50 * a + 30 * b + 20 * d
  <2>1. a \in Nat /\ b \in Nat /\ d \in Nat
    BY <1>1
  <2>2. LightJudge(x) = Min2(100, e \div 100)
    BY DEF LightJudge
  <2> HIDE DEF a, b, d
  <2>3. e \in Nat
    BY <2>1
  <2> HIDE DEF e
  <2>4. e \div 100 \in Nat
    BY <2>3
  <2>5. QED
    BY <2>2, <2>4, MinMaxType
<1>3. \A a, b \in Nat : (a + b) \div 2 \in Nat
  OBVIOUS
<1>4. \A s \in JudgeScores : s \in Nat
  BY RetrievalAssumption, PercentBounds
<1>5. QED
  BY <1>1, <1>2, <1>3, <1>4 DEF Judged

LEMMA ScoresType ==
  /\ \A f \in Scores : DOMAIN f \subseteq Ids /\ \A c \in DOMAIN f : f[c] \in Nat
  /\ \A S \in SUBSET Ids : [S -> Nat] \subseteq Scores
BY DEF Scores

\* A chunk loses at most all of its score to its region, and behind at most seven
\* others of it keeps 44 hundredths.
LEMMA DiversifiedBounds ==
  ASSUME NEW first \in Scores, NEW final \in Scores
  PROVE  /\ Diversified(first, final) \in Scores
         /\ DOMAIN Diversified(first, final) = DOMAIN final
         /\ \A c \in DOMAIN final :
              /\ Diversified(first, final)[c] <= 100 * final[c]
              /\ ~ (Cardinality(Ahead(first, DOMAIN final, c)) > 7) =>
                   Diversified(first, final)[c] >= 44 * final[c]
<1> DEFINE D == Diversified(first, final)
<1>1. DOMAIN final \in SUBSET Ids /\ \A c \in DOMAIN final : final[c] \in Nat
  BY ScoresType
<1>2. DOMAIN D = DOMAIN final
  BY DEF Diversified
<1>3. ASSUME NEW c \in DOMAIN final
      PROVE  /\ D[c] \in Nat
             /\ D[c] <= 100 * final[c]
             /\ ~ (Cardinality(Ahead(first, DOMAIN final, c)) > 7) => D[c] >= 44 * final[c]
  <2> DEFINE n == Cardinality(Ahead(first, DOMAIN final, c))
             f == final[c]
             k == Max2(0, 100 - 8 * n)
  <2>1. n \in Nat
    <3>1. IsFiniteSet(DOMAIN final)
      BY <1>1, IdsFinite, FS_Subset
    <3>2. IsFiniteSet(Ahead(first, DOMAIN final, c))
      BY <3>1, FS_Subset DEF Ahead
    <3>3. QED
      BY <3>2, FS_CardinalityType
  <2>2. f \in Nat
    BY <1>1
  <2>3. D[c] = 100 * f \/ D[c] = f * k
    BY DEF Diversified
  <2> HIDE DEF n, f, D
  <2>4. k \in Nat /\ k <= 100 /\ (~ (n > 7) => k >= 44)
    BY <2>1 DEF Max2
  <2> HIDE DEF k
  <2>5. f * k \in Nat /\ f * k <= f * 100
    BY <2>2, <2>4, MulMonotone
  <2>6. ~ (n > 7) => f * 44 <= f * k
    BY <2>2, <2>4, MulMonotone
  <2>7. /\ D[c] \in Nat
        /\ D[c] <= 100 * f
        /\ ~ (n > 7) => D[c] >= 44 * f
    BY <2>2, <2>3, <2>5, <2>6
  <2>8. QED
    BY <2>7 DEF n, f
<1>4. D \in [DOMAIN final -> Nat]
  BY <1>2, <1>3 DEF Diversified
<1>5. QED
  BY <1>1, <1>2, <1>3, <1>4, ScoresType

----------------------------------------------------------------------------
(* The invariant holds.                                                    *)

LEMMA EmptyScores == <<>> \in Scores /\ DOMAIN <<>> = {}
<1>1. DOMAIN <<>> = {} /\ <<>> \in [{} -> Nat]
  OBVIOUS
<1>2. QED
  BY <1>1 DEF Scores

LEMMA InitInv == Init => IInv
<1> SUFFICES ASSUME Init
             PROVE  IInv
  OBVIOUS
<1> USE DEF Init
<1>1. NoLocals \in Locals
  BY EmptyScores DEF NoLocals, Locals
<1>2. Types
  BY <1>1, RetrievalAssumption DEF Types, Stages, Idle
<1>3. StoreInv
  BY DEF StoreInv, Idle
<1>4. ASSUME NEW t \in Readers
      PROVE  HandInv(t) /\ FitInv(t) /\ ScoreInv(t) /\ FreshInv(t)
  <2>1. HandInv(t)
    <3>1. local[t] = NoLocals /\ known[t] = {}
      OBVIOUS
    <3>2. /\ NoLocals.lexical = {} /\ NoLocals.todo = {} /\ NoLocals.results = {}
          /\ NoLocals.first = <<>> /\ NoLocals.final = <<>> /\ NoLocals.k = 1
      BY DEF NoLocals
    <3>3. Cardinality({}) = 0
      BY FS_EmptySet
    <3>4. DOMAIN local[t].first = {} /\ DOMAIN local[t].final = {}
      BY <3>1, <3>2, EmptyScores, Zenon
    <3>5. /\ local[t].lexical = {} /\ local[t].todo = {} /\ local[t].results = {}
          /\ local[t].k = 1
      BY <3>1, <3>2
    <3>6. QED
      BY <3>1, <3>3, <3>4, <3>5 DEF HandInv
  <2>2. FitInv(t)
    BY DEF FitInv, NoLocals, Answered, At
  <2>3. ScoreInv(t)
    BY DEF ScoreInv, NoLocals, Answered, At
  <2>4. FreshInv(t)
    BY DEF FreshInv
  <2>5. QED
    BY <2>1, <2>2, <2>3, <2>4
<1>5. QED
  BY <1>2, <1>3, <1>4 DEF IInv

\* A reader's step is its own.
LEMMA ReaderStep ==
  ASSUME IInv, NEW t \in Readers, UNCHANGED store, Types',
         \A s \in Readers \ {t} :
           pc'[s] = pc[s] /\ local'[s] = local[s] /\ known'[s] = known[s],
         HandInv(t)', FitInv(t)', ScoreInv(t)', FreshInv(t)'
  PROVE  IInv'
<1>1. StoreInv'
  BY DEF IInv, StoreInv, store
<1>2. ASSUME NEW s \in Readers, s # t
      PROVE  HandInv(s)' /\ FitInv(s)' /\ ScoreInv(s)' /\ FreshInv(s)'
  <2>1. pc'[s] = pc[s] /\ local'[s] = local[s] /\ known'[s] = known[s]
    BY <1>2
  <2>2. chunks' = chunks /\ entries' = entries
    BY DEF store
  <2>3. HandInv(s) /\ FitInv(s) /\ ScoreInv(s) /\ FreshInv(s)
    BY DEF IInv
  <2>4. HandInv(s)'
    BY <2>1, <2>2, <2>3 DEF HandInv
  <2>5. Wanted(s)' = Wanted(s) /\ Fits(s)' = Fits(s) /\ Answered(s)' = Answered(s)
    BY <2>1, <2>2 DEF Wanted, Fits, Answered, At
  <2>6. FitInv(s)'
    BY <2>1, <2>3, <2>5 DEF FitInv
  <2>7. ScoreInv(s)'
    BY <2>1, <2>3, <2>5 DEF ScoreInv, Crowded
  <2>8. FreshInv(s)'
    BY <2>1, <2>3 DEF FreshInv
  <2>9. QED
    BY <2>4, <2>6, <2>7, <2>8
<1>3. QED
  BY <1>1, <1>2 DEF IInv

\* What the lemmas about scores and cuts need of a reader's locals.
LEMMA LocalsType ==
  ASSUME Types, NEW t \in Readers
  PROVE  /\ local[t] \in Locals
         /\ local[t].k \in Nat \ {0} /\ local[t].judge \in JudgeModes \cup {"off"}
         /\ local[t].lexical \in SUBSET Ids /\ local[t].todo \in SUBSET Ids
         /\ local[t].first \in Scores /\ local[t].final \in Scores
         /\ local[t].results \in SUBSET Ids
         /\ pc[t] \in Stages /\ known[t] \in SUBSET Ids
<1>1. local[t] \in Locals
  BY DEF Types
<1>2. TopKs \cup {1} \subseteq Nat \ {0}
  BY RetrievalAssumption
<1>3. QED
  BY <1>1, <1>2 DEF Types, Locals

\* Locals stay locals when a reader ends.
LEMMA OutcomeType ==
  ASSUME NEW l \in Locals, NEW outcome \in {"none", "ok", "error"}, NEW R \in SUBSET Ids
  PROVE  [l EXCEPT !.outcome = outcome, !.results = R] \in Locals
BY DEF Locals

LEMMA IdSets ==
  ASSUME NEW S \in SUBSET Ids
  PROVE  IsFiniteSet(S) /\ S \subseteq Nat /\ Cardinality(S) \in Nat
BY IdsFinite, FS_Subset, FS_CardinalityType

LEMMA ReaderTypes ==
  ASSUME Types, NEW t \in Readers, NEW new \in Locals, NEW stage \in Stages,
         local' = [local EXCEPT ![t] = new], pc' = [pc EXCEPT ![t] = stage],
         UNCHANGED <<store, known>>
  PROVE  Types'
BY DEF Types, store

\* What is stored fits wherever the entries fit.
LEMMA FitsInEverything ==
  ASSUME Types, StoreInv, NEW t \in Readers, Fits(t), NEW S, S \subseteq chunks
  PROVE  Cardinality(S) <= RerankLimit(local[t].k) /\ Cardinality(S) <= Fanout(local[t].k)
<1>1. entries \in SUBSET Ids /\ S \in SUBSET Ids /\ S \in SUBSET entries
  BY DEF Types, StoreInv
<1>2. IsFiniteSet(entries) /\ Cardinality(entries) \in Nat /\ Cardinality(S) \in Nat
  BY <1>1, IdSets
<1>3. Cardinality(S) <= Cardinality(entries)
  BY <1>1, <1>2, FS_Subset
<1>4. local[t].k \in Nat
  BY LocalsType
<1>5. /\ RerankLimit(local[t].k) \in Nat /\ Fanout(local[t].k) \in Nat
      /\ RerankLimit(local[t].k) <= Fanout(local[t].k)
  BY <1>4, LimitsType
<1>6. QED
  BY <1>2, <1>3, <1>5 DEF Fits

LEMMA SearchScores ==
  /\ \A c \in Ids : Lexical[c] \in Nat /\ Vector[c] \in Nat
  /\ \A S, T \in SUBSET Ids : Merged(S, T) \in Scores /\ DOMAIN Merged(S, T) = S \cup T
<1>1. \A c \in Ids : Lexical[c] \in Nat /\ Vector[c] \in Nat
  BY FindingType DEF Lexical, Vector
<1>2. ASSUME NEW S \in SUBSET Ids, NEW T \in SUBSET Ids
      PROVE  Merged(S, T) \in Scores /\ DOMAIN Merged(S, T) = S \cup T
  <2>1. ASSUME NEW c \in S \cup T
        PROVE  (IF c \in S THEN Corpus[c].lexical ELSE 0)
                 + (IF c \in T THEN Corpus[c].vector ELSE 0) \in Nat
    BY FindingType
  <2>2. Merged(S, T) \in [S \cup T -> Nat]
    BY <2>1 DEF Merged
  <2>3. S \cup T \in SUBSET Ids
    OBVIOUS
  <2>4. QED
    BY <2>2, <2>3, ScoresType
<1>3. QED
  BY <1>1, <1>2

LEMMA ReceiveInv ==
  ASSUME IInv, NEW t \in Readers, Receive(t)
  PROVE  IInv'
<1>1. PICK k \in TopKs, mode \in {"HARD", "INTELLIGENT"}, judge \in JudgeModes :
        /\ At(t, "idle")
        /\ received < MaxRequests
        /\ received' = received + 1
        /\ local' = [local EXCEPT ![t] = [NoLocals EXCEPT !.k = k, !.mode = mode, !.judge = judge]]
        /\ known' = [known EXCEPT ![t] = chunks]
        /\ Goto(t, "list")
        /\ UNCHANGED store
  BY Zenon DEF Receive
<1> DEFINE new == [NoLocals EXCEPT !.k = k, !.mode = mode, !.judge = judge]
<1>2. /\ new \in Locals
      /\ new.k = k /\ new.lexical = {} /\ new.first = <<>> /\ new.todo = {}
      /\ new.final = <<>> /\ new.results = {} /\ new.outcome = "none"
  BY EmptyScores DEF NoLocals, Locals
<1> HIDE DEF new
<1>3. Types
  BY DEF IInv
<1>4. /\ local'[t] = new /\ known'[t] = chunks /\ pc'[t] = "list"
      /\ \A s \in Readers \ {t} :
           pc'[s] = pc[s] /\ local'[s] = local[s] /\ known'[s] = known[s]
  BY <1>1, <1>3 DEF Types, Goto, new
<1>5. Types'
  BY <1>1, <1>2, <1>3 DEF Types, Goto, store, Stages, new
<1>6. HandInv(t)'
  <2>1. k \in Nat /\ Cardinality({}) = 0
    BY RetrievalAssumption, FS_EmptySet
  <2>2. chunks' = chunks
    BY <1>1 DEF store
  <2>3. DOMAIN local'[t].first = {} /\ DOMAIN local'[t].final = {}
    BY <1>2, <1>4, EmptyScores, Zenon
  <2>4. /\ local'[t].lexical = {} /\ local'[t].todo = {} /\ local'[t].results = {}
        /\ local'[t].k = k
    BY <1>2, <1>4
  <2>5. QED
    BY <1>4, <2>1, <2>2, <2>3, <2>4 DEF HandInv
<1>7. ~ Answered(t)' /\ pc'[t] = "list"
  BY <1>4 DEF Answered, At
<1>8. FitInv(t)' /\ ScoreInv(t)'
  BY <1>7 DEF FitInv, ScoreInv
<1>9. FreshInv(t)'
  BY <1>2, <1>4, EmptyScores DEF FreshInv
<1>10. QED
  BY <1>1, <1>4, <1>5, <1>6, <1>8, <1>9, ReaderStep

LEMMA ListInv ==
  ASSUME IInv, NEW t \in Readers, List(t)
  PROVE  IInv'
<1> DEFINE L == Top(chunks, Lexical, Fanout(local[t].k))
<1>1. Types /\ StoreInv /\ HandInv(t) /\ FreshInv(t)
  BY DEF IInv
<1>2. chunks \in SUBSET Ids /\ local[t].k \in Nat
  BY <1>1, LocalsType DEF Types
<1>3. L \subseteq chunks /\ L \in SUBSET Ids
  BY <1>2 DEF Top
<1>4. Fits(t) => L = chunks
  <2> SUFFICES ASSUME Fits(t)
               PROVE  L = chunks
    OBVIOUS
  <2>1. Cardinality(chunks) <= Fanout(local[t].k)
    BY <1>1, FitsInEverything
  <2>2. IsFiniteSet(chunks) /\ chunks \subseteq Nat /\ Fanout(local[t].k) \in Nat
    BY <1>2, IdSets, LimitsType
  <2>3. \A c \in chunks : Lexical[c] \in Nat
    BY <1>2, SearchScores
  <2>4. QED
    BY <2>1, <2>2, <2>3, TopAll
<1> HIDE DEF L
<1>5. /\ pc[t] = "list" /\ local' = [local EXCEPT ![t].lexical = L]
      /\ pc' = [pc EXCEPT ![t] = "search"] /\ UNCHANGED <<store, received, known>>
  BY DEF List, At, Goto, L
<1>6. /\ local'[t] = [local[t] EXCEPT !.lexical = L] /\ pc'[t] = "search" /\ known' = known
      /\ \A s \in Readers \ {t} : pc'[s] = pc[s] /\ local'[s] = local[s]
      /\ chunks' = chunks /\ entries' = entries
  BY <1>1, <1>5 DEF Types, store
<1>7. /\ local'[t].lexical = L /\ local'[t].k = local[t].k /\ local'[t].first = local[t].first
      /\ local'[t].todo = local[t].todo /\ local'[t].final = local[t].final
      /\ local'[t].results = local[t].results /\ local'[t].outcome = local[t].outcome
  BY <1>1, <1>6, LocalsType DEF Locals
<1>8. Types'
  <2>1. [local[t] EXCEPT !.lexical = L] \in Locals /\ "search" \in Stages
    BY <1>1, <1>3, LocalsType DEF Locals, Stages
  <2>2. QED
    BY <1>1, <1>5, <2>1, ReaderTypes
<1>9. HandInv(t)'
  BY <1>1, <1>3, <1>6, <1>7 DEF HandInv
<1>10. FitInv(t)'
  BY <1>1, <1>4, <1>6, <1>7 DEF FitInv, Fits, Answered, At, HandInv
<1>11. ScoreInv(t)' /\ FreshInv(t)'
  BY <1>1, <1>5, <1>6, <1>7 DEF ScoreInv, FreshInv, Answered, At
<1>12. QED
  BY <1>5, <1>6, <1>8, <1>9, <1>10, <1>11, ReaderStep

LEMMA SearchInv ==
  ASSUME IInv, NEW t \in Readers, Search(t)
  PROVE  IInv'
<1> DEFINE n == Cardinality(entries)
<1>1. Types /\ StoreInv /\ HandInv(t) /\ FitInv(t) /\ FreshInv(t)
  BY DEF IInv
<1>2. n \in Nat
  BY <1>1, IdSets DEF Types
<1>3. /\ pc[t] = "search" /\ local' = [local EXCEPT ![t].size = n]
      /\ pc' = [pc EXCEPT ![t] = "searching"] /\ UNCHANGED <<store, received, known>>
  BY DEF Search, At, Goto
<1> HIDE DEF n
<1>4. /\ local'[t] = [local[t] EXCEPT !.size = n] /\ pc'[t] = "searching" /\ known' = known
      /\ \A s \in Readers \ {t} : pc'[s] = pc[s] /\ local'[s] = local[s]
      /\ chunks' = chunks /\ entries' = entries
  BY <1>1, <1>3 DEF Types, store
<1>5. /\ local'[t].lexical = local[t].lexical /\ local'[t].k = local[t].k
      /\ local'[t].first = local[t].first
      /\ local'[t].todo = local[t].todo /\ local'[t].final = local[t].final
      /\ local'[t].results = local[t].results /\ local'[t].outcome = local[t].outcome
  BY <1>1, <1>4, LocalsType DEF Locals
<1>6. Types'
  <2>1. [local[t] EXCEPT !.size = n] \in Locals /\ "searching" \in Stages
    BY <1>1, <1>2, LocalsType DEF Locals, Stages
  <2>2. QED
    BY <1>1, <1>3, <2>1, ReaderTypes
<1>7. HandInv(t)'
  BY <1>1, <1>4, <1>5 DEF HandInv
<1>8. FitInv(t)'
  BY <1>1, <1>3, <1>4, <1>5 DEF FitInv, Fits, Answered, At
<1>9. ScoreInv(t)' /\ FreshInv(t)'
  BY <1>1, <1>3, <1>4, <1>5 DEF ScoreInv, FreshInv, Answered, At
<1>10. QED
  BY <1>3, <1>4, <1>6, <1>7, <1>8, <1>9, ReaderStep

LEMMA SearchedInv ==
  ASSUME IInv, NEW t \in Readers, Searched(t)
  PROVE  IInv'
<1> DEFINE V == Top(entries, Vector, Fanout(local[t].k)) \cap chunks
           M == Merged(local[t].lexical, V)
<1>1. Types /\ StoreInv /\ HandInv(t) /\ FitInv(t) /\ FreshInv(t)
  BY DEF IInv
<1>2. V \subseteq chunks /\ V \in SUBSET Ids
  BY <1>1 DEF Types
<1>3. pc[t] = "searching" /\ local' = [local EXCEPT ![t].first = M]
      /\ pc' = [pc EXCEPT ![t] = "filter"] /\ UNCHANGED <<store, received, known>>
  BY DEF Searched, At, Goto
<1> HIDE DEF V
<1>4. M \in Scores /\ DOMAIN M = local[t].lexical \cup V
  BY <1>1, <1>2, LocalsType, SearchScores
<1> HIDE DEF M
<1>5. /\ local'[t] = [local[t] EXCEPT !.first = M] /\ pc'[t] = "filter" /\ known' = known
      /\ \A s \in Readers \ {t} : pc'[s] = pc[s] /\ local'[s] = local[s]
      /\ chunks' = chunks /\ entries' = entries
  BY <1>1, <1>3 DEF Types, store
<1>6. /\ local'[t].first = M /\ local'[t].k = local[t].k /\ local'[t].lexical = local[t].lexical
      /\ local'[t].todo = local[t].todo /\ local'[t].final = local[t].final
      /\ local'[t].results = local[t].results /\ local'[t].outcome = local[t].outcome
  BY <1>1, <1>5, LocalsType DEF Locals
<1>7. Types'
  <2>1. [local[t] EXCEPT !.first = M] \in Locals /\ "filter" \in Stages
    BY <1>1, <1>4, LocalsType DEF Locals, Stages
  <2>2. QED
    BY <1>1, <1>3, <2>1, ReaderTypes
<1>8. HandInv(t)'
  BY <1>1, <1>2, <1>4, <1>5, <1>6 DEF HandInv
<1>9. FitInv(t)'
  BY <1>1, <1>3, <1>4, <1>5, <1>6 DEF FitInv, Fits, Answered, At
<1>10. ScoreInv(t)' /\ FreshInv(t)'
  BY <1>1, <1>3, <1>5, <1>6 DEF ScoreInv, FreshInv, Answered, At
<1>11. QED
  BY <1>3, <1>5, <1>7, <1>8, <1>9, <1>10, ReaderStep

\* Either way of failing ends the retrieval without results.
LEMMA FailInv ==
  ASSUME IInv, NEW t \in Readers, EncoderRaises(t) \/ SearchRaises(t) \/ RerankRaises(t)
  PROVE  IInv'
<1>1. Types /\ HandInv(t)
  BY DEF IInv
<1>2. /\ local' = [local EXCEPT ![t].outcome = "error", ![t].results = {}]
      /\ pc' = [pc EXCEPT ![t] = "idle"] /\ UNCHANGED <<store, received, known>>
  BY DEF EncoderRaises, SearchRaises, RerankRaises, Fail, Goto
<1>3. /\ local'[t] = [local[t] EXCEPT !.outcome = "error", !.results = {}]
      /\ pc'[t] = "idle" /\ known' = known
      /\ \A s \in Readers \ {t} : pc'[s] = pc[s] /\ local'[s] = local[s]
      /\ chunks' = chunks /\ entries' = entries
  BY <1>1, <1>2 DEF Types, store
<1>4. /\ local'[t].first = local[t].first /\ local'[t].k = local[t].k
      /\ local'[t].lexical = local[t].lexical
      /\ local'[t].todo = local[t].todo /\ local'[t].final = local[t].final
      /\ local'[t].results = {} /\ local'[t].outcome = "error"
  BY <1>1, <1>3, LocalsType DEF Locals
<1>5. Types'
  <2>1. [local[t] EXCEPT !.outcome = "error", !.results = {}] \in Locals
        /\ "idle" \in Stages
    BY <1>1, LocalsType, OutcomeType DEF Stages
  <2>2. local' = [local EXCEPT ![t] = [local[t] EXCEPT !.outcome = "error", !.results = {}]]
    BY <1>1, <1>2 DEF Types
  <2>3. QED
    BY <1>1, <1>2, <2>1, <2>2, ReaderTypes
<1>6. HandInv(t)'
  <2>1. Cardinality({}) = 0 /\ local[t].k \in Nat
    BY <1>1, FS_EmptySet, LocalsType
  <2>2. QED
    BY <1>1, <1>3, <1>4, <2>1 DEF HandInv
<1>7. ~ Answered(t)' /\ pc'[t] = "idle"
  BY <1>3, <1>4 DEF Answered
<1>8. FitInv(t)' /\ ScoreInv(t)' /\ FreshInv(t)'
  BY <1>7 DEF FitInv, ScoreInv, FreshInv
<1>9. QED
  BY <1>2, <1>3, <1>5, <1>6, <1>8, ReaderStep

LEMMA FilterInv ==
  ASSUME IInv, NEW t \in Readers, Filter(t)
  PROVE  IInv'
<1> DEFINE A == {c \in DOMAIN local[t].first : Admitted(local[t].mode, Corpus[c])}
           R == Top(A, local[t].first, RerankLimit(local[t].k))
<1>1. Types /\ StoreInv /\ HandInv(t) /\ FitInv(t) /\ FreshInv(t)
  BY DEF IInv
<1>2. A \subseteq chunks /\ A \in SUBSET Ids /\ A \subseteq DOMAIN local[t].first
  BY <1>1 DEF Types, HandInv
<1>3. R \subseteq A
  BY DEF Top
<1>4. pc[t] = "filter" /\ local' = [local EXCEPT ![t].todo = R]
      /\ pc' = [pc EXCEPT ![t] = "score"] /\ UNCHANGED <<store, received, known>>
  BY DEF Filter, At, Goto
<1>5. Fits(t) => R = A
  <2> SUFFICES ASSUME Fits(t)
               PROVE  R = A
    OBVIOUS
  <2>1. local[t].k \in Nat
    BY <1>1, LocalsType
  <2>2. RerankLimit(local[t].k) \in Nat
    BY <2>1, LimitsType
  <2>3. Cardinality(A) <= RerankLimit(local[t].k)
    BY <1>1, <1>2, FitsInEverything
  <2>4. IsFiniteSet(A) /\ A \subseteq Nat
    BY <1>2, IdSets
  <2>5. \A c \in A : local[t].first[c] \in Nat
    BY <1>1, <1>2, LocalsType, ScoresType
  <2> HIDE DEF A
  <2>6. QED
    BY <2>2, <2>3, <2>4, <2>5, TopAll
<1>6. Fits(t) => Wanted(t) \subseteq R
  BY <1>1, <1>4, <1>5 DEF FitInv, Wanted
<1> HIDE DEF R
<1>7. /\ local'[t] = [local[t] EXCEPT !.todo = R] /\ pc'[t] = "score" /\ known' = known
      /\ \A s \in Readers \ {t} : pc'[s] = pc[s] /\ local'[s] = local[s]
      /\ chunks' = chunks /\ entries' = entries
  BY <1>1, <1>4 DEF Types, store
<1>8. /\ local'[t].first = local[t].first /\ local'[t].k = local[t].k
      /\ local'[t].mode = local[t].mode /\ local'[t].lexical = local[t].lexical
      /\ local'[t].todo = R /\ local'[t].final = local[t].final
      /\ local'[t].results = local[t].results /\ local'[t].outcome = local[t].outcome
  BY <1>1, <1>7, LocalsType DEF Locals
<1>9. Types'
  <2>1. [local[t] EXCEPT !.todo = R] \in Locals /\ "score" \in Stages
    BY <1>1, <1>2, <1>3, LocalsType DEF Locals, Stages
  <2>2. QED
    BY <1>1, <1>4, <2>1, ReaderTypes
<1>10. HandInv(t)'
  BY <1>1, <1>2, <1>3, <1>7, <1>8 DEF HandInv
<1>11. Wanted(t)' = Wanted(t) /\ Fits(t)' = Fits(t) /\ ~ Answered(t)'
  BY <1>7, <1>8 DEF Wanted, Fits, Answered, At
<1>12. FitInv(t)'
  BY <1>6, <1>7, <1>8, <1>11 DEF FitInv
<1>13. DOMAIN local'[t].final = {}
  BY <1>1, <1>4, <1>8 DEF FreshInv
<1>14. ScoreInv(t)' /\ FreshInv(t)'
  BY <1>7, <1>11, <1>13 DEF ScoreInv, FreshInv
<1>15. QED
  BY <1>4, <1>7, <1>9, <1>10, <1>12, <1>14, ReaderStep

LEMMA LeastTodo ==
  ASSUME NEW S \in SUBSET Ids, S # {}
  PROVE  Min(S) \in S
<1>1. S \subseteq Nat
  BY IdSets
<1>2. \E x \in S : \A y \in S : x <= y
  BY <1>1, NatMin
<1>3. QED
  BY <1>2 DEF Min

LEMMA ScoreStepInv ==
  ASSUME IInv, NEW t \in Readers, Score(t)
  PROVE  IInv'
<1> DEFINE c == Min(local[t].todo)
<1>1. Types /\ StoreInv /\ HandInv(t) /\ FitInv(t) /\ ScoreInv(t)
  BY DEF IInv
<1>2. PICK rank \in Judged(local[t].judge, Corpus[c]) :
        local' = [local EXCEPT
            ![t].todo = @ \ {c},
            ![t].final = [d \in DOMAIN @ \cup {c} |->
               IF d = c THEN Final(Corpus[c], rank, Mismatch(c)) ELSE @[d]]]
  BY DEF Score
<1>3. pc[t] = "score" /\ local[t].todo # {} /\ pc' = pc /\ UNCHANGED <<store, received, known>>
  BY DEF Score, At
<1>4. c \in local[t].todo /\ c \in Ids /\ c \in chunks
  BY <1>1, <1>3, LocalsType, LeastTodo DEF HandInv
<1> HIDE DEF c
<1> DEFINE f == local[t].final
           v == Final(Corpus[c], rank, Mismatch(c))
           g == [d \in DOMAIN f \cup {c} |-> IF d = c THEN v ELSE f[d]]
           todo == local[t].todo \ {c}
<1>5. /\ v \in Nat
      /\ Weak(c) => v <= WeakMost
      /\ Sound(c) => v >= ExactLeast
  <2>1. rank \in Nat
    BY <1>1, <1>4, LocalsType, JudgedType
  <2>2. Mismatch(c) \in BOOLEAN /\ (Consistent(c) => ~ Mismatch(c))
    BY <1>4, FindingType DEF Mismatch, Consistent
  <2>3. QED
    BY <1>4, <2>1, <2>2, FinalBounds DEF Sound
<1>6. f \in Scores /\ DOMAIN f \in SUBSET Ids /\ \A d \in DOMAIN f : f[d] \in Nat
  BY <1>1, LocalsType, ScoresType
<1>7. local' = [local EXCEPT ![t] = [local[t] EXCEPT !.todo = todo, !.final = g]]
  BY <1>1, <1>2 DEF Types
<1> HIDE DEF f, v
<1>8. DOMAIN g = DOMAIN f \cup {c} /\ \A d \in DOMAIN g : g[d] = IF d = c THEN v ELSE f[d]
  OBVIOUS
<1>9. g \in Scores
  <2>1. g \in [DOMAIN f \cup {c} -> Nat]
    BY <1>5, <1>6
  <2>2. DOMAIN f \cup {c} \in SUBSET Ids
    BY <1>4, <1>6
  <2>3. QED
    BY <2>1, <2>2, ScoresType
<1> HIDE DEF g, todo
<1>10. [local[t] EXCEPT !.todo = todo, !.final = g] \in Locals
  BY <1>1, <1>9, LocalsType DEF Locals, todo
<1>11. /\ local'[t] = [local[t] EXCEPT !.todo = todo, !.final = g]
       /\ pc'[t] = "score" /\ known' = known
       /\ \A s \in Readers \ {t} : pc'[s] = pc[s] /\ local'[s] = local[s]
       /\ chunks' = chunks /\ entries' = entries
  BY <1>1, <1>3, <1>7 DEF Types, store
<1>12. /\ local'[t].first = local[t].first /\ local'[t].k = local[t].k
       /\ local'[t].mode = local[t].mode /\ local'[t].lexical = local[t].lexical
       /\ local'[t].todo = todo /\ local'[t].final = g
       /\ local'[t].results = local[t].results /\ local'[t].outcome = local[t].outcome
  BY <1>1, <1>11, LocalsType DEF Locals
<1>13. Types'
  <2>1. pc' = [pc EXCEPT ![t] = "score"] /\ "score" \in Stages
    BY <1>1, <1>3 DEF Types, Stages
  <2>2. QED
    BY <1>1, <1>3, <1>7, <1>10, <2>1, ReaderTypes
<1>14. HandInv(t)'
  BY <1>1, <1>4, <1>8, <1>11, <1>12 DEF HandInv, todo, f
<1>15. Wanted(t)' = Wanted(t) /\ Fits(t)' = Fits(t) /\ ~ Answered(t)'
  BY <1>11, <1>12 DEF Wanted, Fits, Answered, At
<1>16. FitInv(t)'
  BY <1>1, <1>3, <1>8, <1>11, <1>12, <1>15 DEF FitInv, todo, f
<1>17. \A d \in DOMAIN g : /\ Weak(d) => g[d] <= WeakMost
                           /\ Sound(d) => g[d] >= ExactLeast
  BY <1>1, <1>3, <1>5, <1>8 DEF ScoreInv, f
<1>18. ScoreInv(t)' /\ FreshInv(t)'
  BY <1>11, <1>12, <1>15, <1>17 DEF ScoreInv, FreshInv
<1>19. QED
  BY <1>3, <1>11, <1>13, <1>14, <1>16, <1>18, ReaderStep

LEMMA DiversifyInv ==
  ASSUME IInv, NEW t \in Readers, Diversify(t)
  PROVE  IInv'
<1> DEFINE f == local[t].final
           g == Diversified(local[t].first, f)
<1>1. Types /\ StoreInv /\ HandInv(t) /\ FitInv(t) /\ ScoreInv(t)
  BY DEF IInv
<1>2. /\ pc[t] = "score" /\ local[t].todo = {} /\ local' = [local EXCEPT ![t].final = g]
      /\ pc' = [pc EXCEPT ![t] = "reply"] /\ UNCHANGED <<store, received, known>>
  BY DEF Diversify, At, Goto
<1>3. local[t].first \in Scores /\ f \in Scores /\ \A c \in DOMAIN f : f[c] \in Nat
  BY <1>1, LocalsType, ScoresType
<1>4. /\ g \in Scores /\ DOMAIN g = DOMAIN f
      /\ \A c \in DOMAIN f :
           /\ g[c] \in Nat
           /\ g[c] <= 100 * f[c]
           /\ ~ Crowded(t, c) => g[c] >= 44 * f[c]
  <2> HIDE DEF f
  <2>1. /\ g \in Scores /\ DOMAIN g = DOMAIN f
        /\ \A c \in DOMAIN f :
             /\ g[c] <= 100 * f[c]
             /\ ~ (Cardinality(Ahead(local[t].first, DOMAIN f, c)) > 7) => g[c] >= 44 * f[c]
    BY <1>3, DiversifiedBounds
  <2>2. \A c \in DOMAIN g : g[c] \in Nat
    BY <2>1, ScoresType
  <2>3. QED
    BY <2>1, <2>2 DEF Crowded, f
<1> HIDE DEF g
<1>5. /\ local'[t] = [local[t] EXCEPT !.final = g] /\ pc'[t] = "reply" /\ known' = known
      /\ \A s \in Readers \ {t} : pc'[s] = pc[s] /\ local'[s] = local[s]
      /\ chunks' = chunks /\ entries' = entries
  BY <1>1, <1>2 DEF Types, store
<1>6. /\ local'[t].first = local[t].first /\ local'[t].k = local[t].k
      /\ local'[t].mode = local[t].mode /\ local'[t].lexical = local[t].lexical
      /\ local'[t].todo = local[t].todo /\ local'[t].final = g
      /\ local'[t].results = local[t].results /\ local'[t].outcome = local[t].outcome
  BY <1>1, <1>5, LocalsType DEF Locals
<1>7. Types'
  <2>1. [local[t] EXCEPT !.final = g] \in Locals /\ "reply" \in Stages
    BY <1>1, <1>4, LocalsType DEF Locals, Stages
  <2>2. QED
    BY <1>1, <1>2, <2>1, ReaderTypes
<1>8. HandInv(t)'
  BY <1>1, <1>4, <1>5, <1>6 DEF HandInv
<1>9. Wanted(t)' = Wanted(t) /\ Fits(t)' = Fits(t) /\ ~ Answered(t)'
  BY <1>5, <1>6 DEF Wanted, Fits, Answered, At
<1>10. FitInv(t)'
  BY <1>1, <1>2, <1>4, <1>5, <1>6, <1>9 DEF FitInv
<1>11. \A c \in DOMAIN g :
         /\ Weak(c) => g[c] <= 100 * WeakMost
         /\ Sound(c) /\ ~ Crowded(t, c) => g[c] >= 44 * ExactLeast
  <2>1. \A c \in DOMAIN f : /\ Weak(c) => f[c] <= WeakMost
                            /\ Sound(c) => f[c] >= ExactLeast
    BY <1>1, <1>2 DEF ScoreInv
  <2> HIDE DEF f
  <2>2. WeakMost \in Nat /\ ExactLeast \in Nat
    BY LimitsType
  <2>3. QED
    BY <1>3, <1>4, <2>1, <2>2
<1>12. \A c \in DOMAIN g : Crowded(t, c)' = Crowded(t, c)
  BY <1>4, <1>6 DEF Crowded
<1>13. ScoreInv(t)' /\ FreshInv(t)'
  BY <1>5, <1>6, <1>11, <1>12 DEF ScoreInv, FreshInv
<1>14. QED
  BY <1>2, <1>5, <1>7, <1>8, <1>10, <1>13, ReaderStep

LEMMA ReplyInv ==
  ASSUME IInv, NEW t \in Readers, Reply(t)
  PROVE  IInv'
<1> DEFINE f == local[t].final
           R == Top(DOMAIN f, f, local[t].k)
<1>1. Types /\ StoreInv /\ HandInv(t) /\ FitInv(t) /\ ScoreInv(t)
  BY DEF IInv
<1>2. /\ pc[t] = "reply" /\ local' = [local EXCEPT ![t].outcome = "ok", ![t].results = R]
      /\ pc' = [pc EXCEPT ![t] = "idle"] /\ UNCHANGED <<store, received, known>>
  BY DEF Reply, At, Goto
<1>3. /\ DOMAIN f \in SUBSET Ids /\ IsFiniteSet(DOMAIN f) /\ DOMAIN f \subseteq Nat
      /\ \A c \in DOMAIN f : f[c] \in Nat
      /\ local[t].k \in Nat
  BY <1>1, LocalsType, ScoresType, IdSets
<1> HIDE DEF f
<1>4. R \subseteq DOMAIN f /\ Cardinality(R) <= local[t].k
  BY <1>3, TopSize
<1>5. \A c \in DOMAIN f \ R :
        Cardinality(R) = local[t].k /\ \A d \in R : f[d] >= f[c]
  BY <1>3, TopFull
<1> HIDE DEF R
<1>6. local' = [local EXCEPT ![t] = [local[t] EXCEPT !.outcome = "ok", !.results = R]]
  BY <1>1, <1>2 DEF Types
<1>7. /\ local'[t] = [local[t] EXCEPT !.outcome = "ok", !.results = R]
      /\ pc'[t] = "idle" /\ known' = known
      /\ \A s \in Readers \ {t} : pc'[s] = pc[s] /\ local'[s] = local[s]
      /\ chunks' = chunks /\ entries' = entries
  BY <1>1, <1>2, <1>6 DEF Types, store
<1>8. /\ local'[t].first = local[t].first /\ local'[t].k = local[t].k
      /\ local'[t].mode = local[t].mode /\ local'[t].lexical = local[t].lexical
      /\ local'[t].todo = local[t].todo /\ local'[t].final = f
      /\ local'[t].results = R /\ local'[t].outcome = "ok"
  BY <1>1, <1>7, LocalsType DEF Locals, f
<1>9. Types'
  <2>1. R \in SUBSET Ids
    BY <1>3, <1>4
  <2>2. [local[t] EXCEPT !.outcome = "ok", !.results = R] \in Locals /\ "idle" \in Stages
    BY <1>1, <2>1, LocalsType, OutcomeType DEF Stages
  <2>3. QED
    BY <1>1, <1>2, <1>6, <2>2, ReaderTypes
<1>10. HandInv(t)'
  BY <1>1, <1>4, <1>7, <1>8 DEF HandInv, f
<1>11. Wanted(t)' = Wanted(t) /\ Fits(t)' = Fits(t)
  BY <1>7, <1>8 DEF Wanted, Fits
<1>12. Fits(t) => Wanted(t) \subseteq DOMAIN f
  BY <1>1, <1>2 DEF FitInv, f
<1>13. FitInv(t)'
  BY <1>5, <1>7, <1>8, <1>11, <1>12 DEF FitInv
<1>14. \A c \in DOMAIN f : Crowded(t, c)' = Crowded(t, c)
  BY <1>8 DEF Crowded, f
<1>15. ScoreInv(t)' /\ FreshInv(t)'
  BY <1>1, <1>2, <1>7, <1>8, <1>14 DEF ScoreInv, FreshInv, f
<1>16. QED
  BY <1>2, <1>7, <1>9, <1>10, <1>13, <1>15, ReaderStep

\* A writer only adds: what fits afterwards fitted before.
LEMMA WriterStep ==
  ASSUME IInv, UNCHANGED <<pc, local, received, known>>, Types', StoreInv',
         chunks \subseteq chunks', entries \subseteq entries'
  PROVE  IInv'
<1>1. ASSUME NEW t \in Readers
      PROVE  HandInv(t)' /\ FitInv(t)' /\ ScoreInv(t)' /\ FreshInv(t)'
  <2>1. HandInv(t) /\ FitInv(t) /\ ScoreInv(t) /\ FreshInv(t) /\ Types
    BY DEF IInv
  <2>2. pc' = pc /\ local' = local /\ known' = known
    OBVIOUS
  <2>3. HandInv(t)'
    BY <2>1, <2>2 DEF HandInv
  <2>4. Fits(t)' => Fits(t)
    <3>1. /\ entries' \in SUBSET Ids /\ IsFiniteSet(entries')
          /\ Cardinality(entries') \in Nat /\ Cardinality(entries) \in Nat
      BY <2>1, IdSets DEF Types
    <3>2. Cardinality(entries) <= Cardinality(entries')
      BY <3>1, FS_Subset
    <3>3. RerankLimit(local[t].k) \in Nat
      BY <2>1, LocalsType, LimitsType
    <3>4. QED
      BY <2>2, <3>1, <3>2, <3>3 DEF Fits
  <2>5. Wanted(t)' = Wanted(t) /\ Answered(t)' = Answered(t)
    BY <2>2 DEF Wanted, Answered, At
  <2>6. FitInv(t)'
    BY <2>1, <2>2, <2>4, <2>5 DEF FitInv
  <2>7. ScoreInv(t)'
    BY <2>1, <2>2, <2>5 DEF ScoreInv, Crowded
  <2>8. FreshInv(t)'
    BY <2>1, <2>2 DEF FreshInv
  <2>9. QED
    BY <2>3, <2>6, <2>7, <2>8
<1>2. QED
  BY <1>1 DEF IInv

LEMMA WriterInv ==
  ASSUME IInv, NEW w \in Writers, Embed(w) \/ Close(w) \/ Put(w)
  PROVE  IInv'
<1>1. Types /\ StoreInv
  BY DEF IInv
<1>2. UNCHANGED <<pc, local, received, known>>
  BY DEF Embed, Close, Put, Write
<1>3. CASE Embed(w)
  <2>1. PICK c \in Ids \ entries :
          /\ entries' = entries \cup {c} /\ UNCHANGED <<chunks, closed>>
          /\ writing' = [writing EXCEPT ![w] = [step |-> "close", new |-> c]]
    BY <1>3 DEF Embed, Write
  <2>2. Types'
    BY <1>1, <1>2, <2>1 DEF Types
  <2>3. StoreInv'
    BY <1>1, <2>1 DEF StoreInv, Types
  <2>4. QED
    BY <1>2, <2>1, <2>2, <2>3, WriterStep
<1>4. CASE Close(w)
  <2>1. /\ writing[w].step = "close"
        /\ closed' = closed \cup ({Corpus[writing[w].new].supersedes} \cap chunks)
        /\ UNCHANGED <<chunks, entries>>
        /\ writing' = [writing EXCEPT ![w] = [step |-> "put", new |-> writing[w].new]]
    BY <1>4 DEF Close, Write
  <2>2. closed' \subseteq chunks /\ closed' \in SUBSET Ids
    BY <1>1, <2>1 DEF StoreInv, Types
  <2>3. Types'
    BY <1>1, <1>2, <2>1, <2>2 DEF Types
  <2>4. StoreInv'
    BY <1>1, <2>1, <2>2 DEF StoreInv, Types
  <2>5. QED
    BY <1>2, <2>1, <2>3, <2>4, WriterStep
<1>5. CASE Put(w)
  <2>1. /\ writing[w].step = "put"
        /\ chunks' = chunks \cup {writing[w].new}
        /\ UNCHANGED <<entries, closed>>
        /\ writing' = [writing EXCEPT ![w] = [step |-> "idle", new |-> 0]]
    BY <1>5 DEF Put, Write
  <2>2. writing[w].new \in entries
    BY <1>1, <2>1 DEF StoreInv
  <2>3. Types'
    BY <1>1, <1>2, <2>1, <2>2 DEF Types
  <2>4. StoreInv'
    BY <1>1, <2>1, <2>2 DEF StoreInv, Types
  <2>5. QED
    BY <1>2, <2>1, <2>3, <2>4, WriterStep
<1>6. QED
  BY <1>3, <1>4, <1>5

LEMMA NextInv == IInv /\ [Next]_vars => IInv'
<1> SUFFICES ASSUME IInv, [Next]_vars
             PROVE  IInv'
  OBVIOUS
<1>1. ASSUME NEW t \in Readers, Receive(t) \/ Step(t)
      PROVE  IInv'
  BY <1>1, ReceiveInv, ListInv, SearchInv, SearchedInv, FailInv, FilterInv,
     ScoreStepInv, DiversifyInv, ReplyInv DEF Step
<1>2. ASSUME NEW w \in Writers, Embed(w) \/ Close(w) \/ Put(w)
      PROVE  IInv'
  BY <1>2, WriterInv
<1>3. CASE UNCHANGED vars
  <2>1. UNCHANGED <<pc, local, received, known, chunks, entries, closed, writing>>
    BY <1>3 DEF vars, store
  <2>2. Types' /\ StoreInv'
    BY <2>1 DEF IInv, Types, StoreInv
  <2>3. QED
    BY <2>1, <2>2, WriterStep
<1>4. QED
  BY <1>1, <1>2, <1>3 DEF Next

THEOREM Invariance == Spec => []IInv
<1>1. QED
  BY InitInv, NextInv, PTL DEF Spec

----------------------------------------------------------------------------
(* The properties.                                                         *)

\* A chunk is listed only after its entry and closed only when stored, and a
\* reply has at most top_k chunks, all of them scored and stored.
THEOREM TypeCorrect == Spec => []TypeOK
<1>1. IInv => TypeOK
  BY DEF IInv, Types, StoreInv, HandInv, TypeOK
<1>2. QED
  BY <1>1, Invariance, PTL

\* Whatever other threads ingest meanwhile: where the store fits the fan-out, a
\* chunk that was there when the request came and passes the filter is returned
\* or gives way to top_k others that score no less.
THEOREM NothingIsLost == Spec => []NothingIsLostWithinTheFanout
<1>1. IInv => NothingIsLostWithinTheFanout
  BY DEF IInv, FitInv, Fits, Wanted, NothingIsLostWithinTheFanout
<1>2. QED
  BY <1>1, Invariance, PTL

\* For every corpus, every answer of the judge and every weights that satisfy
\* WeightsAssumption: evidence of an unknown or a publication time only scores
\* below exact evidence whose windows agree, where at most seven chunks of the
\* latter's region come first.
THEOREM WeakNeverOutranks == Spec => []WeakNeverOutranksConsistent
<1>1. ASSUME IInv
      PROVE  WeakNeverOutranksConsistent
  <2> SUFFICES ASSUME NEW t \in Readers, Answered(t),
                      NEW c \in DOMAIN local[t].final, NEW d \in DOMAIN local[t].final,
                      Weak(c), Exact(d), Consistent(d), ~ Crowded(t, d)
               PROVE  ~ (local[t].final[c] >= local[t].final[d])
    BY DEF WeakNeverOutranksConsistent, Outranks
  <2>1. Types /\ ScoreInv(t)
    BY <1>1 DEF IInv
  <2>2. local[t].final[c] <= 100 * WeakMost /\ local[t].final[d] >= 44 * ExactLeast
    BY <2>1 DEF ScoreInv, Sound
  <2>3. local[t].final[c] \in Nat /\ local[t].final[d] \in Nat
    BY <2>1, LocalsType, ScoresType
  <2>4. WeakMost \in Nat /\ ExactLeast \in Nat /\ 100 * WeakMost < 44 * ExactLeast
    BY LimitsType, WeightsAssumption
  <2> DEFINE a == local[t].final[c]
             b == local[t].final[d]
  <2>5. a <= 100 * WeakMost /\ b >= 44 * ExactLeast /\ a \in Nat /\ b \in Nat
    BY <2>2, <2>3
  <2> HIDE DEF a, b
  <2>6. ~ (a >= b)
    BY <2>4, <2>5
  <2>7. QED
    BY <2>6 DEF a, b
<1>2. QED
  BY <1>1, Invariance, PTL

=============================================================================
