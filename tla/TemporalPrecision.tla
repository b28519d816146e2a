-------------------------- MODULE TemporalPrecision --------------------------
(***************************************************************************)
(* How well the time of a row fits what a question says about time, and    *)
(* the score this is fused into: score_temporal_precision and              *)
(* has_negative_exact_temporal_match (core/ingestion/temporal_precision.py) *)
(* as the benchmark adapter calls them.                                    *)
(*                                                                         *)
(* A year has ten days and a month five; 0 is no day; times of day are     *)
(* left out.  What a constraint fits is in hundredths, temporal scores are *)
(* in ten thousandths and fused ones in millionths.                        *)
(***************************************************************************)
EXTENDS Integers, FiniteSetsExt

\* valid_time_exact, valid_time_range, transaction_time_only, conflict_claim,
\* revision, missing_or_unknown
Kinds  == {"exact", "range", "filing", "conflict", "revision", "unknown"}
Grains == {"day", "month", "year", "range", "fuzzy"}

\* What extract_temporal_constraints finds; a quarter is a range.  The code has a
\* list of them: at is the place in the question, so that a time that is named twice
\* is there twice.
Constraint ==
  [at : Nat, from : Nat, to : Nat, grain : Grains, negative : BOOLEAN, ambiguous : BOOLEAN,
   role : {"valid", "filing"}]

YearOf(day)  == day \div 10
MonthOf(day) == day \div 5
Whole        == 1000000
Scores       == 0..Whole
Clamp(x)     == Max({0, Min({Whole, x})})

SameYear(d, e)  == YearOf(d) = YearOf(e)
SameMonth(d, e) == MonthOf(d) = MonthOf(e)

\* A date is one day, and a month one month.
WellFormed(k) ==
  /\ k.grain = "day"   => k.from = k.to
  /\ k.grain = "month" => SameMonth(k.from, k.to)

----------------------------------------------------------------------------
(* One constraint and the interval t of a row.                             *)

FitsDay(k, t, kind) ==
  IF t.from = k.from /\ t.to = k.to      THEN 100 ELSE
  IF t.from <= k.from /\ k.from <= t.to  THEN (IF kind = "range" THEN 78 ELSE 62) ELSE
  IF SameMonth(t.from, k.from)           THEN 34  ELSE
  IF SameYear(t.from, k.from)            THEN 18  ELSE 2

FitsMonth(k, t) ==
  IF SameMonth(t.from, k.from) THEN 86 ELSE IF SameYear(t.from, k.from) THEN 26 ELSE 2

FitsYear(k, t) == IF SameYear(t.from, k.from) THEN 72 ELSE 4

FitsRange(k, t) ==
  IF t.from <= k.to /\ k.from <= t.to                          THEN (IF k.grain = "range" THEN 78 ELSE 68) ELSE
  IF SameYear(t.from, k.from) \/ SameYear(t.from, k.to)        THEN 25 ELSE 3

Fits(k, t, kind) ==
  CASE k.grain = "day"   -> FitsDay(k, t, kind)
    [] k.grain = "month" -> FitsMonth(k, t)
    [] k.grain = "year"  -> FitsYear(k, t)
    [] OTHER             -> FitsRange(k, t)

IsExactMatch(k, t) ==
  CASE k.grain = "month" -> SameMonth(t.from, k.from) /\ SameMonth(t.to, k.to)
    [] k.grain = "year"  -> SameYear(t.from, k.from) /\ SameYear(t.to, k.to)
    [] OTHER             -> t.from = k.from /\ t.to = k.to

----------------------------------------------------------------------------
(* All constraints of a question.                                          *)

\* asks: one of the words for the transaction role.
AsksFiling(q) == q.asks \/ \E k \in q.constraints : k.role = "filing"

RowInterval(r, q) ==
  IF AsksFiling(q) THEN [from |-> r.filed, to |-> r.filed] ELSE [from |-> r.from, to |-> r.to]

\* A question that names no time is scored by the labels of its case.
Scored(q) == IF q.constraints = {} THEN q.labels ELSE q.constraints

\* A row at a time that a constraint rules out.
RuledOut(r, q) ==
  LET t == RowInterval(r, q) IN
  t.from # 0 /\ \E k \in q.constraints : k.negative /\ ~ k.ambiguous /\ IsExactMatch(k, t)

Precision(r, q) ==
  LET t         == RowInterval(r, q)
      Fit(k)    == IF k.ambiguous THEN 18 ELSE Fits(k, t, r.kind)
      positive  == Max({0} \cup {Fit(k) : k \in {c \in Scored(q) : ~ c.negative}})
      penalty   == Max({0} \cup {Fit(k) : k \in {c \in Scored(q) : c.negative /\ ~ c.ambiguous}})
      contested == q.contested /\ r.kind \in {"conflict", "revision"}
      floor     == IF contested THEN 8000 ELSE 0
  IN  IF r.kind = "filing" /\ ~ AsksFiling(q) THEN 300 ELSE
      IF t.from # 0  THEN Max({floor, positive * (100 - penalty)}) ELSE
      IF contested   THEN floor ELSE
      IF r.kind = "unknown" THEN 200 ELSE 800

TemporalWeight(r, q) ==
  IF q.contested /\ r.kind = "conflict" THEN 8000 ELSE Precision(r, q)

\* relevance in hundredths; official: filings, regulations, guidelines, change logs.
Fused(r, relevance, temporal) ==
  Clamp(5000 * relevance + 35 * temporal + (IF r.official THEN 70000 ELSE 50000)
        - (IF r.kind = "filing" THEN 150000 ELSE 0))

=============================================================================
