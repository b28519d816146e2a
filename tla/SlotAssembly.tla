---------------------------- MODULE SlotAssembly ----------------------------
(***************************************************************************)
(* From fused scores to the evidence of one benchmark question: the        *)
(* corrections of finalization.py and the slots of slot_assembler.py, both *)
(* under src/benchmarks/layer2_crossdomain/methods/chronorag_full/.        *)
(*                                                                         *)
(* Rows are numbered in the order of the corpus.  A day belongs to the     *)
(* year of its tens; a version to the release line of its tens; 0 is none. *)
(* A field is the set of its tokens: a file name is that of its stem, and  *)
(* the tokens that any source has are left out.  Scores are in millionths, *)
(* and what a field shares with a question is in whole hundredths.         *)
(***************************************************************************)
EXTENDS TemporalPrecision, SequencesExt

CONSTANTS
  Rows,        \* the corpus, a sequence
  Corpora,     \* sets of rows that a corpus may hold
  Queries,
  Relevances,  \* what the words of a row may be worth, in hundredths
  Ablations,   \* sets of parts that are switched off
  TopKs,
  SourceFamilies, MetricTerms,  \* the words the assembler knows, a family as a set of them
  PoolSize                      \* how many rows the assembler gets to see

\* origins: source_kind and domain.
Words == {w \in SUBSET STRING : IsFiniteSet(w)}
Row ==
  [entity : Words, family : Words, file : Words, metric : Words, text : Words,
   origins : SUBSET Words, from : Nat, to : Nat, filed : Nat,
   kind : Kinds, official : BOOLEAN, version : Nat, disputed : BOOLEAN]

Sources(r) == {r.family, r.file} \cup r.origins

\* constraints: what temporal_precision finds; dates, years: what the slots find,
\* excluded ones too; labels: expected_valid_time of the case; contested: its
\* category; sides: of a comparison, as the question tells them apart.  The
\* finalizer and the assembler each have their own words: cue (several rows are
\* asked for) and explicit (the time something was valid) are those of the
\* finalizer, conflict and validTime those of the assembler.
Side  == [words : Words, dates : SUBSET Nat, years : SUBSET Nat, versions : SUBSET Nat]
Query ==
  [words : Words, constraints : SUBSET Constraint, labels : SUBSET Constraint,
   asks : BOOLEAN, contested : BOOLEAN, dates : SUBSET Nat, years : SUBSET Nat,
   versions : SUBSET Nat, sides : Seq(Side), cue : BOOLEAN, explicit : BOOLEAN,
   conflict : BOOLEAN, validTime : BOOLEAN, vague : BOOLEAN]

Parts == {"precision", "role", "anchors", "slots", "all but the scores"}

ASSUME SlotAssumption ==
  /\ Rows \in Seq(Row)
  /\ \A i \in DOMAIN Rows : IsFiniteSet(Rows[i].origins) /\ UNION Sources(Rows[i]) # {}
  /\ \A q \in Queries :
       /\ q \in Query /\ Len(q.sides) \in {0, 2}
       /\ IsFiniteSet(q.constraints) /\ \A k \in q.constraints : WellFormed(k)
  /\ Corpora \subseteq SUBSET DOMAIN Rows
  /\ SourceFamilies \subseteq Words /\ MetricTerms \subseteq STRING /\ PoolSize \in Nat
  /\ {0, 100} \subseteq Relevances /\ \A p \in Relevances : p \in Nat /\ p <= 100
  /\ Ablations \subseteq SUBSET Parts /\ TopKs \subseteq Nat

VARIABLES
  pc,
  query, topK, off,  \* the case, and what is switched off in it
  score,    \* the rows of the corpus and their scores
  pool,     \* the candidates of the assembler
  todo,     \* slots still to fill
  selected, \* evidence in order
  filled,   \* the slot of each
  required, \* candidates a slot asked for
  missed    \* slots without a candidate

case == <<query, topK, off>>
vars == <<pc, case, score, pool, todo, selected, filled, required, missed>>

----------------------------------------------------------------------------
(* classify_candidate.                                                     *)

TransactionOnly(r) == r.kind = "filing" \/ (r.from = 0 /\ r.filed # 0)

Near(year, years) == \E y \in years : year - y \in -1..1

TemporalFit(r, q) ==
  LET ofDates ==
        IF r.from \in q.dates                                      THEN "exact_target" ELSE
        IF \E d \in q.dates : r.from <= d /\ d <= r.to             THEN "broad" ELSE
        IF YearOf(r.from) \in {YearOf(d) : d \in q.dates}          THEN "same_year_wrong_date" ELSE
        IF Near(YearOf(r.from), q.years)                           THEN "nearby" ELSE "unknown"
      ofYears ==
        IF YearOf(r.from) \in q.years                              THEN "year_match" ELSE
        IF Near(YearOf(r.from), q.years)                           THEN "nearby" ELSE "unknown"
  IN  IF TransactionOnly(r)                  THEN "transaction_only" ELSE
      IF r.from # 0 /\ q.dates # {}         THEN ofDates ELSE
      IF r.from # 0 /\ q.years # {}         THEN ofYears ELSE "unknown"

IsExactTarget(r, q) == TemporalFit(r, q) \in {"exact_target", "year_match"}

Neighborhood(r) == <<r.entity, r.family, r.metric>>
Mentions(q, r) == q.words \cap (r.entity \cup r.family \cup r.metric) # {}

\* A file name with its extension is no family.
SourceFit(r, q) ==
  LET asked == {f \in SourceFamilies : f \subseteq q.words} IN
  IF asked = {}                                    THEN "unknown" ELSE
  IF asked \cap ({r.family} \cup r.origins) # {} THEN "exact"   ELSE "mismatch"

VersionFit(r, q) ==
  IF q.versions = {} \/ r.version = 0                                  THEN "unknown" ELSE
  IF r.version \in q.versions                                          THEN "exact" ELSE
  IF r.version \div 10 \in {v \div 10 : v \in q.versions}             THEN "sibling" ELSE "mismatch"

\* A metric has to cover half of the words for metrics that the question has.
AskedMetrics(q) == q.words \cap (MetricTerms \cup UNION {Rows[c].metric : c \in pool})

MetricFit(r, q) ==
  LET asked == AskedMetrics(q) IN
  IF VersionFit(r, q) \in {"exact", "sibling"}                         THEN VersionFit(r, q) ELSE
  IF asked = {} \/ r.metric = {}                                       THEN "unknown" ELSE
  IF 2 * Cardinality(asked \cap r.metric) >= Cardinality(asked)        THEN "exact" ELSE "mismatch"

Points(holds, n) == IF holds THEN n ELSE 0

Tokens(r) == r.entity \cup r.family \cup r.file \cup r.metric \cup r.text

SlotMatchScore(r, side) ==
  Cardinality(Tokens(r) \cap side.words)
  + Points(r.entity # {} /\ r.entity \subseteq side.words, 6)
  + Points(YearOf(r.from) \in side.years, 4) + Points(r.from \in side.dates, 5)
  + Points(r.version \in side.versions, 5)

\* The first of the sides that a row suits best, 0 for none.
BestSide(r, q) ==
  LET S     == {i \in DOMAIN q.sides : SlotMatchScore(r, q.sides[i]) >= 2}
      Score(i) == SlotMatchScore(r, q.sides[i])
  IN  IF S = {} THEN 0
      ELSE Min({i \in S : \A j \in S : Score(i) >= Score(j)})

----------------------------------------------------------------------------
(* finalize_chronorag_evidence: three corrections of the scores.           *)

Part(x, percent) == (x * percent + 50) \div 100

\* "score_only" switches every part off.
Off(part) == {part, "all but the scores"} \cap off # {}

HasValidTime(r) == r.from # 0 /\ r.kind # "filing"

\* Mutant: a date that is ruled out counts as well.
PositiveOrNegative(q) == {k \in q.constraints : ~ k.ambiguous /\ k.grain = "day"}

Positive(q) == {k \in q.constraints : ~ k.negative /\ ~ k.ambiguous /\ k.grain = "day"}

\* Only for a question with one date that is not negated, and that is named once.
ExactTimeCleanup(q, old) ==
  LET target == CHOOSE k \in Positive(q) : TRUE
      Hit(c) == IsExactMatch(target, Rows[c])
      places == {Neighborhood(Rows[c]) : c \in {d \in DOMAIN old : Hit(d)}}
  IN  IF Cardinality(Positive(q)) # 1 \/ q.cue THEN old
      ELSE [c \in DOMAIN old |->
             IF Hit(c) THEN Clamp(old[c] + 40000) ELSE
             IF HasValidTime(Rows[c]) /\ Neighborhood(Rows[c]) \in places
             THEN Part(old[c], 18) ELSE old[c]]

NeedsValidTime(q) == q.explicit \/ \E k \in q.constraints : ~ k.negative /\ k.role = "valid"

TransactionRoleCleanup(q, old) ==
  IF ~ NeedsValidTime(q) \/ \A c \in DOMAIN old : ~ HasValidTime(Rows[c]) THEN old
  ELSE [c \in DOMAIN old |->
         IF Rows[c].kind = "filing"                   THEN Part(old[c], 10) ELSE
         IF Rows[c].filed # 0 /\ Rows[c].from = 0     THEN Part(old[c], 45) ELSE old[c]]

\* What share of a field the question names.
Overlap(words, field) ==
  IF field = {} THEN 0 ELSE (100 * Cardinality(words \cap field)) \div Cardinality(field)

SourceStrength(r, q) == Max({Overlap(q.words, f) : f \in Sources(r)})
MetricStrength(r, q) == Overlap(q.words, r.metric)

\* A source or metric that the question names is rewarded in proportion; others
\* lose if some row has it.
SourceMetricAdjustments(q, old) ==
  LET bySource == \E c \in DOMAIN old : SourceStrength(Rows[c], q) >= 50
      byMetric == "metric" \in q.words \/ \E c \in DOMAIN old : MetricStrength(Rows[c], q) >= 45
      Share(r) ==
        (IF bySource /\ SourceStrength(r, q) < 50                     THEN 92 ELSE 100)
        * (IF byMetric /\ MetricStrength(r, q) < 45 /\ r.metric # {} THEN 9 ELSE 10)
      Reward(r) == Points(SourceStrength(r, q) >= 50, 600 * SourceStrength(r, q))
                   + Points(MetricStrength(r, q) >= 45, 800 * MetricStrength(r, q))
  IN  [c \in DOMAIN old |->
        IF old[c] = 0 THEN 0
        ELSE Clamp((old[c] * Share(Rows[c]) + 500) \div 1000 + Reward(Rows[c]))]

Before(s, c, d) == s[c] > s[d] \/ (s[c] = s[d] /\ c < d)
First(S)        == CHOOSE c \in S : \A d \in S \ {c} : Before(score, c, d)

\* Only the best rows go to the assembler.
BestRows(s) ==
  {c \in DOMAIN s : Cardinality({d \in DOMAIN s : Before(s, d, c)}) < PoolSize}

----------------------------------------------------------------------------
(* assemble_top_k.                                                         *)

\* Mutant: the target of the whole question comes before those of its sides.
SlotsTargetFirst(q) ==
  (IF q.dates # {} \/ q.years # {} THEN <<<<"exact_temporal_target", 0>>>>  ELSE <<>>)
  \o [i \in DOMAIN q.sides |-> <<"comparison_slot", i>>]

Slots(q) ==
  [i \in DOMAIN q.sides |-> <<"comparison_slot", i>>]
  \o (IF q.validTime                  THEN <<<<"transaction_valid_time", 0>>>> ELSE <<>>)
  \o (IF q.dates # {} \/ q.years # {} THEN <<<<"exact_temporal_target", 0>>>>  ELSE <<>>)
  \o (IF q.versions # {}              THEN <<<<"exact_version", 0>>>>          ELSE <<>>)
  \o (IF q.conflict THEN <<<<"conflict_primary", 0>>, <<"conflict_side", 0>>>> ELSE <<>>)

Chosen   == ToSet(selected)
Exact(q) == {c \in pool \ Chosen : IsExactTarget(Rows[c], q)}
Version(q) == {c \in pool \ Chosen : VersionFit(Rows[c], q) = "exact"}

ComparisonMatches(i) == {c \in Exact(query) : BestSide(Rows[c], query) = i}

\* Mutant: a report stands for a time that is asked for.
SlotMatchesFilings(slot) ==
  IF slot[1] = "transaction_valid_time" THEN pool \ Chosen ELSE Exact(query)

SlotMatches(slot) ==
  CASE slot[1] = "comparison_slot" -> ComparisonMatches(slot[2])
    [] slot[1] \in {"transaction_valid_time", "exact_temporal_target"} -> Exact(query)
    [] slot[1] = "exact_version"    -> Version(query)
    [] slot[1] = "conflict_primary" -> IF Exact(query) # {} THEN Exact(query) ELSE Version(query)
    [] slot[1] = "conflict_side"    -> {c \in pool \ Chosen : Rows[c].disputed}

\* Fits first, then the score; a side of a comparison has its own measure.
Preference(slot, c) ==
  LET r    == Rows[c]
      fits == Points(SourceFit(r, query) = "exact", 4) + Points(MetricFit(r, query) = "exact", 2)
              + Points(VersionFit(r, query) = "exact", 1)
  IN  score[c] + 2000000 * (IF slot[1] = "comparison_slot"
                            THEN SlotMatchScore(r, query.sides[slot[2]]) ELSE fits)

Best(slot) ==
  LET S == SlotMatches(slot) IN
  CHOOSE c \in S : \A d \in S \ {c} :
    \/ Preference(slot, c) > Preference(slot, d)
    \/ Preference(slot, c) = Preference(slot, d) /\ c < d

ExactOrNarrow == {c \in pool : IsExactTarget(Rows[c], query)}

WrongTime(r) == TemporalFit(r, query) \in {"same_year_wrong_date", "nearby", "broad", "unknown"}

Suppressed(r) ==
  \/ VersionFit(r, query) = "sibling" /\ \E c \in pool : VersionFit(Rows[c], query) = "exact"
  \/ WrongTime(r) /\ Neighborhood(r) \in {Neighborhood(Rows[c]) : c \in ExactOrNarrow}
  \/ SourceFit(r, query) = "mismatch"
  \/ MetricFit(r, query) = "mismatch"
  \/ TemporalFit(r, query) = "broad" /\ ExactOrNarrow # {} /\ Mentions(query, r)

\* Mutant: what another version or time says is eligible.
EligibilityUnsuppressed(c) ==
  IF c \in required THEN "required" ELSE
  IF score[c] = 0   THEN "blocked"  ELSE "eligible"

Eligibility(c) ==
  LET r == Rows[c] IN
  IF c \in required THEN "required" ELSE
  IF \/ score[c] = 0
     \/ /\ query.validTime /\ TransactionOnly(r)
        /\ \E d \in pool : ~ TransactionOnly(Rows[d])     THEN "blocked" ELSE
  IF Suppressed(r)                                              THEN "suppressed" ELSE
  IF TemporalFit(r, query) \in {"broad", "nearby", "unknown"}   THEN "weak_eligible"
  ELSE "eligible"

AllowsWeakFiller == query.vague \/ ExactOrNarrow = {}

----------------------------------------------------------------------------
(* The steps of one case.                                                  *)

Init ==
  /\ pc = "fuse"
  /\ query \in Queries /\ topK \in TopKs /\ off \in Ablations
  /\ \E corpus \in Corpora : score = [c \in corpus |-> 0]
  /\ pool = {} /\ todo = <<>> /\ selected = <<>> /\ filled = <<>> /\ required = {} /\ missed = {}

\* The best words are worth 100 and the worst 0, unless all are worth the same.
Normalized(relevance) ==
  LET worth == {relevance[c] : c \in DOMAIN relevance}
  IN  {0, 100} \subseteq worth \/ worth \in {{0}, {100}}

\* The adapter does not look at "score_only", the finalizer does.
Fuse ==
  \E relevance \in [DOMAIN score -> Relevances] :
    /\ pc = "fuse"
    /\ Normalized(relevance)
    /\ score' = [c \in DOMAIN score |->
         IF "precision" \in off        THEN Fused(Rows[c], relevance[c], 0) ELSE
         IF RuledOut(Rows[c], query)   THEN 0
         ELSE Fused(Rows[c], relevance[c], TemporalWeight(Rows[c], query))]
    /\ pc' = "finalize"
    /\ UNCHANGED <<case, pool, todo, selected, filled, required, missed>>

Finalize ==
  LET exact   == IF Off("precision") THEN score ELSE ExactTimeCleanup(query, score)
      roles   == IF Off("role")      THEN exact ELSE TransactionRoleCleanup(query, exact)
      anchors == IF Off("anchors")   THEN roles ELSE SourceMetricAdjustments(query, roles)
  IN
  /\ pc = "finalize"
  /\ score' = anchors
  /\ pool' = BestRows(anchors)
  /\ todo' = Slots(query)
  /\ pc' = IF Off("slots") THEN "rank" ELSE "slots"
  /\ UNCHANGED <<case, selected, filled, required, missed>>

\* Mutant: the room that is left is not looked at.
AddPastTopK(c, slot) ==
  /\ selected' = Append(selected, c)
  /\ filled' = Append(filled, slot)

Add(c, slot) ==
  IF Len(selected) < topK
  THEN selected' = Append(selected, c) /\ filled' = Append(filled, slot)
  ELSE UNCHANGED <<selected, filled>>

\* One turn of a loop over the ordered candidates: the first of those in S that
\* are not chosen yet, until none or no room is left.
Take(step, S, slot, next) ==
  /\ pc = step
  /\ \/ /\ S \ Chosen # {} /\ Len(selected) < topK
        /\ Add(First(S \ Chosen), slot)
        /\ UNCHANGED pc
     \/ /\ S \subseteq Chosen \/ Len(selected) >= topK
        /\ pc' = next
        /\ UNCHANGED <<selected, filled>>
  /\ UNCHANGED <<case, score, pool, todo, required, missed>>

\* Without the assembler the best scores are the evidence.
Rank == Take("rank", pool, "score", "done")

\* A candidate for which there is no room left is required all the same.
FillSlot ==
  /\ pc = "slots" /\ todo # <<>> /\ topK > 0
  /\ todo' = Tail(todo)
  /\ LET slot == Head(todo) IN
     \/ /\ SlotMatches(slot) = {}
        /\ missed' = missed \cup {slot}
        /\ UNCHANGED <<selected, filled, required>>
     \/ /\ SlotMatches(slot) # {}
        /\ required' = required \cup {Best(slot)}
        /\ Add(Best(slot), slot[1])
        /\ UNCHANGED missed
  /\ UNCHANGED <<pc, case, score, pool>>

Having(state) == {c \in pool : Eligibility(c) = state}

SlotsDone ==
  /\ pc = "slots" /\ (todo = <<>> \/ topK = 0)
  /\ pc' = IF topK = 0 THEN "done" ELSE "fill"
  /\ UNCHANGED <<case, score, pool, todo, selected, filled, required, missed>>

FillEligible == Take("fill", Having("eligible"), "eligible_filler", "weak")
FillWeak ==
  AllowsWeakFiller /\ Take("weak", Having("weak_eligible"), "weak_eligible_filler", "emergency")
SkipWeak ==
  /\ ~ AllowsWeakFiller /\ pc = "weak" /\ pc' = "emergency"
  /\ UNCHANGED <<case, score, pool, todo, selected, filled, required, missed>>

\* One weak candidate, or one suppressed, rather than nothing.
Emergency ==
  LET weak == Having("weak_eligible")
      last == IF weak # {} THEN weak ELSE Having("suppressed")
  IN
  /\ pc = "emergency"
  /\ IF selected = <<>> /\ last # {}
     THEN Add(First(last), "emergency_fallback") ELSE UNCHANGED <<selected, filled>>
  /\ pc' = "done"
  /\ UNCHANGED <<case, score, pool, todo, required, missed>>

Next ==
  \/ Fuse \/ Finalize \/ Rank \/ FillSlot \/ SlotsDone
  \/ FillEligible \/ FillWeak \/ SkipWeak \/ Emergency

Spec == Init /\ [][Next]_vars

----------------------------------------------------------------------------
(* Properties.                                                             *)

Assembled == pc = "done" /\ ~ Off("slots") /\ topK > 0

TypeOK ==
  /\ Len(selected) <= topK /\ Len(filled) = Len(selected) /\ IsInjective(selected)
  /\ Chosen \cup required \subseteq pool /\ pool \subseteq DOMAIN score
  /\ score \in [DOMAIN score -> Scores]

\* However the scores of the rows that reach the assembler fall, a comparison with
\* room for both sides keeps a row of the time that is asked for on each side that
\* has one (slot_assembler.py 276-283).  A row behind the PoolSize best does not
\* reach it: a side with no other row is lost there (finalization.py 92).
BothSidesAreKept ==
  Assembled /\ topK >= 2 =>
    \A i \in DOMAIN query.sides :
      LET side == {c \in pool : IsExactTarget(Rows[c], query) /\ BestSide(Rows[c], query) = i}
      IN  side # {} => side \cap Chosen # {}

\* A row with another time than its neighbour on the target, a sibling version or
\* a source or metric that was not asked for is chosen only if a slot asked for it,
\* or alone; and no filler takes the room of a required row
\* (slot_assembler.py 313-340, 475-531).  A neighbour or a version behind the
\* PoolSize best rows suppresses nothing (finalization.py 92).
WrongEvidenceStandsAlone ==
  Assembled =>
    /\ \A c \in Chosen \ required : Suppressed(Rows[c]) => selected = <<c>>
    /\ ~ required \subseteq Chosen => Chosen \subseteq required

\* Where the time something was valid is asked for and some row that reaches the
\* assembler has one, what is known by its filing only gets in as a version or as a
\* side of a conflict (slot_assembler.py 285-311, 499-501).  Rows behind the PoolSize
\* best do not count (finalization.py 92).
FilingsNeverStandIn ==
  Assembled /\ query.validTime /\ (\E c \in pool : ~ TransactionOnly(Rows[c])) =>
    \A i \in DOMAIN selected : TransactionOnly(Rows[selected[i]]) =>
      filled[i] \in {"exact_version", "conflict_primary", "conflict_side"}

\* The days a question asks for, a day that it names twice as two.
Targets == {k \in query.constraints : k.grain = "day" /\ ~ k.negative /\ ~ k.ambiguous}

RuledOutDay(k) ==
  \E n \in query.constraints : n.negative /\ ~ n.ambiguous /\ IsExactMatch(n, k)

NothingRuledOut == \A n \in query.constraints : ~ n.negative

\* However well the words of its neighbours match, a row of the one day that is
\* asked for, and named once, has a higher score than every dated row about the same
\* thing: a composition of the fusion with both corrections.  Where other times are
\* ruled out, be it a range around the day, but not the day itself or all of its
\* month, it takes that the question names its source as well as the neighbour's:
\* the reward for a source looks at fields that neighbours need not share
\* (adapter.py 143-170, finalization.py 126-223, 299-306).
ExactBeatsItsNeighbours ==
  pc \notin {"fuse", "finalize"} /\ ~ Off("precision") /\ ~ query.cue
  /\ ~ query.contested /\ ~ AsksFiling(query) /\ Cardinality(Targets) = 1 =>
    \A k \in Targets : ~ RuledOutDay(k) => \A c, d \in DOMAIN score :
      /\ HasValidTime(Rows[c]) /\ HasValidTime(Rows[d])
      /\ Neighborhood(Rows[c]) = Neighborhood(Rows[d])
      /\ NothingRuledOut \/ SourceStrength(Rows[c], query) >= SourceStrength(Rows[d], query)
      /\ IsExactMatch(k, Rows[c]) /\ ~ IsExactMatch(k, Rows[d])
      => score[c] > score[d]

\* README.md 86-93: a date that the question rules out is not treated as a target,
\* and what is there for the target comes without it.
NegatedIsNeverATarget ==
  Assembled /\ ~ Off("precision")
  /\ (\E c \in pool, k \in Targets : Rows[c].from = k.from) =>
    \A i \in DOMAIN selected : filled[i] = "exact_temporal_target" =>
      ~ \E k \in query.constraints : k.negative /\ IsExactMatch(k, Rows[selected[i]])

=============================================================================
