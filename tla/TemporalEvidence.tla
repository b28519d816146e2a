-------------------------- MODULE TemporalEvidence --------------------------
(***************************************************************************)
(* How a chunk gets its time and how a question uses it: the cascade of    *)
(* infer_temporal_metadata, its conversion into windows, and the temporal  *)
(* filter of the store with its quality weights.                           *)
(*                                                                         *)
(* A text is what extract_temporal_constraints and the regular expressions *)
(* of the chunker find in it; a payload is the row it came with.           *)
(***************************************************************************)
EXTENDS TimeWindows, Sequences, FiniteSets

CONSTANTS
  YearLength,  \* days in a year
  Epoch,       \* 1970-01-01, which parse_date returns for what it cannot read
  Texts, Payloads, Queries,
  None,
  ClockTime,   \* a time of day without a date, "14:30"
  MaxChunks    \* bound: chunks in the store

\* Granularities as the quality weight tells them apart: "other" stands for
\* day, month, fuzzy, daypart, hour, minute and second.
Grains == {"year", "range", "other"}

Claim == [when : Window \cup {ClockTime}, grain : Grains, confidence : 1..100]

\* claims: the unambiguous valid-time constraints, the most precise first;
\* published: the first unambiguous transaction constraint; unclear: there is an
\* ambiguous one; range, years: what the fallback expressions find; applies,
\* publication: what the text says of its only year.
Text ==
  [claims : Seq(Claim), published : Window \cup {ClockTime, None},
   unclear : BOOLEAN, range : Window \cup {None}, years : Seq(Window),
   applies : BOOLEAN, publication : BOOLEAN]

OptInstant == Instants \cup {None}

IsNewYear(d) == d % YearLength = 0

\* A date as a row has it. date: the day it names, None when parse_date cannot
\* read it ("1950", "1950-05", "in May"); bare: a year in digits, alone or with
\* "-01-01".
RowDate ==
  {d \in [date : OptInstant, bare : BOOLEAN] :
     d.bare /\ d.date # None => IsNewYear(d.date)}

Payload ==
  [from : RowDate \cup {None}, to : RowDate \cup {None}, grain : Grains \cup {None},
   year : Window \cup {None}, tx_start : RowDate \cup {None}, tx_end : RowDate \cup {None},
   section : Window \cup {None}]

Sources ==
  {"chunk_explicit", "row_metadata", "document_tx_time", "ambiguous_parse",
   "chunk_explicit_range", "section_range", "unknown"}

\* What is found out about the time of a chunk; its dates may be the wrong way
\* round, as a row may give them.
TemporalMetadata ==
  [valid : RawWindow \cup {None}, tx_start : OptInstant, tx_end : OptInstant,
   grain : Grains, source : Sources, confidence : 0..100, ambiguous : BOOLEAN]

\* The calendar ends with the last day of a year, as 9999-12-31 is.
ASSUME CalendarAssumption ==
  /\ YearLength \in Nat \ {0} /\ (Horizon + 1) % YearLength = 0
  /\ Epoch \in Instants /\ IsNewYear(Epoch)

ASSUME EvidenceAssumption ==
  /\ Texts \subseteq Text
  /\ Payloads \subseteq Payload
  /\ Queries \subseteq Window
  /\ MaxChunks \in Nat
  /\ ClockTime # None /\ None \notin RowDate
  /\ \A x \in {ClockTime, None} :
       x \notin RawWindow /\ x \notin Instants /\ x \notin Grains
  /\ None \notin TemporalMetadata

----------------------------------------------------------------------------
(* infer_temporal_metadata                                                 *)

NewYear(d) == YearLength * (d \div YearLength)

YearOf(d) == Span(NewYear(d), NewYear(d) + YearLength - 1)

\* _closed_end_iso
ClosedEnd(end, grain) ==
  IF grain = "year" /\ IsNewYear(end) THEN YearOf(end).end ELSE end

Or(x, default) == IF x = None THEN default ELSE x

ParseDate(d) == Or(d.date, Epoch)

RowGrain(p) == Or(p.grain, IF IsNewYear(ParseDate(p.from)) THEN "year" ELSE "range")

IsYear(p) == p.grain = "year" \/ p.from.bare

\* The valid window of the row and its grain.
Row(window, grain) == [window |-> window, grain |-> grain]

\* _row_valid_window
RowWindow(p) ==
  CASE p.from # None /\ p.to # None ->
         Row(Span(ParseDate(p.from), ClosedEnd(ParseDate(p.to), RowGrain(p))), RowGrain(p))
    [] p.from # None /\ p.to = None /\ IsYear(p) ->
         Row(YearOf(ParseDate(p.from)), "year")
    [] p.from # None /\ p.to = None /\ ~ IsYear(p) ->
         Row(Span(ParseDate(p.from), Horizon), Or(p.grain, "range"))
    [] p.from = None /\ p.year # None ->
         Row(p.year, "year")
    [] OTHER -> None

Dated(x) == x \notin {None, ClockTime}

\* _date_or_none
DateOrNone(d) == IF d = None THEN None ELSE ParseDate(d)

\* The tx dates: those of the row, else those of a publication the text dates.
Tx(text, p) ==
  IF p.tx_start = None /\ Dated(text.published)
  THEN Span(text.published.start,
            IF text.published.end # text.published.start
            THEN text.published.end ELSE DateOrNone(p.tx_end))
  ELSE Span(DateOrNone(p.tx_start), DateOrNone(p.tx_end))

Metadata(valid, tx, grain, source, confidence, ambiguous) ==
  [valid |-> valid, tx_start |-> tx.start, tx_end |-> tx.end, grain |-> grain,
   source |-> source, confidence |-> confidence, ambiguous |-> ambiguous]

Hull(windows) ==
  Span(CHOOSE s \in {w.start : w \in windows} : \A w \in windows : s <= w.start,
       CHOOSE e \in {w.end : w \in windows} : \A w \in windows : w.end <= e)

ElementsOf(s) == {s[i] : i \in DOMAIN s}

DatedClaims(text) == {c.when : c \in {d \in ElementsOf(text.claims) : Dated(d.when)}}

SeveralClaims(text, p) ==
  IF Len(text.claims) > 1 /\ DatedClaims(text) # {}
  THEN Metadata(Hull(DatedClaims(text)), Tx(text, p), "range", "chunk_explicit", 55, TRUE)
  ELSE None

\* A claim with a time of day only leaves the chunk without valid time.
BestClaim(text, p) ==
  IF text.claims # <<>>
  THEN LET c == Head(text.claims) IN
       Metadata(IF c.when = ClockTime THEN None ELSE c.when, Tx(text, p), c.grain,
                "chunk_explicit", IF c.grain = "year" THEN 95 ELSE c.confidence, FALSE)
  ELSE None

RowClaim(text, p) ==
  LET row == RowWindow(p) IN
  IF row # None
  THEN Metadata(row.window, Tx(text, p), row.grain, "row_metadata",
                IF row.grain = "year" THEN 90 ELSE 75, FALSE)
  ELSE None

Publication(text, p) ==
  IF text.published # None
  THEN Metadata(None, Tx(text, p), "other", "document_tx_time", 30, TRUE)
  ELSE None

Unclear(text, p) ==
  IF text.unclear
  THEN Metadata(None, Tx(text, p), "other", "ambiguous_parse", 20, TRUE)
  ELSE None

RangeInText(text, p) ==
  IF text.range # None
  THEN Metadata(text.range, Tx(text, p), "range", "chunk_explicit_range", 70, FALSE)
  ELSE None

YearInText(text, p) ==
  IF Len(text.years) = 1 /\ text.applies
  THEN Metadata(text.years[1], Tx(text, p), "year", "chunk_explicit", 95, FALSE)
  ELSE None

\* Mutant: a publication year is taken for the time of the claim.
PublicationYearIsValid(text, p) ==
  IF Len(text.years) = 1 /\ text.publication
  THEN Metadata(text.years[1], Tx(text, p), "year", "chunk_explicit", 95, FALSE)
  ELSE None

PublicationYear(text, p) ==
  IF Len(text.years) = 1 /\ text.publication
  THEN Metadata(None, Span(Or(DateOrNone(p.tx_start), text.years[1].start), DateOrNone(p.tx_end)),
                "other", "document_tx_time", 30, TRUE)
  ELSE None

SeveralYears(text, p) ==
  IF Len(text.years) > 1
  THEN Metadata(Hull(ElementsOf(text.years)), Tx(text, p), "range", "chunk_explicit", 55, TRUE)
  ELSE None

SectionRange(text, p) ==
  IF p.section # None
  THEN Metadata(p.section, Tx(text, p), "range", "section_range", 60, FALSE)
  ELSE None

RowTx(text, p) ==
  IF Tx(text, p).start # None
  THEN Metadata(None, Tx(text, p), "other", "document_tx_time", 30, TRUE)
  ELSE None

Unknown == Metadata(None, Span(None, None), "other", "unknown", 0, TRUE)

Readings(text, p) ==
  << SeveralClaims(text, p), BestClaim(text, p), RowClaim(text, p),
     Publication(text, p), Unclear(text, p), RangeInText(text, p),
     YearInText(text, p), PublicationYear(text, p), SeveralYears(text, p),
     SectionRange(text, p), RowTx(text, p), Unknown >>

\* The first reading the code returns.
Infer(text, p) ==
  LET r == Readings(text, p) IN
  r[CHOOSE i \in DOMAIN r : r[i] # None /\ \A j \in DOMAIN r : j < i => r[j] = None]

----------------------------------------------------------------------------
(* temporal_metadata_to_windows                                            *)

\* Mutant: the dates are not put in order.
ValidWindowRaw(m) == IF m.valid = None THEN AllTime ELSE m.valid

ValidWindow(m) ==
  IF m.valid = None THEN AllTime ELSE MakeWindow(m.valid.start, m.valid.end)

TxWindow(m) ==
  IF m.tx_start = None THEN None ELSE MakeWindow(m.tx_start, Or(m.tx_end, Horizon))

ChunkOf(text, p) ==
  LET m == Infer(text, p) IN
  [text |-> text, payload |-> p, temporal |-> m,
   valid_window |-> ValidWindow(m), tx_window |-> TxWindow(m)]

----------------------------------------------------------------------------
(* temporal_filter                                                         *)

Base(m) ==
  IF m.grain = "year" /\ m.source \in {"chunk_explicit", "row_metadata"} THEN 9500
  ELSE IF m.grain = "range" \/ m.source \in {"section_range", "chunk_explicit_range"} THEN 4500
  ELSE 6000

Discounted(m) == IF m.ambiguous THEN (Base(m) * 55) \div 100 ELSE Base(m)

Qualities == {n \in Nat : n <= 20000}

\* _temporal_quality_weight in units of 1/20000, where every weight the code
\* can return is a whole number and its clamp to 0.05 .. 1 does nothing.
Quality(c, q) ==
  LET m == c.temporal IN
  CASE m.source = "unknown" -> 2000
    [] m.source = "document_tx_time" -> 2400
    [] m.source \notin {"unknown", "document_tx_time"} /\ ~ Intersects(c.valid_window, q) -> 0
    [] OTHER -> IF m.confidence > 0 THEN Discounted(m) + 100 * m.confidence
                ELSE 2 * Discounted(m)

Modes == {"HARD", "INTELLIGENT"}

\* Mutant: HARD keeps what touches the window.
AdmitsTouching(c, q, mode) ==
  IF mode = "HARD" THEN Gap(c.valid_window, q) = 0 ELSE Quality(c, q) > 0

Admits(c, q, mode) ==
  IF mode = "HARD" THEN HardModePreMask(c.valid_window, q) ELSE Quality(c, q) > 0

\* Mutant: what HARD keeps counts in full.
FullTimeWeight(c, q, mode) ==
  IF mode = "HARD"
  THEN [quality |-> 20000, divisor |-> 1]
  ELSE [quality |-> Quality(c, q), divisor |-> 1 + Gap(c.valid_window, q)]

\* The time weight of a chunk the filter keeps: a quality and a divisor.
TimeWeight(c, q, mode) ==
  [quality |-> Quality(c, q),
   divisor |-> IF mode = "HARD" THEN 1 ELSE 1 + Gap(c.valid_window, q)]

----------------------------------------------------------------------------
VARIABLES
  chunks,  \* the chunks in the store
  asked,   \* the window and the mode of the last question, or None
  hits     \* what temporal_filter returned: chunks to weights

vars == <<chunks, asked, hits>>

Init == chunks = {} /\ asked = None /\ hits = <<>>

Ingest(text, p) ==
  /\ Cardinality(chunks) < MaxChunks
  /\ chunks' = chunks \cup {ChunkOf(text, p)}
  /\ UNCHANGED <<asked, hits>>

TemporalFilter(q, mode) ==
  /\ asked' = [window |-> q, mode |-> mode]
  /\ hits' = [c \in {d \in chunks : Admits(d, q, mode)} |-> TimeWeight(c, q, mode)]
  /\ UNCHANGED chunks

Next ==
  \/ \E text \in Texts, p \in Payloads : Ingest(text, p)
  \/ \E q \in Queries, mode \in Modes : TemporalFilter(q, mode)

Spec == Init /\ [][Next]_vars

----------------------------------------------------------------------------
(* Properties.                                                             *)

TypeOK ==
  /\ \A c \in chunks :
       /\ c.text \in Texts /\ c.payload \in Payloads
       /\ c.valid_window \in Window
       /\ c.tx_window \in Window \cup {None}
       /\ c.temporal \in TemporalMetadata
       /\ Quality(c, c.valid_window) \in Qualities
  /\ asked = None \/ (asked.window \in Queries /\ asked.mode \in Modes)
  /\ DOMAIN hits \subseteq chunks

Readable(d) == d # None /\ d.date # None

\* The windows a row states: its dates, or the year they are in, or its year.
RowStates(p) ==
  ({p.year} \ {None})
    \cup (IF Readable(p.from) THEN {YearOf(p.from.date), Span(p.from.date, Horizon)} ELSE {})
    \cup (IF Readable(p.from) /\ Readable(p.to)
          THEN {Span(p.from.date, p.to.date), Span(p.from.date, YearOf(p.to.date).end)} ELSE {})

\* Where metadata of a source has its dates from.
RangesOf(source, text, p) ==
  CASE source = "chunk_explicit" ->
         DatedClaims(text)
           \cup (IF Len(text.years) > 1 \/ text.applies THEN ElementsOf(text.years) ELSE {})
    [] source = "row_metadata" -> RowStates(p)
    [] source = "chunk_explicit_range" -> {text.range}
    [] source = "section_range" -> {p.section}
    [] OTHER -> {}

\* The row has a date that parse_date makes the epoch of.
Unreadable(p) == \E d \in {p.from, p.to} \ {None} : d.date = None

\* The valid time of a chunk starts and ends at dates that the source it names
\* gives: the claims or years of the text, the row, a range, the section; other
\* sources give none.  Only a row with a date that cannot be read makes a time
\* up: it starts with the epoch or ends with it or its year
\* (temporal_contextual_chunker.py 137-388, 525-543, time_windows.py 44-62).
ValidTimeHasItsSource ==
  \A c \in chunks :
    LET m == c.temporal
        ranges == RangesOf(m.source, c.text, c.payload) IN
    m.valid # None =>
      \/ /\ m.valid.start \in {w.start : w \in ranges}
         /\ m.valid.end \in {w.end : w \in ranges}
      \/ /\ m.source = "row_metadata" /\ Unreadable(c.payload)
         /\ Epoch \in {m.valid.start, NewYear(m.valid.end)}

\* What HARD keeps INTELLIGENT keeps too, with the same weight: changing the
\* mode never takes evidence away (dao.py 162-179).
HardIsWithinIntelligent ==
  asked # None /\ asked.mode = "HARD" =>
    \A c \in DOMAIN hits :
      /\ Admits(c, asked.window, "INTELLIGENT")
      /\ TimeWeight(c, asked.window, "INTELLIGENT") = hits[c]

Outweighs(v, w) == v.quality * w.divisor > w.quality * v.divisor

\* A chunk of unknown time or with a publication time only is outweighed by
\* every chunk whose valid time meets the question (dao.py 253-282).
WeakSourcesRankLast ==
  \A c, d \in DOMAIN hits :
    /\ c.temporal.source \in {"unknown", "document_tx_time"}
    /\ d.temporal.valid # None /\ Intersects(d.valid_window, asked.window)
    => Outweighs(hits[d], hits[c])

\* howtorunme.md 17 says of INTELLIGENT that it decays evidence outside the
\* window to surface broader context: the evidence would still be there.
OutsideEvidenceIsDecayed ==
  asked # None /\ asked.mode = "INTELLIGENT" => \A c \in chunks :
    c.temporal.valid # None => c \in DOMAIN hits

============================================================================
