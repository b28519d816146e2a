----------------------- MODULE TemporalEvidenceProofs -----------------------
(***************************************************************************)
(* What TemporalEvidence guarantees for any calendar, any texts and rows,  *)
(* any questions and any number of chunks.                                 *)
(***************************************************************************)
EXTENDS TemporalEvidence, FiniteSetTheorems, TLAPS

USE EvidenceAssumption, HorizonAssumption DEF Instants

----------------------------------------------------------------------------
(* The invariant.                                                          *)

\* Every chunk is what its text and its row were made into.
ChunksInv ==
  \A c \in chunks : \E text \in Texts, p \in Payloads : c = ChunkOf(text, p)

\* What the last question returned is what the filter admits of the chunks.
HitsInv ==
  \/ asked = None /\ hits = <<>>
  \/ /\ asked.window \in Queries /\ asked.mode \in Modes
     /\ DOMAIN hits \subseteq chunks
     /\ \A c \in DOMAIN hits :
          /\ Admits(c, asked.window, asked.mode)
          /\ hits[c] = TimeWeight(c, asked.window, asked.mode)

IInv == ChunksInv /\ HitsInv

----------------------------------------------------------------------------
LEMMA InitInv == Init => IInv
BY DEF Init, IInv, ChunksInv, HitsInv

LEMMA NextInv == IInv /\ [Next]_vars => IInv'
<1> SUFFICES ASSUME IInv, [Next]_vars
             PROVE  IInv'
  OBVIOUS
<1>1. ASSUME NEW text \in Texts, NEW p \in Payloads, Ingest(text, p)
      PROVE  IInv'
  <2>1. ChunksInv'
    BY <1>1 DEF IInv, ChunksInv, Ingest
  <2>2. HitsInv'
    BY <1>1 DEF IInv, HitsInv, Ingest
  <2>3. QED
    BY <2>1, <2>2 DEF IInv
<1>2. ASSUME NEW q \in Queries, NEW mode \in Modes, TemporalFilter(q, mode)
      PROVE  IInv'
  <2>1. ChunksInv'
    BY <1>2 DEF IInv, ChunksInv, TemporalFilter
  <2>2. asked'.window = q /\ asked'.mode = mode
    BY <1>2 DEF TemporalFilter
  <2>3. DOMAIN hits' = {d \in chunks : Admits(d, q, mode)}
    BY <1>2 DEF TemporalFilter
  <2>4. \A c \in DOMAIN hits' : Admits(c, q, mode) /\ hits'[c] = TimeWeight(c, q, mode)
    BY <1>2, <2>3 DEF TemporalFilter
  <2>5. DOMAIN hits' \subseteq chunks'
    BY <1>2, <2>3 DEF TemporalFilter
  <2>6. HitsInv'
    BY <2>2, <2>4, <2>5 DEF HitsInv
  <2>7. QED
    BY <2>1, <2>6 DEF IInv
<1>3. CASE UNCHANGED vars
  BY <1>3 DEF vars, IInv, ChunksInv, HitsInv
<1>4. QED
  BY <1>1, <1>2, <1>3 DEF Next

THEOREM Invariance == Spec => []IInv
<1>1. QED
  BY InitInv, NextInv, PTL DEF Spec

----------------------------------------------------------------------------
(* The calendar.                                                           *)

\* A set of instants has a first and a last.
LEMMA NatMin ==
  ASSUME NEW T, T \subseteq Nat, T # {}
  PROVE  \E x \in T : \A y \in T : x <= y
<1> DEFINE R == OpToRel(<, Nat)
<1>1. IsWellFoundedOn(R, Nat)
  BY NatLessThanWellFounded
<1>2. \A x, y \in Nat : y < x => <<y, x>> \in R
  BY DEF OpToRel
<1> HIDE DEF R
<1>3. \E x \in T : \A y \in T : ~ (<<y, x>> \in R)
  BY <1>1, WFMin
<1>4. PICK x \in T : \A y \in T : ~ (<<y, x>> \in R)
  BY <1>3, Zenon
<1>5. \A y \in T : ~ (y < x)
  BY <1>2, <1>4
<1>6. \A y \in T : x <= y
  BY <1>5
<1>7. QED
  BY <1>6

LEMMA LastInstant ==
  ASSUME NEW T, T \subseteq Instants, T # {}
  PROVE  \E x \in T : \A y \in T : y <= x
<1> DEFINE U == {Horizon - x : x \in T}
<1>1. U \subseteq Nat
  OBVIOUS
<1>2. U # {}
  OBVIOUS
<1> HIDE DEF U
<1>3. PICK u \in U : \A v \in U : u <= v
  BY <1>1, <1>2, NatMin
<1>4. PICK x \in T : u = Horizon - x
  BY DEF U
<1>5. \A y \in T : Horizon - y \in U
  BY DEF U
<1>6. QED
  BY <1>3, <1>4, <1>5

\* A year that begins in the calendar ends in it.
LEMMA YearType == \A d \in Instants : YearOf(d) \in Window
<1> SUFFICES ASSUME NEW d \in Instants
             PROVE  YearOf(d) \in Window
  OBVIOUS
<1> USE CalendarAssumption
<1> DEFINE q == d \div YearLength
           k == (Horizon + 1) \div YearLength
<1>1. q \in Nat /\ k \in Nat
  OBVIOUS
<1>2. YearLength * q <= d
  OBVIOUS
<1>3. Horizon + 1 = YearLength * k
  OBVIOUS
<1> HIDE DEF q, k
<1>4. YearLength * q < YearLength * k
  BY <1>1, <1>2, <1>3
<1>5. q < k
  BY <1>1, <1>4
<1>6. YearLength * (q + 1) <= YearLength * k
  BY <1>1, <1>5
<1>7. YearLength * q + YearLength - 1 <= Horizon
  BY <1>1, <1>3, <1>6
<1>8. YearLength * q \in Nat
  BY <1>1
<1>9. NewYear(d) = YearLength * q
  BY DEF NewYear, q
<1>10. QED
  BY <1>7, <1>8, <1>9 DEF YearOf, Span, Window, RawWindow

\* The hull of windows goes from the start of one to the end of one.
LEMMA HullType ==
  ASSUME NEW windows, windows \subseteq Window, windows # {}
  PROVE  /\ Hull(windows) \in RawWindow
         /\ Hull(windows).start \in {w.start : w \in windows}
         /\ Hull(windows).end \in {w.end : w \in windows}
<1> DEFINE starts == {w.start : w \in windows}
           ends   == {w.end : w \in windows}
<1>1. starts \subseteq Instants /\ ends \subseteq Instants
  BY DEF Window, RawWindow
<1>2. starts # {} /\ ends # {}
  OBVIOUS
<1>3. \A w \in windows : w.start \in starts /\ w.end \in ends
  OBVIOUS
<1>4. \E s \in starts : \A w \in windows : s <= w.start
  <2> HIDE DEF starts, ends
  <2>1. starts \subseteq Nat
    BY <1>1
  <2>2. \E s \in starts : \A r \in starts : s <= r
    BY <1>2, <2>1, NatMin
  <2>3. QED
    BY <1>3, <2>2
<1>5. \E e \in ends : \A w \in windows : w.end <= e
  <2> HIDE DEF starts, ends
  <2>1. \E e \in ends : \A r \in ends : r <= e
    BY <1>1, <1>2, LastInstant
  <2>2. QED
    BY <1>3, <2>1
<1>6. Hull(windows).start \in starts
  BY <1>4 DEF Hull, Span
<1>7. Hull(windows).end \in ends
  BY <1>5 DEF Hull, Span
<1>8. Hull(windows) \in RawWindow
  BY <1>1, <1>6, <1>7 DEF Hull, Span, RawWindow
<1>9. QED
  BY <1>6, <1>7, <1>8

----------------------------------------------------------------------------
(* The readings.                                                           *)

WeakSources == {"unknown", "document_tx_time"}

\* What a reading finds is well formed, and its dates are dates of the input;
\* a source that tells no valid time gives none.
Sound(text, p, m) ==
  /\ m \in TemporalMetadata
  /\ m.source \in WeakSources => m.valid = None
  /\ m.valid # None =>
       \/ /\ m.valid.start \in {w.start : w \in RangesOf(m.source, text, p)}
          /\ m.valid.end \in {w.end : w \in RangesOf(m.source, text, p)}
       \/ /\ m.source = "row_metadata" /\ Unreadable(p)
          /\ Epoch \in {m.valid.start, NewYear(m.valid.end)}

\* A reading of one window that is among the dates of its source is sound.
LEMMA SoundWindow ==
  ASSUME NEW text, NEW p, NEW source \in Sources \ WeakSources,
         NEW w \in RangesOf(source, text, p), w \in RawWindow,
         NEW tx, tx.start \in OptInstant, tx.end \in OptInstant,
         NEW grain \in Grains, NEW confidence \in 0..100, NEW ambiguous \in BOOLEAN
  PROVE  Sound(text, p, Metadata(w, tx, grain, source, confidence, ambiguous))
BY DEF Sound, Metadata, TemporalMetadata

LEMMA Literals ==
  /\ \A k \in {0, 20, 30, 60, 70, 95} : k \in 0..100
  /\ {"year", "range", "other"} \subseteq Grains
  /\ {"document_tx_time", "ambiguous_parse", "unknown"} \subseteq Sources
  /\ {"chunk_explicit", "row_metadata", "chunk_explicit_range", "section_range"}
       \subseteq Sources \ WeakSources
BY DEF Grains, Sources, WeakSources

\* So is one without valid time.
LEMMA SoundNone ==
  ASSUME NEW text, NEW p,
         NEW tx, tx.start \in OptInstant, tx.end \in OptInstant,
         NEW grain \in Grains, NEW source \in Sources,
         NEW confidence \in 0..100, NEW ambiguous \in BOOLEAN
  PROVE  Sound(text, p, Metadata(None, tx, grain, source, confidence, ambiguous))
BY DEF Sound, Metadata, TemporalMetadata

\* And one of several windows.
LEMMA SoundHull ==
  ASSUME NEW text, NEW p, NEW windows, windows \subseteq RangesOf("chunk_explicit", text, p),
         windows \subseteq Window, windows # {},
         NEW tx, tx.start \in OptInstant, tx.end \in OptInstant
  PROVE  Sound(text, p, Metadata(Hull(windows), tx, "range", "chunk_explicit", 55, TRUE))
<1>1. /\ Hull(windows) \in RawWindow
      /\ Hull(windows).start \in {w.start : w \in RangesOf("chunk_explicit", text, p)}
      /\ Hull(windows).end \in {w.end : w \in RangesOf("chunk_explicit", text, p)}
  BY HullType
<1>2. QED
  BY <1>1 DEF Sound, Metadata, TemporalMetadata, Grains, Sources, WeakSources

\* What parse_date returns is an instant.
LEMMA DateType ==
  ASSUME NEW d \in RowDate \cup {None}
  PROVE  /\ DateOrNone(d) \in OptInstant
         /\ d # None => ParseDate(d) \in Instants
<1>1. Epoch \in Instants
  BY CalendarAssumption
<1>2. d # None => d.date \in Instants \cup {None}
  BY DEF RowDate, OptInstant
<1>3. d # None => ParseDate(d) \in Instants
  BY <1>1, <1>2 DEF ParseDate, Or
<1>4. QED
  BY <1>3 DEF DateOrNone, OptInstant

\* The tx dates are instants or none.
LEMMA TxType ==
  ASSUME NEW text \in Texts, NEW p \in Payloads
  PROVE  Tx(text, p).start \in OptInstant /\ Tx(text, p).end \in OptInstant
<1>1. p.tx_start \in RowDate \cup {None} /\ p.tx_end \in RowDate \cup {None}
  BY DEF Payload
<1>2. DateOrNone(p.tx_start) \in OptInstant /\ DateOrNone(p.tx_end) \in OptInstant
  BY <1>1, DateType
<1>3. Dated(text.published) => text.published \in Window
  BY DEF Text, Dated
<1>4. QED
  BY <1>2, <1>3 DEF Tx, Span, OptInstant, Window, RawWindow

\* The epoch's year begins with it.
LEMMA EpochYear ==
  /\ Epoch \in Instants
  /\ NewYear(Epoch) = Epoch
  /\ YearOf(Epoch).start = Epoch
  /\ NewYear(YearOf(Epoch).end) = Epoch
<1> USE CalendarAssumption
<1>1. Epoch \in Nat /\ Epoch % YearLength = 0
  BY DEF IsNewYear
<1> DEFINE q == Epoch \div YearLength
<1>2. q \in Nat /\ Epoch = YearLength * q
  BY <1>1
<1>3. (Epoch + YearLength - 1) \div YearLength = q
  <2>1. ASSUME NEW L \in Nat \ {0}, NEW n \in Nat, NEW e \in Nat, e = L * n
        PROVE  (e + L - 1) \div L = n
    <3> DEFINE d == (e + L - 1) \div L
    <3>1. d \in Nat /\ L * d <= e + L - 1 /\ e + L - 1 < L * (d + 1)
      BY <2>1
    <3> HIDE DEF d
    <3>2. L * d < L * (n + 1) /\ L * n < L * (d + 1)
      BY <2>1, <3>1
    <3>3. d < n + 1 /\ n < d + 1
      BY <3>1, <3>2
    <3>4. d = n
      BY <3>1, <3>3
    <3>5. QED
      BY <3>4 DEF d
  <2> HIDE DEF q
  <2>2. QED
    BY <1>1, <1>2, <2>1
<1>4. NewYear(Epoch) = Epoch
  BY <1>2 DEF NewYear
<1>5. YearOf(Epoch).end = Epoch + YearLength - 1
  BY <1>4 DEF YearOf, Span
<1>6. NewYear(YearOf(Epoch).end) = Epoch
  BY <1>2, <1>3, <1>5 DEF NewYear
<1>7. QED
  BY <1>1, <1>4, <1>6 DEF YearOf, Span

\* The window of a row starts and ends with its dates, or has the epoch.
RowSound(p) ==
  LET w == RowWindow(p).window IN
  /\ w \in RawWindow
  /\ RowWindow(p).grain \in Grains
  /\ \/ w \in RowStates(p)
     \/ Unreadable(p) /\ Epoch \in {w.start, NewYear(w.end)}

LEMMA RowType ==
  ASSUME NEW p \in Payloads, RowWindow(p) # None
  PROVE  RowSound(p)
<1> DEFINE from == ParseDate(p.from)
           to   == ParseDate(p.to)
           end  == ClosedEnd(to, RowGrain(p))
<1>1. /\ p.from \in RowDate \cup {None} /\ p.to \in RowDate \cup {None}
      /\ p.grain \in Grains \cup {None} /\ p.year \in Window \cup {None}
  BY DEF Payload
<1>2. RowGrain(p) \in Grains
  BY <1>1 DEF RowGrain, Or, Grains
<1>3. /\ p.from # None => from \in Instants
      /\ p.to # None => to \in Instants
  BY <1>1, DateType
<1>4. ASSUME p.from # None
      PROVE  \/ Readable(p.from) /\ from = p.from.date
             \/ Unreadable(p) /\ from = Epoch
  BY <1>4 DEF Readable, Unreadable, ParseDate, Or
<1>5. ASSUME p.to # None
      PROVE  \/ Readable(p.to) /\ to = p.to.date
             \/ Unreadable(p) /\ to = Epoch
  BY <1>5 DEF Readable, Unreadable, ParseDate, Or
<1>6. CASE p.from # None /\ p.to # None
  <2>1. RowWindow(p) = Row(Span(from, end), RowGrain(p))
    BY <1>6 DEF RowWindow
  <2>2. end \in {to, YearOf(to).end} /\ end \in Instants
    <3>1. YearOf(to).end \in Instants
      BY <1>3, <1>6, YearType DEF Window, RawWindow
    <3> HIDE DEF to
    <3>2. QED
      BY <1>3, <1>6, <3>1 DEF ClosedEnd
  <2>3. to = Epoch => NewYear(end) = Epoch
    <3> HIDE DEF end, to
    <3>1. QED
      BY <2>2, EpochYear
  <2> HIDE DEF from, to, end
  <2>4. CASE Readable(p.from) /\ Readable(p.to)
    <3>1. from = p.from.date /\ to = p.to.date
      BY <2>4, <1>6 DEF from, to, ParseDate, Or, Readable
    <3>2. Span(from, end) \in RowStates(p)
      BY <2>2, <2>4, <3>1 DEF RowStates
    <3>3. QED
      BY <1>2, <1>3, <1>6, <2>1, <2>2, <3>2 DEF RowSound, Row, Span, RawWindow
  <2>5. CASE ~ (Readable(p.from) /\ Readable(p.to))
    <3>1. Unreadable(p) /\ (from = Epoch \/ to = Epoch)
      BY <1>4, <1>5, <1>6, <2>5
    <3>2. Epoch \in {from, NewYear(end)}
      BY <2>3, <3>1
    <3>3. QED
      BY <1>2, <1>3, <1>6, <2>1, <2>2, <3>1, <3>2 DEF RowSound, Row, Span, RawWindow
  <2>6. QED
    BY <2>4, <2>5
<1>7. CASE p.from # None /\ p.to = None /\ IsYear(p)
  <2>1. RowWindow(p) = Row(YearOf(from), "year")
    BY <1>7 DEF RowWindow
  <2>2. YearOf(from) \in RawWindow
    BY <1>3, <1>7, YearType DEF Window
  <2>3. \/ YearOf(from) \in RowStates(p)
        \/ Unreadable(p) /\ YearOf(from).start = Epoch
    <3> HIDE DEF from
    <3>1. QED
      BY <1>4, <1>7, EpochYear DEF RowStates
  <2> HIDE DEF from
  <2>4. QED
    BY <2>1, <2>2, <2>3 DEF RowSound, Row, Grains
<1>8. CASE p.from # None /\ p.to = None /\ ~ IsYear(p)
  <2>1. RowWindow(p) = Row(Span(from, Horizon), Or(p.grain, "range"))
    BY <1>8 DEF RowWindow
  <2> HIDE DEF from
  <2>2. Span(from, Horizon) \in RawWindow /\ Span(from, Horizon).start = from
    BY <1>3, <1>8 DEF Span, RawWindow
  <2>3. \/ Span(from, Horizon) \in RowStates(p)
        \/ Unreadable(p) /\ from = Epoch
    BY <1>4, <1>8 DEF RowStates
  <2>4. Or(p.grain, "range") \in Grains
    BY <1>1 DEF Or, Grains
  <2>5. QED
    BY <2>1, <2>2, <2>3, <2>4 DEF RowSound, Row
<1>9. CASE p.from = None /\ p.year # None
  <2>1. RowWindow(p) = Row(p.year, "year")
    BY <1>9 DEF RowWindow
  <2>2. QED
    BY <1>1, <1>9, <2>1 DEF RowSound, RowStates, Row, Window, Grains
<1>10. CASE p.from = None /\ p.year = None
  BY <1>10 DEF RowWindow
<1>11. QED
  BY <1>6, <1>7, <1>8, <1>9, <1>10

\* The windows of the claims and of the years are dates of the input.
LEMMA ClaimsType ==
  ASSUME NEW text \in Texts, NEW p \in Payloads
  PROVE  DatedClaims(text) \subseteq Window \cap RangesOf("chunk_explicit", text, p)
<1>1. text.claims \in Seq(Claim)
  BY DEF Text
<1>2. ElementsOf(text.claims) \subseteq Claim
  BY <1>1 DEF ElementsOf
<1>3. \A c \in ElementsOf(text.claims) : Dated(c.when) => c.when \in Window
  BY <1>2 DEF Claim, Dated
<1>4. DatedClaims(text) \subseteq Window
  BY <1>3 DEF DatedClaims
<1>5. QED
  BY <1>4 DEF RangesOf

LEMMA YearsType ==
  ASSUME NEW text \in Texts, NEW p \in Payloads
  PROVE  /\ ElementsOf(text.years) \subseteq Window
         /\ Len(text.years) > 1 => ElementsOf(text.years) # {}
         /\ Len(text.years) > 1 \/ text.applies => ElementsOf(text.years) \subseteq RangesOf("chunk_explicit", text, p)
         /\ Len(text.years) = 1 => text.years[1] \in ElementsOf(text.years)
<1>1. text.years \in Seq(Window)
  BY DEF Text
<1>2. ElementsOf(text.years) \subseteq Window
  BY <1>1 DEF ElementsOf
<1>3. Len(text.years) >= 1 => text.years[1] \in ElementsOf(text.years)
  BY <1>1 DEF ElementsOf
<1>4. Len(text.years) \in Nat
  BY <1>1
<1>5. Len(text.years) > 1 \/ text.applies => ElementsOf(text.years) \subseteq RangesOf("chunk_explicit", text, p)
  BY DEF RangesOf
<1>6. QED
  BY <1>2, <1>3, <1>4, <1>5

LEMMA WindowIsRaw == Window \subseteq RawWindow
BY DEF Window

\* Each reading is sound.
LEMMA SeveralClaimsSound ==
  ASSUME NEW text \in Texts, NEW p \in Payloads, SeveralClaims(text, p) # None
  PROVE  Sound(text, p, SeveralClaims(text, p))
<1>1. DatedClaims(text) # {}
  BY DEF SeveralClaims
<1>2. DatedClaims(text) \subseteq Window /\ DatedClaims(text) \subseteq RangesOf("chunk_explicit", text, p)
  BY ClaimsType
<1>3. Sound(text, p, Metadata(Hull(DatedClaims(text)), Tx(text, p), "range", "chunk_explicit", 55, TRUE))
  BY <1>1, <1>2, TxType, SoundHull
<1>4. QED
  BY <1>3 DEF SeveralClaims

LEMMA BestClaimSound ==
  ASSUME NEW text \in Texts, NEW p \in Payloads, BestClaim(text, p) # None
  PROVE  Sound(text, p, BestClaim(text, p))
<1> DEFINE c == Head(text.claims)
           k == IF c.grain = "year" THEN 95 ELSE c.confidence
           m == Metadata(IF c.when = ClockTime THEN None ELSE c.when, Tx(text, p), c.grain,
                         "chunk_explicit", k, FALSE)
<1>1. text.claims # <<>> /\ text.claims \in Seq(Claim)
  BY DEF BestClaim, Text
<1>2. c \in Claim /\ c \in ElementsOf(text.claims)
  BY <1>1 DEF ElementsOf
<1>3. c.grain \in Grains /\ c.when \in Window \cup {ClockTime} /\ c.confidence \in 1..100
  BY <1>2 DEF Claim
<1>4. k \in 0..100
  BY <1>3
<1>5. BestClaim(text, p) = m
  BY <1>1 DEF BestClaim
<1>6. Tx(text, p).start \in OptInstant /\ Tx(text, p).end \in OptInstant
  BY TxType
<1>7. "chunk_explicit" \in Sources \ WeakSources
  BY DEF Sources, WeakSources
<1>8. CASE c.when = ClockTime
  <2>1. m = Metadata(None, Tx(text, p), c.grain, "chunk_explicit", k, FALSE)
    BY <1>8
  <2> HIDE DEF m, k, c
  <2>2. QED
    BY <1>3, <1>4, <1>5, <1>6, <1>7, <2>1, SoundNone
<1>9. CASE c.when # ClockTime
  <2>1. m = Metadata(c.when, Tx(text, p), c.grain, "chunk_explicit", k, FALSE)
    BY <1>9
  <2>2. c.when \in Window
    BY <1>3, <1>9
  <2>3. c.when \in DatedClaims(text)
    BY <1>2, <1>9, <2>2, WindowIsRaw DEF DatedClaims, Dated
  <2> HIDE DEF m, k, c
  <2>4. c.when \in RangesOf("chunk_explicit", text, p) /\ c.when \in RawWindow
    BY <2>2, <2>3, ClaimsType, WindowIsRaw
  <2>5. QED
    BY <1>3, <1>4, <1>5, <1>6, <1>7, <2>1, <2>4, SoundWindow
<1>10. QED
  BY <1>8, <1>9

LEMMA RowClaimSound ==
  ASSUME NEW text \in Texts, NEW p \in Payloads, RowClaim(text, p) # None
  PROVE  Sound(text, p, RowClaim(text, p))
<1> DEFINE row == RowWindow(p)
           k == IF row.grain = "year" THEN 90 ELSE 75
<1>1. row # None /\ RowClaim(text, p) = Metadata(row.window, Tx(text, p), row.grain, "row_metadata", k, FALSE)
  BY DEF RowClaim
<1>2. RowSound(p)
  BY <1>1, RowType
<1>3. /\ row.window \in RawWindow /\ row.grain \in Grains
      /\ \/ row.window \in RangesOf("row_metadata", text, p)
         \/ Unreadable(p) /\ Epoch \in {row.window.start, NewYear(row.window.end)}
  BY <1>2 DEF RowSound, RangesOf
<1>4. k \in 0..100
  OBVIOUS
<1>5. "row_metadata" \in Sources \ WeakSources
  BY DEF Sources, WeakSources
<1> HIDE DEF row, k
<1>6. CASE row.window \in RangesOf("row_metadata", text, p)
  BY <1>1, <1>3, <1>4, <1>5, <1>6, TxType, SoundWindow
<1>7. CASE Unreadable(p) /\ Epoch \in {row.window.start, NewYear(row.window.end)}
  BY <1>1, <1>3, <1>4, <1>5, <1>7, TxType DEF Sound, Metadata, TemporalMetadata
<1>8. QED
  BY <1>3, <1>6, <1>7

LEMMA PublicationSound ==
  ASSUME NEW text \in Texts, NEW p \in Payloads
  PROVE  /\ Publication(text, p) # None => Sound(text, p, Publication(text, p))
         /\ Unclear(text, p) # None => Sound(text, p, Unclear(text, p))
         /\ RowTx(text, p) # None => Sound(text, p, RowTx(text, p))
         /\ Sound(text, p, Unknown)
<1>1. /\ Sound(text, p, Metadata(None, Tx(text, p), "other", "document_tx_time", 30, TRUE))
      /\ Sound(text, p, Metadata(None, Tx(text, p), "other", "ambiguous_parse", 20, TRUE))
  BY TxType, SoundNone, Literals
<1>2. Span(None, None).start \in OptInstant /\ Span(None, None).end \in OptInstant
  BY DEF Span, OptInstant
<1>3. Sound(text, p, Metadata(None, Span(None, None), "other", "unknown", 0, TRUE))
  BY <1>2, SoundNone, Literals
<1>4. QED
  BY <1>1, <1>3 DEF Publication, Unclear, RowTx, Unknown

LEMMA RangeSound ==
  ASSUME NEW text \in Texts, NEW p \in Payloads
  PROVE  /\ RangeInText(text, p) # None => Sound(text, p, RangeInText(text, p))
         /\ SectionRange(text, p) # None => Sound(text, p, SectionRange(text, p))
<1>1. text.range \in Window \cup {None} /\ p.section \in Window \cup {None}
  BY DEF Text, Payload
<1>2. text.range # None => text.range \in RangesOf("chunk_explicit_range", text, p) /\ text.range \in RawWindow
  BY <1>1, WindowIsRaw DEF RangesOf
<1>3. p.section # None => p.section \in RangesOf("section_range", text, p) /\ p.section \in RawWindow
  BY <1>1, WindowIsRaw DEF RangesOf
<1>4. text.range # None =>
        Sound(text, p, Metadata(text.range, Tx(text, p), "range", "chunk_explicit_range", 70, FALSE))
  BY <1>2, TxType, SoundWindow, Literals
<1>5. p.section # None =>
        Sound(text, p, Metadata(p.section, Tx(text, p), "range", "section_range", 60, FALSE))
  BY <1>3, TxType, SoundWindow, Literals
<1>6. QED
  BY <1>4, <1>5 DEF RangeInText, SectionRange

LEMMA YearsSound ==
  ASSUME NEW text \in Texts, NEW p \in Payloads
  PROVE  /\ YearInText(text, p) # None => Sound(text, p, YearInText(text, p))
         /\ PublicationYear(text, p) # None => Sound(text, p, PublicationYear(text, p))
         /\ SeveralYears(text, p) # None => Sound(text, p, SeveralYears(text, p))
<1> DEFINE dates == Span(Or(DateOrNone(p.tx_start), text.years[1].start), DateOrNone(p.tx_end))
<1>1. ASSUME Len(text.years) = 1, text.applies
      PROVE  Sound(text, p, Metadata(text.years[1], Tx(text, p), "year", "chunk_explicit", 95, FALSE))
  <2>1. text.years[1] \in RangesOf("chunk_explicit", text, p) /\ text.years[1] \in RawWindow
    BY <1>1, YearsType, WindowIsRaw
  <2>2. QED
    BY <2>1, TxType, SoundWindow, Literals
<1>2. ASSUME Len(text.years) = 1
      PROVE  Sound(text, p, Metadata(None, dates, "other", "document_tx_time", 30, TRUE))
  <2>1. /\ text.years[1] \in Window
        /\ DateOrNone(p.tx_start) \in OptInstant /\ DateOrNone(p.tx_end) \in OptInstant
    BY <1>2, YearsType, DateType DEF Payload
  <2>2. dates.start \in OptInstant /\ dates.end \in OptInstant
    BY <2>1 DEF Span, Or, OptInstant, Window, RawWindow
  <2> HIDE DEF dates
  <2>3. QED
    BY <2>2, SoundNone, Literals
<1>3. ASSUME Len(text.years) > 1
      PROVE  Sound(text, p, Metadata(Hull(ElementsOf(text.years)), Tx(text, p), "range",
                                     "chunk_explicit", 55, TRUE))
  BY <1>3, YearsType, TxType, SoundHull
<1>4. QED
  BY <1>1, <1>2, <1>3 DEF YearInText, PublicationYear, SeveralYears

LEMMA ReadingsSound ==
  ASSUME NEW text \in Texts, NEW p \in Payloads, NEW i \in 1..12,
         Readings(text, p)[i] # None
  PROVE  Sound(text, p, Readings(text, p)[i])
<1>1. i \in {1, 2, 3, 4, 5, 6, 7, 8, 9, 10, 11, 12}
  OBVIOUS
<1>2. Readings(text, p)[i] \in
        {SeveralClaims(text, p), BestClaim(text, p), RowClaim(text, p),
         Publication(text, p), Unclear(text, p), RangeInText(text, p),
         YearInText(text, p), PublicationYear(text, p), SeveralYears(text, p),
         SectionRange(text, p), RowTx(text, p), Unknown}
  BY <1>1 DEF Readings
<1>3. QED
  BY <1>2, SeveralClaimsSound, BestClaimSound, RowClaimSound, PublicationSound,
     RangeSound, YearsSound

\* So is the one that is taken.
LEMMA InferSound ==
  ASSUME NEW text \in Texts, NEW p \in Payloads
  PROVE  Sound(text, p, Infer(text, p))
<1> DEFINE r == Readings(text, p)
           found == {i \in 1..12 : r[i] # None}
<1>1. DOMAIN r = 1..12 /\ r[12] = Unknown
  BY DEF Readings
<1>2. Unknown # None
  BY PublicationSound DEF Sound
<1>3. \E i \in found : \A j \in found : i <= j
  <2>1. found \subseteq Nat /\ found # {}
    BY <1>1, <1>2
  <2> HIDE DEF found
  <2>2. QED
    BY <2>1, NatMin
<1>4. \E i \in DOMAIN r : r[i] # None /\ \A j \in DOMAIN r : j < i => r[j] = None
  <2>1. PICK i \in found : \A j \in found : i <= j
    BY <1>3
  <2>2. \A j \in 1..12 : j < i => r[j] = None
    BY <2>1
  <2>3. QED
    BY <1>1, <2>1, <2>2
<1>5. PICK i \in 1..12 : Infer(text, p) = r[i] /\ r[i] # None
  <2> HIDE DEF r
  <2>1. QED
    BY <1>1, <1>4 DEF Infer, r
<1>6. QED
  BY <1>5, ReadingsSound

----------------------------------------------------------------------------
(* Windows and weights.                                                    *)

\* A chunk has a window and typed metadata, and a weak source no valid time.
LEMMA ChunkType ==
  ASSUME ChunksInv, NEW c \in chunks
  PROVE  /\ c.text \in Texts /\ c.payload \in Payloads
         /\ Sound(c.text, c.payload, c.temporal)
         /\ c.valid_window \in Window
         /\ c.tx_window \in Window \cup {None}
<1>1. PICK text \in Texts, p \in Payloads : c = ChunkOf(text, p)
  BY DEF ChunksInv
<1> DEFINE m == Infer(text, p)
<1>2. /\ c.text = text /\ c.payload = p /\ c.temporal = m
      /\ c.valid_window = ValidWindow(m) /\ c.tx_window = TxWindow(m)
  BY <1>1 DEF ChunkOf
<1>3. Sound(text, p, m)
  BY InferSound
<1> HIDE DEF m
<1>4. m.valid \in RawWindow \cup {None} /\ m.tx_start \in OptInstant /\ m.tx_end \in OptInstant
  BY <1>3 DEF Sound, TemporalMetadata
<1>5. \A s, e \in Instants : MakeWindow(s, e) \in Window
  BY DEF MakeWindow, Span, Earlier, Later, Window, RawWindow
<1>6. ValidWindow(m) \in Window
  <2>1. AllTime \in Window
    BY DEF AllTime, Span, Window, RawWindow
  <2>2. m.valid # None => m.valid.start \in Instants /\ m.valid.end \in Instants
    BY <1>4 DEF RawWindow
  <2>3. QED
    BY <1>5, <2>1, <2>2 DEF ValidWindow
<1>7. TxWindow(m) \in Window \cup {None}
  BY <1>4, <1>5 DEF TxWindow, Or, OptInstant
<1>8. QED
  BY <1>2, <1>3, <1>6, <1>7

\* The bounds of the quality of evidence that tells a valid time and meets the
\* question.
LEMMA QualityBounds ==
  ASSUME NEW c, c.temporal \in TemporalMetadata, NEW q
  PROVE  /\ Quality(c, q) \in Qualities
         /\ c.temporal.source \notin WeakSources /\ Intersects(c.valid_window, q) =>
              Quality(c, q) >= 2475
         /\ c.temporal.source \in WeakSources => Quality(c, q) \in Nat /\ Quality(c, q) <= 2400
         /\ Intersects(c.valid_window, q) => Quality(c, q) > 0
<1> DEFINE m == c.temporal
<1>1. Base(m) \in {9500, 4500, 6000}
  BY DEF Base
<1>2. Discounted(m) \in {9500, 4500, 6000, 5225, 2475, 3300}
  BY <1>1 DEF Discounted
<1>3. m.confidence \in 0..100
  BY DEF TemporalMetadata
<1>4. CASE m.source \in WeakSources
  <2>1. Quality(c, q) \in {2000, 2400}
    BY <1>4 DEF Quality, WeakSources
  <2>2. QED
    BY <1>4, <2>1 DEF Qualities
<1>5. CASE m.source \notin WeakSources /\ ~ Intersects(c.valid_window, q)
  <2>1. Quality(c, q) = 0
    BY <1>5 DEF Quality, WeakSources
  <2>2. QED
    BY <1>5, <2>1 DEF Qualities
<1>6. CASE m.source \notin WeakSources /\ Intersects(c.valid_window, q)
  <2>1. Quality(c, q) = IF m.confidence > 0 THEN Discounted(m) + 100 * m.confidence
                        ELSE 2 * Discounted(m)
    BY <1>6 DEF Quality, WeakSources
  <2> DEFINE x == Quality(c, q)
             d == Discounted(m)
             k == m.confidence
  <2>2. /\ x = IF k > 0 THEN d + 100 * k ELSE 2 * d
        /\ d \in {9500, 4500, 6000, 5225, 2475, 3300} /\ k \in 0..100
    BY <1>2, <1>3, <2>1
  <2>3. x \in Nat /\ x <= 20000 /\ x >= 2475
    <3> HIDE DEF x, d, k
    <3>1. QED
      BY <2>2
  <2>4. QED
    BY <1>6, <2>3 DEF Qualities
<1>7. QED
  BY <1>4, <1>5, <1>6

LEMMA WeighsMore ==
  ASSUME NEW c, c.temporal \in TemporalMetadata, c.temporal.source \in WeakSources,
         NEW d, d.temporal \in TemporalMetadata, d.temporal.source \notin WeakSources,
         NEW q, Intersects(d.valid_window, q), NEW n \in Nat \ {0}
  PROVE  Quality(d, q) * n > Quality(c, q)
<1>1. Quality(d, q) \in Qualities /\ Quality(d, q) >= 2475
  BY QualityBounds
<1>2. Quality(c, q) \in Nat /\ Quality(c, q) <= 2400
  BY QualityBounds
<1> DEFINE a == Quality(d, q)
           b == Quality(c, q)
<1>3. a \in Nat /\ a >= 2475 /\ b \in Nat /\ b <= 2400
  BY <1>1, <1>2 DEF Qualities
<1> HIDE DEF a, b
<1>4. a * n >= a
  BY <1>3
<1>5. a * n \in Nat
  BY <1>3
<1>6. a * n > b
  BY <1>3, <1>4, <1>5
<1>7. QED
  BY <1>6 DEF a, b

LEMMA GapType ==
  ASSUME NEW v \in Window, NEW w \in Window
  PROVE  Gap(v, w) \in Nat
BY DEF Gap, Earlier, Later, Distance, Window, RawWindow

----------------------------------------------------------------------------
(* The theorems.                                                           *)

\* Whatever a text and its row say, a chunk has an ordered window, well-formed
\* metadata and a weight the code can represent.
THEOREM TypeCorrect == Spec => []TypeOK
<1>1. IInv => TypeOK
  <2> SUFFICES ASSUME IInv
               PROVE  TypeOK
    OBVIOUS
  <2>1. \A c \in chunks :
          /\ c.text \in Texts /\ c.payload \in Payloads
          /\ c.valid_window \in Window /\ c.tx_window \in Window \cup {None}
          /\ c.temporal \in TemporalMetadata
    BY ChunkType DEF IInv, Sound
  <2>2. \A c \in chunks : Quality(c, c.valid_window) \in Qualities
    BY <2>1, QualityBounds
  <2>3. (asked = None \/ (asked.window \in Queries /\ asked.mode \in Modes)) /\ DOMAIN hits \subseteq chunks
    BY DEF IInv, HitsInv
  <2>4. QED
    BY <2>1, <2>2, <2>3, Zenon DEF TypeOK
<1>2. QED
  BY <1>1, Invariance, PTL

\* The valid time of a chunk is made of dates of the source it names, and of
\* the epoch only for a row with a date that cannot be read.
THEOREM ValidTimeIsSourced == Spec => []ValidTimeHasItsSource
<1>1. IInv => ValidTimeHasItsSource
  BY ChunkType DEF IInv, ValidTimeHasItsSource, Sound
<1>2. QED
  BY <1>1, Invariance, PTL

\* HARD keeps nothing that INTELLIGENT would drop or weigh otherwise.
THEOREM HardIsAlwaysWithinIntelligent == Spec => []HardIsWithinIntelligent
<1>1. IInv => HardIsWithinIntelligent
  <2> SUFFICES ASSUME IInv, asked # None, asked.mode = "HARD", NEW c \in DOMAIN hits
               PROVE  /\ Admits(c, asked.window, "INTELLIGENT")
                      /\ TimeWeight(c, asked.window, "INTELLIGENT") = hits[c]
    BY DEF HardIsWithinIntelligent
  <2>1. /\ c \in chunks /\ Admits(c, asked.window, "HARD")
        /\ hits[c] = TimeWeight(c, asked.window, "HARD")
    BY DEF IInv, HitsInv
  <2>2. Intersects(c.valid_window, asked.window)
    BY <2>1 DEF Admits, HardModePreMask
  <2>3. c.temporal \in TemporalMetadata
    BY <2>1, ChunkType DEF IInv, Sound
  <2>4. Quality(c, asked.window) > 0
    BY <2>2, <2>3, QualityBounds
  <2>5. Gap(c.valid_window, asked.window) = 0
    BY <2>2 DEF Gap
  <2>6. QED
    BY <2>1, <2>4, <2>5 DEF Admits, TimeWeight
<1>2. QED
  BY <1>1, Invariance, PTL

\* Evidence that meets the question outweighs what tells no valid time, in
\* either mode and however close the other is said to be.
THEOREM WeakSourcesAlwaysRankLast == Spec => []WeakSourcesRankLast
<1>1. IInv => WeakSourcesRankLast
  <2> SUFFICES ASSUME IInv, NEW c \in DOMAIN hits, NEW d \in DOMAIN hits,
                      c.temporal.source \in WeakSources, d.temporal.valid # None,
                      Intersects(d.valid_window, asked.window)
               PROVE  Outweighs(hits[d], hits[c])
    BY DEF WeakSourcesRankLast, WeakSources
  <2> DEFINE q == asked.window
  <2>1. /\ q \in Queries /\ asked.mode \in Modes /\ {c, d} \subseteq chunks
        /\ hits[c] = TimeWeight(c, q, asked.mode) /\ hits[d] = TimeWeight(d, q, asked.mode)
    BY DEF IInv, HitsInv
  <2>2. /\ c.temporal \in TemporalMetadata /\ d.temporal \in TemporalMetadata
        /\ c.valid_window \in Window /\ d.temporal.source \notin WeakSources
    BY <2>1, ChunkType DEF IInv, Sound
  <2>3. Gap(d.valid_window, q) = 0
    BY DEF Gap
  <2>4. hits[d].quality = Quality(d, q) /\ hits[d].divisor = 1
    BY <2>1, <2>3 DEF TimeWeight
  <2>5. hits[c].quality = Quality(c, q) /\ hits[c].divisor \in Nat \ {0}
    BY <2>1, <2>2, GapType DEF TimeWeight
  <2>6. Quality(d, q) * hits[c].divisor > Quality(c, q)
    BY <2>2, <2>5, WeighsMore
  <2>7. Quality(c, q) * 1 = Quality(c, q)
    <3>1. Quality(c, q) \in Nat
      BY <2>2, QualityBounds
    <3>2. \A x \in Nat : x * 1 = x
      OBVIOUS
    <3>3. QED
      BY <3>1, <3>2
  <2>8. QED
    BY <2>4, <2>5, <2>6, <2>7, Zenon DEF Outweighs
<1>2. QED
  BY <1>1, Invariance, PTL

=============================================================================
