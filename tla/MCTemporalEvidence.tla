------------------------- MODULE MCTemporalEvidence -------------------------
(* Instances of TemporalEvidence for TLC: three years of three days, one text *)
(* per way of dating a claim and one payload per way of dating a row.         *)
EXTENDS TemporalEvidence

Plain ==
  [claims |-> <<>>, published |-> None, unclear |-> FALSE, range |-> None,
   years |-> <<>>, applies |-> TRUE, publication |-> FALSE]

In(when, grain, confidence) ==
  [when |-> when, grain |-> grain, confidence |-> confidence]

YearNo(y) == YearOf(y * YearLength)

MCTexts == {
  Plain,
  [Plain EXCEPT !.claims = <<In(YearNo(1), "year", 85)>>],
  [Plain EXCEPT !.claims = <<In(Span(4, 4), "other", 95)>>],
  [Plain EXCEPT !.claims = <<In(ClockTime, "other", 90)>>],
  [Plain EXCEPT !.claims = <<In(ClockTime, "other", 90), In(YearNo(1), "year", 85)>>],
  [Plain EXCEPT !.claims = <<In(YearNo(0), "year", 85), In(YearNo(2), "year", 85)>>],
  [Plain EXCEPT !.claims = <<In(Span(2, 5), "range", 85)>>, !.published = Span(7, 7)],
  [Plain EXCEPT !.published = YearNo(2)],
  [Plain EXCEPT !.published = ClockTime],
  [Plain EXCEPT !.unclear = TRUE],
  [Plain EXCEPT !.range = Span(0, 5), !.years = <<YearNo(0), YearNo(1)>>],
  [Plain EXCEPT !.years = <<YearNo(0)>>],
  [Plain EXCEPT !.years = <<YearNo(0)>>, !.publication = TRUE, !.applies = FALSE],
  [Plain EXCEPT !.years = <<YearNo(0), YearNo(2)>>,
                !.publication = TRUE, !.applies = FALSE] }

NoRow ==
  [from |-> None, to |-> None, grain |-> None, year |-> None,
   tx_start |-> None, tx_end |-> None, section |-> None]

On(d)   == [date |-> d, bare |-> FALSE]
Bare(d) == [date |-> d, bare |-> TRUE]

MCPayloads == {
  NoRow,
  [NoRow EXCEPT !.from = On(3), !.to = On(5), !.grain = "year"],
  [NoRow EXCEPT !.from = On(3), !.to = On(6), !.tx_start = On(7)],
  [NoRow EXCEPT !.from = On(5), !.to = On(2)],
  [NoRow EXCEPT !.from = On(4)],
  [NoRow EXCEPT !.from = On(6)],
  [NoRow EXCEPT !.from = Bare(6)],
  [NoRow EXCEPT !.from = Bare(None)],
  [NoRow EXCEPT !.from = On(None), !.to = On(7)],
  [NoRow EXCEPT !.year = YearNo(1), !.tx_start = On(4), !.tx_end = On(6)],
  [NoRow EXCEPT !.section = Span(0, 8)],
  [NoRow EXCEPT !.tx_start = On(2)],
  [NoRow EXCEPT !.tx_start = On(None)] }

MCQueries == {Span(3, 4), Span(5, 6), Span(4, 8), Span(7, 8), AllTime}

============================================================================
