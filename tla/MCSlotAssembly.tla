--------------------------- MODULE MCSlotAssembly ---------------------------
(* Instances of SlotAssembly for TLC: rows about two series, with the day that *)
(* is asked for, another day, a year around it, a filing, versions and a       *)
(* disputed claim.  Of four rows only the best three reach the assembler.      *)
EXTENDS SlotAssembly

Fred   == {"macro", "fred"}
Index  == {"market", "index"}
Sec    == {"sec", "submissions"}
GitHub == {"github", "releases"}

R(entity, family, file, metric, from, to) ==
  [entity |-> entity, family |-> family, file |-> file, metric |-> metric, text |-> {},
   origins |-> {{"series"}}, from |-> from, to |-> to, filed |-> 0,
   kind |-> IF from = to THEN "exact" ELSE "range", official |-> FALSE,
   version |-> 0, disputed |-> FALSE]

MCRows ==
  <<R({"alpha"}, Fred, {"daily"}, {"yield", "rate"}, 11, 11),
    R({"alpha"}, Fred, {"treasury"}, {"yield", "rate"}, 16, 16),
    R({"alpha"}, Fred, {}, {"yield", "rate"}, 10, 19),
    R({"beta"}, Index, {"daily"}, {"close"}, 21, 21),
    [R({"alpha"}, Sec, {"treasury"}, {"filing"}, 0, 0) EXCEPT !.filed = 11, !.kind = "filing",
       !.official = TRUE, !.origins = {{"filing"}, {"macro"}}],
    [R({"gamma"}, GitHub, {}, {"release"}, 11, 11) EXCEPT !.version = 21, !.filed = 11,
       !.kind = "revision", !.text = {"alpha"}],
    [R({"gamma"}, GitHub, {}, {"release"}, 0, 0) EXCEPT !.version = 22, !.filed = 12,
       !.kind = "unknown"],
    [R({"beta"}, Index, {"daily"}, {"close"}, 31, 31) EXCEPT !.disputed = TRUE,
       !.kind = "conflict"]>>

MCCorpora        == kSubset(4, 1..8) \cup kSubset(1, 1..8)
MCSourceFamilies == {Fred, Index, Sec, GitHub}

At(grain, from, to) ==
  [at |-> 1, from |-> from, to |-> to, grain |-> grain, negative |-> FALSE,
   ambiguous |-> FALSE, role |-> "valid"]

Day(d)   == At("day", d, d)
Year(y)  == At("year", 10 * y, 10 * y + 9)
Not(k)   == [k EXCEPT !.negative = TRUE]
Again(k) == [k EXCEPT !.at = 2]

Q(words, constraints, dates, years) ==
  [words |-> words, constraints |-> constraints, labels |-> {}, asks |-> FALSE,
   contested |-> FALSE, dates |-> dates, years |-> years, versions |-> {}, sides |-> <<>>,
   cue |-> FALSE, explicit |-> FALSE, conflict |-> FALSE, validTime |-> FALSE, vague |-> FALSE]

S(words, dates, years) == [words |-> words, dates |-> dates, years |-> years, versions |-> {}]

MCQueries ==
  {Q({"alpha", "yield"}, {Day(11)}, {11}, {1}),
   Q({"alpha", "treasury"}, {Day(11), Again(Day(11))}, {11}, {1}),
   Q({"alpha", "treasury"}, {Day(11)}, {11}, {1}),
   Q({"alpha", "yield"}, {Day(11), Not(Day(16))}, {11, 16}, {1}),
   Q({"treasury"}, {Day(11), Year(1), Not(At("range", 10, 14))}, {11}, {1}),
   [Q({"alpha", "yield"}, {Day(11), Not(Day(16))}, {11, 16}, {1}) EXCEPT !.validTime = TRUE,
      !.explicit = TRUE, !.asks = TRUE],
   [Q({"alpha", "fred"}, {Year(1)}, {}, {1}) EXCEPT !.vague = TRUE],
   Q({"alpha", "metric"}, {At("month", 10, 14), Not(At("range", 15, 22))}, {}, {1}),
   [Q({"alpha", "beta"}, {Year(1), Year(2)}, {}, {1, 2}) EXCEPT !.cue = TRUE,
      !.sides = <<S({"alpha"}, {}, {1}), S({"beta"}, {}, {2})>>],
   [Q({"alpha", "beta", "index"}, {Day(11), Day(21)}, {11, 21}, {1, 2}) EXCEPT
      !.cue = TRUE, !.validTime = TRUE,
      !.sides = <<S({"alpha", "fred"}, {11}, {1}), S({"beta", "index"}, {21}, {2})>>],
   [Q({"gamma", "release"}, {Year(1)}, {}, {1}) EXCEPT !.versions = {22}, !.validTime = TRUE],
   [Q({"beta", "close"}, {Day(21)}, {21}, {2}) EXCEPT !.conflict = TRUE, !.cue = TRUE,
      !.contested = TRUE],
   [Q({"gamma", "release"}, {}, {}, {}) EXCEPT !.conflict = TRUE, !.versions = {21},
      !.labels = {Year(1)}],
   Q({"gamma", "filing"}, {[At("fuzzy", 10, 12) EXCEPT !.role = "filing"],
                           [Day(12) EXCEPT !.ambiguous = TRUE, !.role = "filing"]}, {}, {1})}

MCAblations == {{}, {"precision"}, {"role", "anchors"}, {"slots"}, {"all but the scores"}}

=============================================================================
