---------------------------- MODULE MCAnswering ----------------------------
(* Instances of Answering for TLC.  A calendar of 20 years with centuries of   *)
(* five; lists of up to three passages: the same text twice, two that overlap, *)
(* one inside the other, and none.                                             *)
EXTENDS Answering

MCPolicies ==
  [d \in {"generic", "world-economy", "finance"} |->
     [axis |-> "valid", mode |-> "INTELLIGENT",
      hard |-> IF d = "world-economy"
               THEN {"explicit_year", "explicit_century", "explicit_period"}
               ELSE {"explicit_year"}]]

Asks(hint, years, centuries, periods, domain) ==
  [hint |-> hint, years |-> years, centuries |-> centuries, periods |-> periods,
   filing |-> FALSE, domain |-> domain]

MCPeriods == <<Span(2, 6), Span(0, 3)>>

AsOf(y) == [operator |-> "AS_OF", from |-> y, to |-> y]

MCQueries ==
  {Asks(NoHint, years, {}, {}, d) : years \in {{}, {0}, {4}, {3, 7}}, d \in {"roles", "world-economy"}}
  \cup {Asks(NoHint, {4}, {2, 3}, {}, "generic"), Asks(NoHint, {9}, {}, {1, 2}, "finance"),
        Asks(AsOf(4), {9}, {}, {}, "generic"), Asks(AsOf(Horizon), {}, {}, {}, "generic"),
        [Asks([operator |-> "BETWEEN", from |-> 8, to |-> 3], {}, {}, {}, "generic")
           EXCEPT !.filing = TRUE]}

P(id, text, from, to, authority, score) ==
  [id |-> id, subject |-> "s", text |-> text, window |-> Span(from, to),
   authority |-> authority, score |-> score]

Lists ==
  {<<>>, <<P(1, "x", 3, 5, 1, 9)>>,
   <<P(1, "x", 4, 5, 1, 9), P(2, "x", 4, 6, 3, 7), P(3, "x", 4, 5, 2, 5)>>, \* one text
   <<P(1, "x", 3, 5, 1, 9), P(2, "y", 6, 9, 2, 8), P(3, "z", 3, 5, 1, 7)>>, \* ends overlap
   <<P(1, "x", 4, 5, 2, 9), P(2, "y", 4, 9, 2, 8)>>,                        \* a year in a range
   <<P(1, "x", 4, 4, 2, 9), P(2, "y", 4, 4, 2, 8)>>}                        \* the same day

MCRetrievals == [results : Lists, coverage : {0, 50, 77, 78, 93, 100}]

Env(light, provider, order, limit) ==
  [light |-> light, provider |-> provider, order |-> order, limit |-> limit]

MCEnvironments ==
  {Env(TRUE, "vertex", <<"ollama">>, 0), Env(FALSE, "vertex", <<"ollama">>, 0),
   Env(FALSE, "other", <<>>, 0), Env(FALSE, "none", <<"local_hf", "ollama">>, 0),
   Env(FALSE, "none", <<"openai_compat", "llama_cpp">>, 2)}

=============================================================================
