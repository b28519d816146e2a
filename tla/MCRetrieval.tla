---------------------------- MODULE MCRetrieval ----------------------------
(* Instances of Retrieval for TLC: four stored chunks of the kinds the weights *)
(* tell apart, and two to ingest, one of which closes the tx window of a       *)
(* claim about the future.                                                     *)
EXTENDS Retrieval

Claim(lex, vec, rank, weight, authority, open, shut, region, old) ==
  [lexical |-> lex, vector |-> vec, rank |-> rank, bias |-> IF region = "a" THEN 5 ELSE 0,
   weight |-> weight, meets |-> weight > 0, age |-> IF weight > 0 THEN 0 ELSE 30,
   authority |-> authority,
   mismatch |-> [open |-> open, shut |-> shut],
   region |-> region, supersedes |-> old]

MCCorpus ==
  <<Claim(0, 10, 10, 94, 50, FALSE, FALSE, "a", 0),   \* exact, few words in common
    Claim(30, 90, 100, 10, 100, FALSE, FALSE, None, 0), \* no time, best words
    Claim(20, 40, 20, 92, 50, FALSE, TRUE, "a", 0),   \* exact, about the future
    Claim(10, 60, 40, 0, 50, TRUE, TRUE, "b", 0),     \* dated outside the window
    Claim(20, 50, 20, 92, 60, FALSE, FALSE, "a", 3),  \* revises the third
    Claim(0, 0, 10, 60, 50, FALSE, FALSE, "b", 4)>>   \* revises the fourth

\* The generic domain of config/polar.yaml, with the default tx_gamma.
MCWeights == [alpha |-> 55, beta |-> 25, gamma |-> 15, age |-> 5, tx |-> 40]

=============================================================================
