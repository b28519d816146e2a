----------------------------- MODULE MCQAJudge ------------------------------
(* An instance of QAJudge for TLC: two cases, of which one needs the larger    *)
(* top_k and the other evidence that is never retrieved.                       *)
EXTENDS QAJudge

MCExpected  == <<{"a"}, {"b"}>>
MCRetrieved == <<[k \in {1, 2} |-> IF k = 1 THEN {"c"} ELSE {"a", "c"}], [k \in {1, 2} |-> {"c"}]>>

QA(resume, dry, start, limit) ==
  [resume |-> resume, dry |-> dry, start |-> start, limit |-> limit,
   dynamic |-> ~ dry, ensure |-> ~ resume, failFast |-> resume]

MCQAArgs == {QA(FALSE, FALSE, 0, 2), QA(TRUE, TRUE, 1, 1), QA(TRUE, FALSE, 0, 2)}

Judge(resume, dry, start, limit) ==
  [resume |-> resume, dry |-> dry, start |-> start, limit |-> limit, failFast |-> limit = 1]

MCJudgeArgs == {Judge(FALSE, FALSE, 0, 3), Judge(TRUE, TRUE, 1, 3), Judge(TRUE, FALSE, 0, 1)}

=============================================================================
