------------------------------ MODULE ManualQA ------------------------------
(***************************************************************************)
(* The runner of the manual questions: run_layer2b_manual_qa.py over       *)
(* layer2b_qa.py and vertex_retry.py, under                                *)
(* src/benchmarks/layer2_crossdomain/.  Sessions follow each other and     *)
(* append to one file of results; a session may be stopped at any step,    *)
(* also half-way through a line.  A case is its number in the file of      *)
(* questions.                                                              *)
(***************************************************************************)
EXTENDS Integers, Sequences, FiniteSets, FiniteSetsExt

CONSTANTS
  NCases,
  Expected,       \* evidence a case expects
  Retrieved,      \* evidence a case is given for each top_k
  Corpus,
  TopK, MaxTopK,
  Citations,      \* what an answer may cite
  RetryAttempts,
  QAArgs         \* the command lines

Cases == 1..NCases
Ks    == {k \in {TopK, 10, 20, MaxTopK} : TopK <= k /\ k <= MaxTopK}

QAArg ==
  [resume : BOOLEAN, dry : BOOLEAN, start : Nat, limit : Nat,
   dynamic : BOOLEAN, ensure : BOOLEAN, failFast : BOOLEAN]

ASSUME ManualQAAssumption ==
  /\ NCases \in Nat /\ TopK \in Nat /\ MaxTopK \in Nat /\ TopK <= MaxTopK
  /\ RetryAttempts \in Nat \ {0}
  /\ \A c \in Cases : \A k \in Ks : Retrieved[c][k] \subseteq Corpus
  /\ QAArgs \subseteq QAArg

VARIABLES
  answers,    \* rows of the file
  answersEnd, \* how the file ends: "whole", "unended" (no newline), "broken"
  qpc, qargs, \* the session
  qleft,      \* cases still to do
  qtries,     \* calls that failed
  qrow,       \* row to be written
  qseen,      \* rows the summary is made of
  qold        \* how many of them were loaded

file == <<answers, answersEnd>>
qvars == <<file, qpc, qargs, qleft, qtries, qrow, qseen, qold>>

AnswerRow(case, status, answered, pass) ==
  [case |-> case, status |-> status, answered |-> answered, pass |-> pass]

----------------------------------------------------------------------------
(* retrieve_layer2b_evidence and validate_answer_contract.                 *)

\* The smallest k that brings all, else the largest.
FinalTopK(c, args) ==
  LET tried  == IF args.dynamic THEN Ks ELSE {TopK}
      enough == {k \in tried : Expected[c] \subseteq Retrieved[c][k]}
  IN  IF enough = {} THEN Max(tried) ELSE Min(enough)

Given(c, args) ==
  LET rows == Retrieved[c][FinalTopK(c, args)] IN
  IF args.ensure THEN rows \cup (Expected[c] \cap Corpus) ELSE rows

ContractPass(c, cited, given) ==
  Expected[c] # {} /\ Expected[c] \subseteq cited /\ cited \subseteq given \cap Corpus

DryRow(c)   == AnswerRow(c, "completed", FALSE, FALSE)
ErrorRow(c) == AnswerRow(c, "provider_error", FALSE, FALSE)

\* Rows for what the provider may say; an answer outside the schema counts as
\* none, and whatever it cites, its time, behaviour, refusal or warning may fail it.
VertexRows(c, args) ==
  {AnswerRow(c, "completed", FALSE, FALSE), AnswerRow(c, "completed", TRUE, FALSE)} \cup
  {AnswerRow(c, "completed", TRUE, ContractPass(c, cited, Given(c, args))) : cited \in Citations}

----------------------------------------------------------------------------
(* The file.                                                               *)

\* Mutant: a case that failed is not done again.
CompletedWithErrors(rows) == {rows[i].case : i \in DOMAIN rows}

Completed(rows) == {rows[i].case : i \in {j \in DOMAIN rows : rows[j].status = "completed"}}

\* The first n of a set of numbers.
FirstOf(n, S) == {x \in S : Cardinality({y \in S : y < x}) < n}

\* Mutant: the cases that are done are not left out.
SelectedAll(done, start, limit) == {c \in Cases : start < c /\ c <= start + limit}

Selected(done, start, limit) == FirstOf(limit, {c \in Cases : c > start} \ done)

\* A row behind a line without end makes that line unreadable.
EndAfter(end) == IF end = "unended" THEN "broken" ELSE end

\* What a crash in the middle of a line leaves.
Torn(rows, end, row) ==
  {<<rows, end>>, <<rows, "broken">>, <<Append(rows, row), IF end = "whole" THEN "unended" ELSE "broken">>}

----------------------------------------------------------------------------
(* The steps of a session.                                                 *)

NoRow   == AnswerRow(1, "completed", FALSE, FALSE)
NoQAArg == [resume |-> TRUE, dry |-> TRUE, start |-> 0, limit |-> 0,
            dynamic |-> FALSE, ensure |-> FALSE, failFast |-> FALSE]

QAInit ==
  /\ answers = <<>> /\ answersEnd = "whole"
  /\ qpc = "idle" /\ qargs = NoQAArg /\ qleft = {} /\ qtries = 0 /\ qrow = NoRow
  /\ qseen = <<>> /\ qold = 0

QAStart ==
  \E args \in QAArgs :
    LET loaded == IF args.resume THEN answers ELSE <<>> IN
    /\ qpc \in {"idle", "done"}
    /\ args.resume => answersEnd # "broken"
    /\ qargs' = args
    /\ qleft' = Selected(Completed(loaded), args.start, args.limit)
    /\ qseen' = loaded /\ qold' = Len(loaded)
    /\ qpc' = "open"
    /\ UNCHANGED <<file, qtries, qrow>>

\* Mutant: a session that resumes starts the file again.
QAOpenWrite ==
  /\ qpc = "open" /\ qpc' = "next"
  /\ answers' = <<>> /\ answersEnd' = "whole"
  /\ UNCHANGED <<qargs, qleft, qtries, qrow, qseen, qold>>

QAOpen ==
  /\ qpc = "open" /\ qpc' = "next"
  /\ IF qargs.resume THEN UNCHANGED file ELSE answers' = <<>> /\ answersEnd' = "whole"
  /\ UNCHANGED <<qargs, qleft, qtries, qrow, qseen, qold>>

QARetrieve ==
  /\ qpc = "next" /\ qleft # {}
  /\ IF qargs.dry THEN qrow' = DryRow(Min(qleft)) /\ qpc' = "append"
     ELSE qpc' = "call" /\ UNCHANGED qrow
  /\ UNCHANGED <<file, qargs, qleft, qtries, qseen, qold>>

QAAnswer ==
  /\ qpc = "call" /\ qpc' = "append"
  /\ qrow' \in VertexRows(Min(qleft), qargs)
  /\ UNCHANGED <<file, qargs, qleft, qtries, qseen, qold>>

\* Mutant: the first attempt does not count.
QARetryOnceMore ==
  /\ qpc = "call" /\ qtries < RetryAttempts
  /\ qtries' = qtries + 1
  /\ UNCHANGED <<file, qpc, qargs, qleft, qrow, qseen, qold>>

QARetry ==
  /\ qpc = "call" /\ qtries + 1 < RetryAttempts
  /\ qtries' = qtries + 1
  /\ UNCHANGED <<file, qpc, qargs, qleft, qrow, qseen, qold>>

\* At once for an error that will not pass, else after the last attempt.
QACallFails ==
  /\ qpc = "call" /\ qpc' = "append"
  /\ qrow' = ErrorRow(Min(qleft))
  /\ UNCHANGED <<file, qargs, qleft, qtries, qseen, qold>>

QAAppend ==
  /\ qpc = "append"
  /\ answers' = Append(answers, qrow) /\ answersEnd' = EndAfter(answersEnd)
  /\ qseen' = Append(qseen, qrow)
  /\ qleft' = qleft \ {Min(qleft)}
  /\ qpc' = IF qrow.status = "provider_error" /\ qargs.failFast THEN "idle" ELSE "next"
  /\ qrow' = NoRow /\ qtries' = 0
  /\ UNCHANGED <<qargs, qold>>

QADone ==
  /\ qpc = "next" /\ qleft = {} /\ qpc' = "done"
  /\ UNCHANGED <<file, qargs, qleft, qtries, qrow, qseen, qold>>

\* The context or the evidence cannot be had, or the process is stopped.
QAStops ==
  /\ qpc \notin {"idle", "done"} /\ qpc' = "idle"
  /\ IF qpc = "append"
     THEN \E left \in Torn(answers, answersEnd, qrow) : answers' = left[1] /\ answersEnd' = left[2]
     ELSE UNCHANGED file
  /\ qleft' = {} /\ qtries' = 0 /\ qrow' = NoRow /\ qseen' = <<>> /\ qold' = 0
  /\ UNCHANGED qargs

QAStep == QAOpen \/ QARetrieve \/ QAAnswer \/ QARetry \/ QACallFails \/ QAAppend \/ QADone

=============================================================================
