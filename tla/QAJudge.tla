------------------------------ MODULE QAJudge -------------------------------
(***************************************************************************)
(* The judge of the answers: run_layer2b_judge.py over llm_judge.py, under *)
(* src/benchmarks/layer2_crossdomain/.  It reads the file that ManualQA    *)
(* writes, which may grow or start again in the meantime, and appends to a *)
(* file of its own with the same helpers.  A verdict is the vote of some   *)
(* runs over several fields.                                               *)
(***************************************************************************)
EXTENDS ManualQA

CONSTANTS
  Fields,         \* what a run decides; one of them is the overall pass
  JudgeRuns,
  ProviderLimit,  \* failed calls per run
  JSONLimit,      \* unreadable replies per run
  JudgeArgs,
  MaxSessions     \* of each runner: bound of the model

ASSUME QAJudgeAssumption ==
  /\ JudgeRuns \in Nat \ {0} /\ ProviderLimit \in Nat \ {0} /\ JSONLimit \in Nat \ {0}
  /\ JudgeArgs \subseteq [resume : BOOLEAN, dry : BOOLEAN, start : Nat, limit : Nat, failFast : BOOLEAN]

VARIABLES
  verdicts, verdictsEnd, \* rows of the file, and how it ends
  jpc, jargs,
  jleft,     \* answer rows still to judge, under their place in the file
  jruns,     \* runs of the current case
  jcalls,    \* failed calls and unreadable replies of the current run
  jrow,
  jseen, jold, \* as in ManualQA
  sessions,  \* of each runner, so far
  made,      \* whether there is a file of answers
  jfresh,    \* ghost: the file of answers has not started again since the judge read it
  fresh      \* ghost: nor since the judge started its own

judgeFile == <<verdicts, verdictsEnd>>
jvars == <<judgeFile, jpc, jargs, jleft, jruns, jcalls, jrow, jseen, jold>>
vars  == <<qvars, jvars, sessions, made, jfresh, fresh>>

VerdictRow(case, status, pass) ==
  [case |-> case, status |-> status, pass |-> pass]

NoVerdict == VerdictRow(1, "completed", FALSE)
NoRun  == [scored |-> FALSE, fields |-> {}]
NoCall == [failed |-> 0, unreadable |-> 0]

JudgeInit ==
  /\ verdicts = <<>> /\ verdictsEnd = "whole"
  /\ jpc = "idle" /\ jargs = [resume |-> TRUE, dry |-> TRUE, start |-> 0, limit |-> 0, failFast |-> FALSE]
  /\ jleft = <<>> /\ jruns = <<>> /\ jcalls = NoCall
  /\ jrow = NoVerdict
  /\ jseen = <<>> /\ jold = 0

NextRow == jleft[Min(DOMAIN jleft)]

JudgeStart ==
  \E args \in JudgeArgs :
    LET loaded == IF args.resume THEN verdicts ELSE <<>>
        open   == {i \in DOMAIN answers : i > args.start /\ answers[i].case \notin Completed(loaded)}
    IN
    /\ jpc \in {"idle", "done"}
    /\ made /\ answersEnd # "broken"
    /\ args.resume => verdictsEnd # "broken"
    /\ jargs' = args
    /\ jleft' = [i \in FirstOf(args.limit, open) |-> answers[i]]
    /\ jseen' = loaded /\ jold' = Len(loaded)
    /\ jpc' = "open"
    /\ UNCHANGED <<judgeFile, jruns, jcalls, jrow>>

\* Mutant: the file is never started again.
JudgeOpenAppends ==
  /\ jpc = "open" /\ jpc' = "next"
  /\ UNCHANGED <<judgeFile, jargs, jleft, jruns, jcalls, jrow, jseen, jold>>

JudgeOpen ==
  /\ jpc = "open" /\ jpc' = "next"
  /\ IF jargs.resume THEN UNCHANGED judgeFile ELSE verdicts' = <<>> /\ verdictsEnd' = "whole"
  /\ UNCHANGED <<jargs, jleft, jruns, jcalls, jrow, jseen, jold>>

\* The answer, the case or a piece of evidence may be missing; a dry run judges nothing.
JudgeMap ==
  LET row == NextRow IN
  /\ jpc = "next" /\ DOMAIN jleft # {}
  /\ \/ jpc' = "append" /\ jrow' = VerdictRow(row.case, "mapping_error", FALSE)
     \/ /\ row.answered /\ jargs.dry
        /\ jpc' = "append" /\ jrow' = VerdictRow(row.case, "completed", FALSE)
     \/ /\ row.answered /\ ~ jargs.dry
        /\ jpc' = "judge" /\ UNCHANGED jrow
  /\ UNCHANGED <<judgeFile, jargs, jleft, jruns, jcalls, jseen, jold>>

RunEnds(run) ==
  /\ jpc = "judge" /\ Len(jruns) < JudgeRuns
  /\ jruns' = Append(jruns, run) /\ jcalls' = NoCall
  /\ UNCHANGED <<judgeFile, jpc, jargs, jleft, jrow, jseen, jold>>

JudgeScores == \E fields \in SUBSET Fields : RunEnds([scored |-> TRUE, fields |-> fields])

\* Mutant: an unreadable reply starts the count of failed calls again.
JudgeUnreadableForgets ==
  /\ jpc = "judge" /\ Len(jruns) < JudgeRuns
  /\ jcalls' = NoCall
  /\ UNCHANGED <<judgeFile, jpc, jargs, jleft, jruns, jrow, jseen, jold>>

JudgeUnreadable ==
  IF jcalls.unreadable + 1 >= JSONLimit THEN RunEnds(NoRun)
  ELSE /\ jpc = "judge" /\ Len(jruns) < JudgeRuns
       /\ jcalls' = [jcalls EXCEPT !.unreadable = @ + 1]
       /\ UNCHANGED <<judgeFile, jpc, jargs, jleft, jruns, jrow, jseen, jold>>

\* An error that will not pass ends the run at once.
JudgeCallFails == RunEnds(NoRun)

JudgeRetry ==
  /\ jpc = "judge" /\ Len(jruns) < JudgeRuns
  /\ jcalls.failed + 1 < ProviderLimit
  /\ jcalls' = [jcalls EXCEPT !.failed = @ + 1]
  /\ UNCHANGED <<judgeFile, jpc, jargs, jleft, jruns, jrow, jseen, jold>>

ScoredRuns == {i \in DOMAIN jruns : jruns[i].scored}

\* At least half of the runs that were scored.
Holds(field) ==
  2 * Cardinality({i \in ScoredRuns : field \in jruns[i].fields}) >= Cardinality(ScoredRuns)

Verdict(row) ==
  IF ScoredRuns = {} THEN VerdictRow(row.case, "judge_error", FALSE)
  ELSE VerdictRow(row.case, "completed", row.pass /\ \A f \in Fields : Holds(f))

JudgeVerdict ==
  /\ jpc = "judge" /\ Len(jruns) = JudgeRuns /\ jpc' = "append"
  /\ jrow' = Verdict(NextRow)
  /\ UNCHANGED <<judgeFile, jargs, jleft, jruns, jcalls, jseen, jold>>

JudgeRaises ==
  /\ jpc = "judge" /\ jpc' = "append"
  /\ jrow' = VerdictRow(NextRow.case, "judge_error", FALSE)
  /\ UNCHANGED <<judgeFile, jargs, jleft, jruns, jcalls, jseen, jold>>

JudgeAppend ==
  /\ jpc = "append"
  /\ verdicts' = Append(verdicts, jrow) /\ verdictsEnd' = EndAfter(verdictsEnd)
  /\ jseen' = Append(jseen, jrow)
  /\ jleft' = [i \in DOMAIN jleft \ {Min(DOMAIN jleft)} |-> jleft[i]]
  /\ jpc' = IF jrow.status # "completed" /\ jargs.failFast THEN "idle" ELSE "next"
  /\ jruns' = <<>> /\ jcalls' = NoCall /\ jrow' = NoVerdict
  /\ UNCHANGED <<jargs, jold>>

JudgeDone ==
  /\ jpc = "next" /\ DOMAIN jleft = {} /\ jpc' = "done"
  /\ UNCHANGED <<judgeFile, jargs, jleft, jruns, jcalls, jrow, jseen, jold>>

JudgeStops ==
  /\ jpc \notin {"idle", "done"} /\ jpc' = "idle"
  /\ IF jpc = "append"
     THEN \E left \in Torn(verdicts, verdictsEnd, jrow) : verdicts' = left[1] /\ verdictsEnd' = left[2]
     ELSE UNCHANGED judgeFile
  /\ jleft' = <<>> /\ jruns' = <<>> /\ jcalls' = NoCall /\ jrow' = NoVerdict
  /\ jseen' = <<>> /\ jold' = 0
  /\ UNCHANGED jargs

JudgeStep ==
  \/ JudgeOpen \/ JudgeMap \/ JudgeScores \/ JudgeUnreadable \/ JudgeCallFails \/ JudgeRetry
  \/ JudgeVerdict \/ JudgeRaises \/ JudgeAppend \/ JudgeDone

----------------------------------------------------------------------------
(* Both together.                                                          *)

Init ==
  /\ QAInit /\ JudgeInit /\ sessions = [qa |-> 0, judge |-> 0]
  /\ made = FALSE /\ jfresh = FALSE /\ fresh = FALSE

QAGoes ==
  /\ QAStep \/ QAStops
  /\ made' = (made \/ (qpc = "open" /\ qpc' = "next"))
  /\ IF QAOpen /\ ~ qargs.resume THEN jfresh' = FALSE /\ fresh' = FALSE
     ELSE UNCHANGED <<jfresh, fresh>>

\* A file of verdicts without rows is started as well.
JudgeGoes ==
  /\ JudgeStep \/ JudgeStops
  /\ fresh' = IF jpc = "open" /\ jpc' = "next" /\ (~ jargs.resume \/ verdicts = <<>>)
              THEN jfresh ELSE fresh
  /\ UNCHANGED <<made, jfresh>>

Begins(runner) ==
  /\ sessions[runner] < MaxSessions
  /\ sessions' = [sessions EXCEPT ![runner] = @ + 1]

Next ==
  \/ QAStart /\ Begins("qa") /\ UNCHANGED <<jvars, made, jfresh, fresh>>
  \/ JudgeStart /\ Begins("judge") /\ jfresh' = TRUE /\ UNCHANGED <<qvars, made, fresh>>
  \/ QAGoes /\ UNCHANGED <<jvars, sessions>>
  \/ JudgeGoes /\ UNCHANGED <<qvars, sessions>>

\* A session that runs goes on: calls return, and there are bounds on their number.
Fairness ==
  /\ WF_qvars(QAStep)
  /\ WF_jvars(JudgeStep)

Spec == Init /\ [][Next]_vars /\ Fairness

----------------------------------------------------------------------------
(* Properties.                                                             *)

TypeOK ==
  /\ qpc \in {"idle", "open", "next", "call", "append", "done"} /\ qtries \in 0..RetryAttempts - 1
  /\ jpc \in {"idle", "open", "next", "judge", "append", "done"}
  /\ jcalls \in [failed : 0..ProviderLimit - 1, unreadable : 0..JSONLimit - 1]
  /\ {answersEnd, verdictsEnd} \subseteq {"whole", "unended", "broken"}
  /\ qold <= Len(qseen) /\ jold <= Len(jseen) /\ Len(jruns) <= JudgeRuns

CompletedRows(rows, c) == {i \in DOMAIN rows : rows[i].case = c /\ rows[i].status = "completed"}

\* Through crashes and resumed sessions over any part of the cases, no case is
\* completed twice in either file, so no answer is counted twice in a report
\* (layer2b_qa.py 648-653, run_layer2b_judge.py 71-75).
CompletedOnce ==
  \A c \in Cases : \A rows \in {answers, verdicts} : Cardinality(CompletedRows(rows, c)) <= 1

DoneSince(rows, old) == {rows[i].case : i \in {j \in DOMAIN rows : rows[j].status = "completed" \/ j > old}}

\* A session over all cases that finishes leaves each with a completed row or with
\* one of its own, and its report has the rows of the file, whatever earlier
\* sessions left; and where they left a file that is refused, a session that does not
\* resume mends it (run_layer2b_manual_qa.py 78-90, 110-189, run_layer2b_judge.py 71-138).
FinishedSessionsAreComplete ==
  /\ qpc = "done" =>
       /\ qseen = answers /\ (~ qargs.resume => answersEnd = "whole")
       /\ qargs.start = 0 /\ qargs.limit >= NCases => DoneSince(answers, qold) = Cases
  /\ jpc = "done" => jseen = verdicts /\ (~ jargs.resume => verdictsEnd = "whole")

\* While the answers have not started again since the judge started its file from
\* them, every case it lets pass has an answer in the file that keeps the contract,
\* through the votes, resumed sessions of both and rows that are added meanwhile.
\* A verdict on an answer that is gone needs answers that start again before the
\* verdicts do: a resumed judge does keep it (run_layer2b_judge.py 71-75, 88, 289-298).
PassesRestOnAnswers ==
  fresh => \A i \in DOMAIN verdicts : verdicts[i].pass =>
    \E j \in DOMAIN answers : answers[j].case = verdicts[i].case /\ answers[j].answered /\ answers[j].pass

LedgerOf(rows) ==
  [c \in Cases |-> IF CompletedRows(rows, c) # {} THEN "done"
                   ELSE IF \E i \in DOMAIN rows : rows[i].case = c THEN "failed" ELSE "open"]

Answered == INSTANCE AnswerLedger WITH ledger <- LedgerOf(answers),  keeps <- qargs.resume
Judged   == INSTANCE AnswerLedger WITH ledger <- LedgerOf(verdicts), keeps <- jargs.resume

\* Both files keep what is done for as long as their sessions resume
\* (run_layer2b_manual_qa.py 110, run_layer2b_judge.py 88).
ImplementsLedgers == Answered!Spec /\ Judged!Spec

\* A session that has started ends: calls are tried a bounded number of times,
\* also when errors and unreadable replies alternate (vertex_retry.py 65-83,
\* llm_judge.py 482-515).
SessionsEnd ==
  /\ qpc = "open" ~> qpc \in {"idle", "done"}
  /\ jpc = "open" ~> jpc \in {"idle", "done"}

=============================================================================
