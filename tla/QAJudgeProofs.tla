--------------------------- MODULE QAJudgeProofs ---------------------------
(***************************************************************************)
(* What the two results files guarantee, for any number of cases, any      *)
(* command lines and any number of sessions, stopped wherever they are.    *)
(***************************************************************************)
EXTENDS QAJudge, FiniteSetTheorems, TLAPS

----------------------------------------------------------------------------
(* The invariant.                                                          *)

\* An answer completes its case.
AnswerRows ==
  {row \in [case : Cases, status : {"completed", "provider_error"},
            answered : BOOLEAN, pass : BOOLEAN] : row.answered => row.status = "completed"}

VerdictRows ==
  [case : Cases, status : {"completed", "mapping_error", "judge_error"}, pass : BOOLEAN]

Places == Nat \ {0}

\* What a session has still to do: some rows of a file, under their places.
Pending == UNION {[S -> AnswerRows] : S \in SUBSET Places}

Ends == {"whole", "unended", "broken"}

\* No row of a case follows the one that completes it.
Closed(rows) ==
  \A i, j \in DOMAIN rows :
    i < j /\ rows[i].status = "completed" => rows[j].case # rows[i].case

QATypes ==
  /\ answers \in Seq(AnswerRows) /\ qseen \in Seq(AnswerRows)
  /\ answersEnd \in Ends
  /\ qpc \in {"idle", "open", "next", "call", "append", "done"}
  /\ qargs \in QAArg
  /\ qleft \in SUBSET Cases
  /\ qtries \in 0..RetryAttempts - 1
  /\ qold \in Nat /\ qold <= Len(qseen)

\* A session knows the rows of its file, and one that started it leaves it readable.
QASeen ==
  /\ qpc \in {"next", "call", "append", "done"} => qseen = answers
  /\ qpc = "open" => qseen = IF qargs.resume THEN answers ELSE <<>>
  /\ qpc \in {"next", "call", "append", "done"} /\ ~ qargs.resume => answersEnd = "whole"

\* It does only what is not done, and a session over all cases has the rest.
QAWork ==
  /\ qpc # "idle" => qleft \cap Completed(qseen) = {}
  /\ qpc # "idle" /\ qargs.start = 0 /\ qargs.limit >= NCases =>
       Cases \subseteq qleft \cup DoneSince(qseen, qold)
  /\ qpc \in {"call", "append"} => qleft # {}
  /\ qpc = "done" => qleft = {}
  /\ qpc = "append" => qrow \in AnswerRows /\ qrow.case = Min(qleft)

QAInv == QATypes /\ QASeen /\ QAWork /\ Closed(answers)

JudgeTypes ==
  /\ verdicts \in Seq(VerdictRows) /\ jseen \in Seq(VerdictRows)
  /\ verdictsEnd \in Ends
  /\ jpc \in {"idle", "open", "next", "judge", "append", "done"}
  /\ jargs \in [resume : BOOLEAN, dry : BOOLEAN, start : Nat, limit : Nat, failFast : BOOLEAN]
  /\ jleft \in Pending
  /\ jruns \in Seq([scored : BOOLEAN, fields : SUBSET Fields]) /\ Len(jruns) <= JudgeRuns
  /\ jcalls \in [failed : 0..ProviderLimit - 1, unreadable : 0..JSONLimit - 1]
  /\ jold \in Nat /\ jold <= Len(jseen)

JudgeSeen ==
  /\ jpc \in {"next", "judge", "append", "done"} => jseen = verdicts
  /\ jpc = "open" => jseen = IF jargs.resume THEN verdicts ELSE <<>>
  /\ jpc \in {"next", "judge", "append", "done"} /\ ~ jargs.resume => verdictsEnd = "whole"

\* The answers to judge are of cases without a verdict, and as in the file of the
\* answers none follows the one that completes its case.
JudgeWork ==
  /\ jpc # "idle" =>
       \A i \in DOMAIN jleft :
         /\ jleft[i].case \notin Completed(jseen)
         /\ jleft[i].answered => \A j \in DOMAIN jleft : i < j => jleft[j].case # jleft[i].case
  /\ jpc \in {"judge", "append"} => DOMAIN jleft # {}
  /\ jpc = "judge" => NextRow.answered
  /\ jpc = "append" =>
       /\ jrow \in VerdictRows
       /\ jrow.case = NextRow.case
       /\ jrow.status = "completed" => NextRow.answered
       /\ jrow.pass => NextRow.answered /\ NextRow.pass

\* What is still to be judged is in the file, unless that has started again.
Grounded ==
  /\ fresh => jfresh
  /\ jfresh =>
       \A i \in DOMAIN jleft : \E j \in DOMAIN answers : answers[j] = jleft[i]

JudgeInv ==
  JudgeTypes /\ JudgeSeen /\ JudgeWork /\ Closed(verdicts) /\ Grounded /\ PassesRestOnAnswers

IInv == QAInv /\ JudgeInv

----------------------------------------------------------------------------
(* The rows of a file.                                                     *)

LEMMA AppendFacts ==
  ASSUME NEW S, NEW rows \in Seq(S), NEW row \in S
  PROVE  /\ Append(rows, row) \in Seq(S)
         /\ Len(rows) \in Nat /\ Len(Append(rows, row)) = Len(rows) + 1
         /\ DOMAIN rows = 1..Len(rows)
         /\ DOMAIN Append(rows, row) = DOMAIN rows \cup {Len(rows) + 1}
         /\ Len(rows) + 1 \notin DOMAIN rows
         /\ Append(rows, row)[Len(rows) + 1] = row
         /\ \A i \in DOMAIN rows : Append(rows, row)[i] = rows[i]
OBVIOUS

LEMMA NoRows ==
  /\ DOMAIN <<>> = {} /\ Len(<<>>) = 0 /\ \A S : <<>> \in Seq(S)
OBVIOUS

LEMMA NoneDone ==
  /\ Completed(<<>>) = {} /\ Closed(<<>>)
  /\ \A c : CompletedRows(<<>>, c) = {}
BY NoRows DEF Completed, Closed, CompletedRows

LEMMA CompletedAppend ==
  ASSUME NEW S, NEW rows \in Seq(S), NEW row \in S
  PROVE  Completed(Append(rows, row))
           = Completed(rows) \cup (IF row.status = "completed" THEN {row.case} ELSE {})
<1> DEFINE new == Append(rows, row)
           n == Len(rows) + 1
<1>1. /\ DOMAIN new = DOMAIN rows \cup {n} /\ n \notin DOMAIN rows
      /\ new[n] = row /\ \A i \in DOMAIN rows : new[i] = rows[i]
  BY AppendFacts
<1> HIDE DEF new, n
<1>2. \A c : c \in Completed(new) <=>
              \/ c \in Completed(rows)
              \/ row.status = "completed" /\ c = row.case
  BY <1>1 DEF Completed
<1>3. QED
  BY <1>2 DEF new

LEMMA ClosedAppend ==
  ASSUME NEW S, NEW rows \in Seq(S), NEW row \in S, Closed(rows),
         row.case \notin Completed(rows)
  PROVE  Closed(Append(rows, row))
<1> DEFINE new == Append(rows, row)
           n == Len(rows) + 1
<1>1. /\ DOMAIN new = DOMAIN rows \cup {n} /\ n \notin DOMAIN rows
      /\ new[n] = row /\ \A i \in DOMAIN rows : new[i] = rows[i]
      /\ \A i \in DOMAIN rows : i \in Nat /\ i < n
      /\ n \in Nat
  BY AppendFacts
<1> HIDE DEF new, n
<1>2. SUFFICES ASSUME NEW i \in DOMAIN new, NEW j \in DOMAIN new,
                      i < j, new[i].status = "completed"
               PROVE  new[j].case # new[i].case
  BY DEF Closed, new
<1>3. i \in DOMAIN rows
  <2>1. i # n
    BY <1>1, <1>2
  <2>2. QED
    BY <1>1, <2>1
<1>4. CASE j = n
  BY <1>1, <1>2, <1>3, <1>4 DEF Completed
<1>5. CASE j # n
  BY <1>1, <1>2, <1>3, <1>5 DEF Closed
<1>6. QED
  BY <1>4, <1>5

\* A closed file completes no case twice.
LEMMA ClosedOnce ==
  ASSUME NEW S, NEW rows \in Seq(S), Closed(rows), NEW c
  PROVE  Cardinality(CompletedRows(rows, c)) <= 1
<1> DEFINE T == CompletedRows(rows, c)
<1>1. \A i \in DOMAIN rows : i \in Nat
  OBVIOUS
<1>2. \A i, j \in T : i = j
  BY <1>1 DEF CompletedRows, Closed
<1> HIDE DEF T
<1>3. CASE T = {}
  BY <1>3, FS_EmptySet DEF T
<1>4. CASE T # {}
  <2>1. PICK i \in T : T = {i}
    BY <1>2, <1>4
  <2>2. Cardinality({i}) = 1
    BY FS_Singleton
  <2>3. QED
    BY <2>1, <2>2 DEF T
<1>5. QED
  BY <1>3, <1>4

LEMMA DoneSinceAppend ==
  ASSUME NEW S, NEW rows \in Seq(S), NEW row \in S, NEW old \in Nat, old <= Len(rows)
  PROVE  DoneSince(rows, old) \cup {row.case} \subseteq DoneSince(Append(rows, row), old)
<1> DEFINE new == Append(rows, row)
           n == Len(rows) + 1
<1>1. /\ DOMAIN new = DOMAIN rows \cup {n}
      /\ new[n] = row /\ \A i \in DOMAIN rows : new[i] = rows[i]
      /\ n > old
  BY AppendFacts
<1> HIDE DEF new, n
<1>2. DoneSince(rows, old) \subseteq DoneSince(new, old)
  BY <1>1 DEF DoneSince
<1>3. row.case \in DoneSince(new, old)
  BY <1>1 DEF DoneSince
<1>4. QED
  BY <1>2, <1>3 DEF new

LEMMA CompletedIsDone ==
  ASSUME NEW rows, NEW old
  PROVE  Completed(rows) \subseteq DoneSince(rows, old)
BY DEF Completed, DoneSince

LEMMA EndType ==
  ASSUME NEW end \in Ends
  PROVE  EndAfter(end) \in Ends
BY DEF Ends, EndAfter

\* A crash leaves the file as it is or with the row that was being written.
LEMMA TornCases ==
  ASSUME NEW rows, NEW end \in Ends, NEW row, NEW left \in Torn(rows, end, row)
  PROVE  (left[1] = rows \/ left[1] = Append(rows, row)) /\ left[2] \in Ends
BY DEF Torn, Ends

----------------------------------------------------------------------------
(* What a session has still to do.                                         *)

LEMMA NatMin ==
  ASSUME NEW T, T \subseteq Nat, T # {}
  PROVE  \E x \in T : \A y \in T : x <= y
<1> DEFINE R == OpToRel(<, Nat)
<1>1. IsWellFoundedOn(R, Nat)
  BY NatLessThanWellFounded
<1>2. \A x, y \in Nat : y < x => <<y, x>> \in R
  BY DEF OpToRel
<1> HIDE DEF R
<1>3. \E x \in T : \A y \in T : ~ (<<y, x>> \in R)
  BY <1>1, WFMin
<1>4. PICK x \in T : \A y \in T : ~ (<<y, x>> \in R)
  BY <1>3, Zenon
<1>5. \A y \in T : ~ (y < x)
  BY <1>2, <1>4
<1>6. \A y \in T : x <= y
  BY <1>5
<1>7. QED
  BY <1>6

LEMMA MinIsLeast ==
  ASSUME NEW T, T \subseteq Nat, T # {}
  PROVE  Min(T) \in T /\ \A y \in T : Min(T) <= y
<1>1. \E x \in T : \A y \in T : x <= y
  BY NatMin
<1>2. QED
  BY <1>1 DEF Min

\* All cases are among the first NCases of them.
LEMMA FirstOfAll ==
  ASSUME NEW S, S \subseteq Cases, NEW n \in Nat, n >= NCases
  PROVE  FirstOf(n, S) = S
<1> SUFFICES ASSUME NEW x \in S
             PROVE  Cardinality({y \in S : y < x}) < n
  BY DEF FirstOf
<1> DEFINE B == {y \in S : y < x}
<1>1. NCases \in Nat /\ x \in 1..NCases
  BY ManualQAAssumption DEF Cases
<1>2. B \subseteq 1..(x - 1)
  <2>1. \A y \in S : y \in Int /\ 1 <= y
    BY <1>1 DEF Cases
  <2>2. x \in Int
    BY <1>1
  <2>3. \A y \in Int : 1 <= y /\ y < x => y \in 1..(x - 1)
    BY <2>2
  <2>4. QED
    BY <2>1, <2>3
<1> HIDE DEF B
<1>3. 1 \in Int /\ x - 1 \in Int /\ x - 1 >= 0
  BY <1>1
<1>4. IsFiniteSet(1..(x - 1)) /\ Cardinality(1..(x - 1)) = x - 1
  <2>1. /\ IsFiniteSet(1..(x - 1))
        /\ Cardinality(1..(x - 1)) = IF 1 > x - 1 THEN 0 ELSE (x - 1) - 1 + 1
    BY <1>3, FS_Interval
  <2>2. QED
    BY <1>3, <2>1
<1>5. IsFiniteSet(B) /\ Cardinality(B) <= x - 1
  BY <1>2, <1>4, FS_Subset
<1>6. Cardinality(B) \in Nat
  BY <1>5, FS_CardinalityType
<1>7. Cardinality(B) < n
  BY <1>1, <1>3, <1>5, <1>6
<1>8. QED
  BY <1>7 DEF B

LEMMA FirstOfSome == \A n, S : FirstOf(n, S) \subseteq S
BY DEF FirstOf

LEMMA CasesAreNumbers == Cases \subseteq Nat
BY ManualQAAssumption DEF Cases

----------------------------------------------------------------------------
(* The sessions of the answers.                                            *)

LEMMA QAInitInv == QAInit => QAInv
<1> SUFFICES ASSUME QAInit
             PROVE  QAInv
  OBVIOUS
<1>1. QATypes
  <2>1. answers \in Seq(AnswerRows) /\ qseen \in Seq(AnswerRows) /\ Len(qseen) = 0
    BY NoRows DEF QAInit
  <2>2. qargs \in QAArg
    BY DEF QAInit, NoQAArg, QAArg
  <2>3. qtries \in 0..RetryAttempts - 1
    BY ManualQAAssumption DEF QAInit
  <2>4. QED
    BY <2>1, <2>2, <2>3 DEF QATypes, QAInit, Ends
<1>2. QASeen /\ QAWork /\ Closed(answers)
  BY NoneDone DEF QAInit, QASeen, QAWork
<1>3. QED
  BY <1>1, <1>2 DEF QAInv

LEMMA QAStartInv ==
  ASSUME QAInv, QAStart
  PROVE  QAInv'
<1>1. PICK args \in QAArgs :
        LET loaded == IF args.resume THEN answers ELSE <<>> IN
        /\ qargs' = args
        /\ qleft' = Selected(Completed(loaded), args.start, args.limit)
        /\ qseen' = loaded /\ qold' = Len(loaded)
        /\ qpc' = "open"
        /\ UNCHANGED <<file, qtries, qrow>>
  BY DEF QAStart
<1> DEFINE loaded == IF args.resume THEN answers ELSE <<>>
           open   == {c \in Cases : c > args.start} \ Completed(loaded)
<1>2. QATypes /\ Closed(answers)
  BY DEF QAInv
<1>3. args \in QAArg /\ args.limit \in Nat /\ args.start \in Nat
  BY ManualQAAssumption DEF QAArg
<1>4. loaded \in Seq(AnswerRows) /\ Len(loaded) \in Nat
  BY <1>2, NoRows DEF QATypes
<1>5. /\ qargs' = args /\ qleft' = FirstOf(args.limit, open)
      /\ qseen' = loaded /\ qold' = Len(loaded) /\ qpc' = "open"
      /\ answers' = answers /\ answersEnd' = answersEnd /\ qtries' = qtries
  BY <1>1 DEF file, Selected
<1>6. QASeen'
  BY <1>5 DEF QASeen
<1> HIDE DEF loaded
<1>7. qleft' \subseteq Cases /\ qleft' \cap Completed(loaded) = {}
  BY <1>5, FirstOfSome
<1>8. QATypes'
  BY <1>2, <1>3, <1>4, <1>5, <1>7 DEF QATypes
<1>9. args.start = 0 /\ args.limit >= NCases =>
        Cases \subseteq qleft' \cup DoneSince(loaded, Len(loaded))
  <2> SUFFICES ASSUME args.start = 0, args.limit >= NCases
               PROVE  Cases \subseteq qleft' \cup DoneSince(loaded, Len(loaded))
    OBVIOUS
  <2>1. \A c \in Cases : c > 0
    BY DEF Cases
  <2>2. open = Cases \ Completed(loaded)
    BY <2>1
  <2>3. open \subseteq Cases
    OBVIOUS
  <2>4. FirstOf(args.limit, open) = open
    BY <1>3, <2>3, FirstOfAll
  <2>5. Completed(loaded) \subseteq DoneSince(loaded, Len(loaded))
    BY CompletedIsDone
  <2>6. QED
    BY <1>5, <2>2, <2>4, <2>5
<1>10. QAWork'
  BY <1>5, <1>7, <1>9 DEF QAWork
<1>11. Closed(answers)'
  BY <1>2, <1>5
<1>12. QED
  BY <1>6, <1>8, <1>10, <1>11 DEF QAInv

LEMMA QAOpenInv ==
  ASSUME QAInv, QAOpen
  PROVE  QAInv'
<1>1. QATypes /\ QASeen /\ QAWork /\ Closed(answers)
  BY DEF QAInv
<1>2. /\ qpc = "open" /\ qpc' = "next"
      /\ UNCHANGED <<qargs, qleft, qtries, qrow, qseen, qold>>
  BY DEF QAOpen
<1>3. \/ qargs.resume /\ answers' = answers /\ answersEnd' = answersEnd
      \/ ~ qargs.resume /\ answers' = <<>> /\ answersEnd' = "whole"
  BY DEF QAOpen, file
<1>4. answers' = qseen
  BY <1>1, <1>2, <1>3 DEF QASeen
<1>5. QATypes'
  BY <1>1, <1>2, <1>3, <1>4 DEF QATypes, Ends
<1>6. QASeen'
  BY <1>2, <1>3, <1>4 DEF QASeen
<1>7. QAWork'
  BY <1>1, <1>2 DEF QAWork
<1>8. Closed(answers)'
  BY <1>1, <1>3, NoneDone
<1>9. QED
  BY <1>5, <1>6, <1>7, <1>8 DEF QAInv

LEMMA RowTypes ==
  ASSUME NEW c \in Cases
  PROVE  /\ DryRow(c) \in AnswerRows /\ DryRow(c).case = c
         /\ ErrorRow(c) \in AnswerRows /\ ErrorRow(c).case = c
         /\ \A args : \A row \in VertexRows(c, args) : row \in AnswerRows /\ row.case = c
<1>1. \A cited : \A given : ContractPass(c, cited, given) \in BOOLEAN
  BY DEF ContractPass
<1>2. \A answered, pass \in BOOLEAN :
        /\ AnswerRow(c, "completed", answered, pass) \in AnswerRows
        /\ AnswerRow(c, "completed", answered, pass).case = c
  BY DEF AnswerRow, AnswerRows
<1>3. AnswerRow(c, "provider_error", FALSE, FALSE) \in AnswerRows
      /\ AnswerRow(c, "provider_error", FALSE, FALSE).case = c
  BY DEF AnswerRow, AnswerRows
<1>4. ASSUME NEW args, NEW row \in VertexRows(c, args)
      PROVE  row \in AnswerRows /\ row.case = c
  <2>1. \/ row = AnswerRow(c, "completed", FALSE, FALSE)
        \/ row = AnswerRow(c, "completed", TRUE, FALSE)
        \/ \E cited \in Citations :
             row = AnswerRow(c, "completed", TRUE, ContractPass(c, cited, Given(c, args)))
    BY DEF VertexRows
  <2>2. QED
    BY <1>1, <1>2, <2>1
<1>5. QED
  BY <1>2, <1>3, <1>4 DEF DryRow, ErrorRow

\* A step within a case: what is known and what is left stay.
LEMMA QACaseInv ==
  ASSUME QAInv, QARetrieve \/ QAAnswer \/ QARetry \/ QACallFails
  PROVE  QAInv'
<1>1. QATypes /\ QASeen /\ QAWork /\ Closed(answers)
  BY DEF QAInv
<1>2. /\ UNCHANGED <<answers, answersEnd, qargs, qleft, qseen, qold>>
      /\ qpc \in {"next", "call"} /\ qpc' \in {"call", "append"} /\ qleft # {}
      /\ qtries' = qtries \/ (qtries + 1 < RetryAttempts /\ qtries' = qtries + 1)
  <2>1. CASE QARetrieve
    BY <2>1 DEF QARetrieve, file
  <2>2. CASE QAAnswer
    BY <1>1, <2>2 DEF QAAnswer, file, QAWork
  <2>3. CASE QARetry
    BY <1>1, <2>3 DEF QARetry, file, QAWork
  <2>4. CASE QACallFails
    BY <1>1, <2>4 DEF QACallFails, file, QAWork
  <2>5. QED
    BY <2>1, <2>2, <2>3, <2>4
<1>3. Min(qleft) \in qleft /\ Min(qleft) \in Cases
  BY <1>1, <1>2, CasesAreNumbers, MinIsLeast DEF QATypes
<1>4. qpc' = "append" => qrow' \in AnswerRows /\ qrow'.case = Min(qleft)
  BY <1>2, <1>3, RowTypes DEF QARetrieve, QAAnswer, QARetry, QACallFails
<1>5. qtries' \in 0..RetryAttempts - 1
  BY <1>1, <1>2, ManualQAAssumption DEF QATypes
<1>6. QATypes'
  BY <1>1, <1>2, <1>5 DEF QATypes
<1>7. QASeen'
  BY <1>1, <1>2 DEF QASeen
<1>8. QAWork'
  BY <1>1, <1>2, <1>4 DEF QAWork
<1>9. QED
  BY <1>1, <1>2, <1>6, <1>7, <1>8 DEF QAInv

LEMMA QAAppendInv ==
  ASSUME QAInv, QAAppend
  PROVE  QAInv'
<1> DEFINE c == Min(qleft)
<1>1. QATypes /\ QASeen /\ QAWork /\ Closed(answers)
  BY DEF QAInv
<1>2. /\ qpc = "append" /\ qpc' \in {"idle", "next"}
      /\ answers' = Append(answers, qrow) /\ answersEnd' = EndAfter(answersEnd)
      /\ qseen' = Append(qseen, qrow) /\ qleft' = qleft \ {c}
      /\ qtries' = 0 /\ qargs' = qargs /\ qold' = qold
  BY DEF QAAppend
<1>3. qrow \in AnswerRows /\ qrow.case = c /\ qseen = answers
      /\ qleft \cap Completed(qseen) = {} /\ qleft # {}
  BY <1>1, <1>2 DEF QAWork, QASeen
<1>4. c \in qleft /\ c \in Cases
  BY <1>1, <1>3, CasesAreNumbers, MinIsLeast DEF QATypes
<1> HIDE DEF c
<1>5. /\ answers \in Seq(AnswerRows) /\ qseen \in Seq(AnswerRows)
      /\ qold \in Nat /\ qold <= Len(qseen) /\ answersEnd \in Ends
  BY <1>1 DEF QATypes
<1>6. QATypes'
  <2>1. answers' \in Seq(AnswerRows) /\ qseen' \in Seq(AnswerRows)
    BY <1>2, <1>3, <1>5, AppendFacts
  <2>2. qold <= Len(qseen')
    BY <1>2, <1>3, <1>5, AppendFacts
  <2>3. 0 \in 0..RetryAttempts - 1
    BY ManualQAAssumption
  <2>4. answersEnd' \in Ends
    BY <1>2, <1>5, EndType
  <2>5. QED
    BY <1>1, <1>2, <2>1, <2>2, <2>3, <2>4 DEF QATypes
<1>7. QASeen'
  BY <1>1, <1>2, <1>3 DEF QASeen, EndAfter
<1>8. Completed(qseen') \subseteq Completed(qseen) \cup {c}
  BY <1>2, <1>3, <1>5, CompletedAppend
<1>9. DoneSince(qseen, qold) \cup {c} \subseteq DoneSince(qseen', qold)
  BY <1>2, <1>3, <1>5, DoneSinceAppend
<1>10. QAWork'
  <2>1. qleft' \cap Completed(qseen') = {}
    BY <1>2, <1>3, <1>8
  <2>2. qargs.start = 0 /\ qargs.limit >= NCases =>
          Cases \subseteq qleft' \cup DoneSince(qseen', qold)
    BY <1>1, <1>2, <1>9 DEF QAWork
  <2>3. QED
    BY <1>2, <2>1, <2>2 DEF QAWork
<1>11. Closed(answers)'
  <2>1. qrow.case \notin Completed(answers)
    BY <1>3, <1>4
  <2>2. QED
    BY <1>1, <1>2, <1>3, <1>5, <2>1, ClosedAppend
<1>12. QED
  BY <1>6, <1>7, <1>10, <1>11 DEF QAInv

LEMMA QADoneInv ==
  ASSUME QAInv, QADone
  PROVE  QAInv'
<1>1. /\ qpc = "next" /\ qleft = {} /\ qpc' = "done"
      /\ UNCHANGED <<answers, answersEnd, qargs, qleft, qtries, qrow, qseen, qold>>
  BY DEF QADone, file
<1>2. QED
  BY <1>1 DEF QAInv, QATypes, QASeen, QAWork

LEMMA QAStopsInv ==
  ASSUME QAInv, QAStops
  PROVE  QAInv'
<1>1. QATypes /\ QASeen /\ QAWork /\ Closed(answers)
  BY DEF QAInv
<1>2. /\ qpc' = "idle" /\ qleft' = {} /\ qtries' = 0 /\ qseen' = <<>> /\ qold' = 0
      /\ qargs' = qargs
  BY DEF QAStops
<1>3. /\ answers' \in Seq(AnswerRows) /\ answersEnd' \in Ends /\ Closed(answers')
  <2>1. CASE qpc # "append"
    BY <1>1, <2>1 DEF QAStops, file, QATypes
  <2>2. CASE qpc = "append"
    <3>1. PICK left \in Torn(answers, answersEnd, qrow) :
            answers' = left[1] /\ answersEnd' = left[2]
      BY <2>2 DEF QAStops
    <3>2. answersEnd \in Ends /\ answers \in Seq(AnswerRows)
      BY <1>1 DEF QATypes
    <3>3. (answers' = answers \/ answers' = Append(answers, qrow)) /\ answersEnd' \in Ends
      BY <3>1, <3>2, TornCases
    <3>4. qrow \in AnswerRows /\ qrow.case \in qleft
      BY <1>1, <2>2, CasesAreNumbers, MinIsLeast DEF QAWork, QATypes
    <3>5. qrow.case \notin Completed(answers)
      BY <1>1, <2>2, <3>4 DEF QAWork, QASeen
    <3>6. Append(answers, qrow) \in Seq(AnswerRows) /\ Closed(Append(answers, qrow))
      BY <1>1, <3>2, <3>4, <3>5, AppendFacts, ClosedAppend
    <3>7. QED
      BY <1>1, <3>2, <3>3, <3>6
  <2>3. QED
    BY <2>1, <2>2
<1>4. QATypes'
  BY <1>1, <1>2, <1>3, NoRows, ManualQAAssumption DEF QATypes
<1>5. QASeen' /\ QAWork'
  BY <1>2 DEF QASeen, QAWork
<1>6. QED
  BY <1>3, <1>4, <1>5 DEF QAInv

LEMMA QANextInv ==
  ASSUME QAInv, QAStart \/ QAStep \/ QAStops \/ UNCHANGED qvars
  PROVE  QAInv'
<1>1. CASE UNCHANGED qvars
  BY <1>1 DEF qvars, file, QAInv, QATypes, QASeen, QAWork
<1>2. QED
  BY <1>1, QAStartInv, QAOpenInv, QACaseInv, QAAppendInv, QADoneInv, QAStopsInv DEF QAStep

----------------------------------------------------------------------------
(* The sessions of the judge.                                              *)

LEMMA PendingFacts ==
  /\ \A f \in Pending : /\ DOMAIN f \subseteq Places
                        /\ \A i \in DOMAIN f : f[i] \in AnswerRows
  /\ \A S \in SUBSET Places : [S -> AnswerRows] \subseteq Pending
BY DEF Pending

LEMMA NothingPending == <<>> \in Pending
<1>1. <<>> \in [{} -> AnswerRows]
  OBVIOUS
<1>2. QED
  BY <1>1 DEF Pending

LEMMA NoCallType == NoCall \in [failed : 0..ProviderLimit - 1, unreadable : 0..JSONLimit - 1]
BY QAJudgeAssumption DEF NoCall

LEMMA JudgeInitInv == Init => JudgeInv
<1> SUFFICES ASSUME QAInit, JudgeInit, ~ jfresh, ~ fresh
             PROVE  JudgeInv
  BY DEF Init
<1>1. JudgeTypes
  <2>1. verdicts \in Seq(VerdictRows) /\ jseen \in Seq(VerdictRows) /\ Len(jseen) = 0
        /\ jruns \in Seq([scored : BOOLEAN, fields : SUBSET Fields]) /\ Len(jruns) = 0
    BY NoRows DEF JudgeInit
  <2>2. jargs \in [resume : BOOLEAN, dry : BOOLEAN, start : Nat, limit : Nat, failFast : BOOLEAN]
    BY DEF JudgeInit
  <2>3. JudgeRuns \in Nat
    BY QAJudgeAssumption
  <2>4. QED
    BY <2>1, <2>2, <2>3, NoCallType, NothingPending DEF JudgeTypes, JudgeInit, Ends
<1>2. JudgeSeen /\ JudgeWork
  BY DEF JudgeInit, JudgeSeen, JudgeWork
<1>3. Closed(verdicts)
  BY NoneDone DEF JudgeInit
<1>4. Grounded /\ PassesRestOnAnswers
  BY DEF Grounded, PassesRestOnAnswers
<1>5. QED
  BY <1>1, <1>2, <1>3, <1>4 DEF JudgeInv

\* The next row is the first of those left.
LEMMA NextRowFacts ==
  ASSUME JudgeTypes, DOMAIN jleft # {}
  PROVE  /\ Min(DOMAIN jleft) \in DOMAIN jleft
         /\ \A i \in DOMAIN jleft : i \in Nat /\ Min(DOMAIN jleft) <= i
         /\ NextRow \in AnswerRows
<1>1. DOMAIN jleft \subseteq Nat /\ \A i \in DOMAIN jleft : jleft[i] \in AnswerRows
  BY PendingFacts DEF JudgeTypes, Places
<1>2. QED
  BY <1>1, MinIsLeast DEF NextRow

LEMMA JudgeStartInv ==
  ASSUME QAInv, JudgeInv, JudgeStart, jfresh', UNCHANGED <<qvars, fresh>>
  PROVE  JudgeInv'
<1>1. PICK args \in JudgeArgs :
        LET loaded == IF args.resume THEN verdicts ELSE <<>>
            open   == {i \in DOMAIN answers :
                         i > args.start /\ answers[i].case \notin Completed(loaded)}
        IN
        /\ jargs' = args
        /\ jleft' = [i \in FirstOf(args.limit, open) |-> answers[i]]
        /\ jseen' = loaded /\ jold' = Len(loaded)
        /\ jpc' = "open"
        /\ UNCHANGED <<judgeFile, jruns, jcalls, jrow>>
  BY DEF JudgeStart
<1> DEFINE loaded == IF args.resume THEN verdicts ELSE <<>>
           open   == {i \in DOMAIN answers :
                        i > args.start /\ answers[i].case \notin Completed(loaded)}
           picked == FirstOf(args.limit, open)
<1>2. JudgeTypes /\ Closed(verdicts) /\ Grounded /\ PassesRestOnAnswers /\ QATypes /\ Closed(answers)
  BY DEF JudgeInv, QAInv
<1>3. args \in [resume : BOOLEAN, dry : BOOLEAN, start : Nat, limit : Nat, failFast : BOOLEAN]
  BY QAJudgeAssumption
<1>4. loaded \in Seq(VerdictRows) /\ Len(loaded) \in Nat
  BY <1>2, NoRows DEF JudgeTypes
<1>5. /\ jargs' = args /\ jleft' = [i \in picked |-> answers[i]]
      /\ jseen' = loaded /\ jold' = Len(loaded) /\ jpc' = "open"
      /\ UNCHANGED <<verdicts, verdictsEnd, jruns, jcalls, answers>>
  BY <1>1 DEF judgeFile, qvars, file
<1>6. JudgeSeen'
  BY <1>5 DEF JudgeSeen
<1>7. /\ DOMAIN answers \subseteq Places
      /\ \A i \in DOMAIN answers : i \in Nat /\ answers[i] \in AnswerRows
  BY <1>2 DEF QATypes, Places
<1> HIDE DEF loaded
<1>8. /\ picked \subseteq DOMAIN answers
      /\ \A i \in picked : answers[i].case \notin Completed(loaded)
  BY FirstOfSome
<1> HIDE DEF open, picked
<1>9. /\ DOMAIN jleft' = picked /\ \A i \in picked : jleft'[i] = answers[i]
  BY <1>5
<1>10. jleft' \in Pending
  <2>1. picked \in SUBSET Places
    BY <1>7, <1>8
  <2>2. jleft' \in [picked -> AnswerRows]
    BY <1>5, <1>7, <1>8
  <2>3. QED
    BY <2>1, <2>2, PendingFacts
<1>11. JudgeTypes'
  BY <1>2, <1>3, <1>4, <1>5, <1>10 DEF JudgeTypes
<1>12. JudgeWork'
  <2>1. \A i \in picked : answers[i].answered => answers[i].status = "completed"
    BY <1>7, <1>8 DEF AnswerRows
  <2>2. \A i, j \in picked : i < j /\ answers[i].answered => answers[j].case # answers[i].case
    BY <1>2, <1>8, <2>1 DEF Closed
  <2>3. QED
    BY <1>5, <1>8, <1>9, <2>2 DEF JudgeWork
<1>13. Grounded' /\ PassesRestOnAnswers'
  <2>1. \A i \in DOMAIN jleft' : answers[i] = jleft'[i] /\ i \in DOMAIN answers
    BY <1>8, <1>9
  <2>2. QED
    BY <1>2, <1>5, <2>1 DEF Grounded, PassesRestOnAnswers
<1>14. QED
  BY <1>2, <1>5, <1>6, <1>11, <1>12, <1>13 DEF JudgeInv

LEMMA JudgeOpenInv ==
  ASSUME JudgeInv, JudgeOpen, UNCHANGED <<qvars, jfresh>>,
         fresh' = IF ~ jargs.resume \/ verdicts = <<>> THEN jfresh ELSE fresh
  PROVE  JudgeInv'
<1>1. /\ JudgeTypes /\ JudgeSeen /\ JudgeWork /\ Closed(verdicts)
      /\ Grounded /\ PassesRestOnAnswers
  BY DEF JudgeInv
<1>2. /\ jpc = "open" /\ jpc' = "next"
      /\ UNCHANGED <<jargs, jleft, jruns, jcalls, jrow, jseen, jold>>
      /\ UNCHANGED <<answers, jfresh>>
  BY DEF JudgeOpen, qvars, file
<1>3. \/ jargs.resume /\ verdicts' = verdicts /\ verdictsEnd' = verdictsEnd
      \/ ~ jargs.resume /\ verdicts' = <<>> /\ verdictsEnd' = "whole"
  BY DEF JudgeOpen, judgeFile
<1>4. verdicts' = jseen
  BY <1>1, <1>2, <1>3 DEF JudgeSeen
<1>5. JudgeTypes'
  BY <1>1, <1>2, <1>3, <1>4 DEF JudgeTypes, Ends
<1>6. JudgeSeen' /\ JudgeWork'
  BY <1>1, <1>2, <1>3, <1>4 DEF JudgeSeen, JudgeWork, NextRow
<1>7. Closed(verdicts)' /\ Grounded' /\ PassesRestOnAnswers'
  <2>1. CASE fresh' = fresh /\ verdicts' = verdicts
    BY <1>1, <1>2, <2>1 DEF Grounded, PassesRestOnAnswers
  <2>2. CASE fresh' = jfresh /\ verdicts' = <<>>
    <3>1. DOMAIN verdicts' = {} /\ Closed(verdicts')
      BY <2>2, NoRows, NoneDone
    <3>2. QED
      BY <1>1, <1>2, <2>2, <3>1 DEF Grounded, PassesRestOnAnswers
  <2>3. QED
    BY <1>3, <2>1, <2>2
<1>8. QED
  BY <1>5, <1>6, <1>7 DEF JudgeInv

\* A step within a case keeps the file, what is left, and what is known.
LEMMA JudgeCaseStep ==
  ASSUME JudgeInv, DOMAIN jleft # {}, jpc \in {"next", "judge"}, jpc' \in {"judge", "append"},
         UNCHANGED <<judgeFile, jargs, jleft, jseen, jold, qvars, jfresh, fresh>>,
         jruns' \in Seq([scored : BOOLEAN, fields : SUBSET Fields]), Len(jruns') <= JudgeRuns,
         jcalls' \in [failed : 0..ProviderLimit - 1, unreadable : 0..JSONLimit - 1],
         jpc' = "judge" => NextRow.answered,
         jpc' = "append" =>
           /\ jrow' \in VerdictRows
           /\ jrow'.case = NextRow.case
           /\ jrow'.status = "completed" => NextRow.answered
           /\ jrow'.pass => NextRow.answered /\ NextRow.pass
  PROVE  JudgeInv'
<1>1. /\ JudgeTypes /\ JudgeSeen /\ JudgeWork /\ Closed(verdicts)
      /\ Grounded /\ PassesRestOnAnswers
  BY DEF JudgeInv
<1>2. UNCHANGED <<verdicts, verdictsEnd, answers>> /\ NextRow' = NextRow
  BY DEF judgeFile, qvars, file, NextRow
<1>3. JudgeTypes'
  BY <1>1, <1>2 DEF JudgeTypes
<1>4. JudgeSeen'
  BY <1>1, <1>2 DEF JudgeSeen
<1>5. JudgeWork'
  BY <1>1, <1>2 DEF JudgeWork
<1>6. Closed(verdicts)' /\ Grounded' /\ PassesRestOnAnswers'
  BY <1>1, <1>2 DEF Grounded, PassesRestOnAnswers
<1>7. QED
  BY <1>3, <1>4, <1>5, <1>6 DEF JudgeInv

LEMMA VerdictRowType ==
  ASSUME JudgeTypes, NEW c \in Cases, NEW pass \in BOOLEAN,
         NEW status \in {"completed", "mapping_error", "judge_error"}
  PROVE  /\ VerdictRow(c, status, pass) \in VerdictRows
         /\ VerdictRow(c, status, pass).case = c
         /\ VerdictRow(c, status, pass).status = status
         /\ VerdictRow(c, status, pass).pass = pass
BY DEF VerdictRow, VerdictRows, JudgeTypes

LEMMA JudgeMapInv ==
  ASSUME JudgeInv, JudgeMap, UNCHANGED <<qvars, jfresh, fresh>>
  PROVE  JudgeInv'
<1>1. JudgeTypes
  BY DEF JudgeInv
<1>2. /\ jpc = "next" /\ DOMAIN jleft # {}
      /\ UNCHANGED <<judgeFile, jargs, jleft, jruns, jcalls, jseen, jold>>
      /\ \/ jpc' = "judge" /\ NextRow.answered
         \/ /\ jpc' = "append"
            /\ \/ jrow' = VerdictRow(NextRow.case, "mapping_error", FALSE)
               \/ jrow' = VerdictRow(NextRow.case, "completed", FALSE) /\ NextRow.answered
  BY DEF JudgeMap
<1>3. NextRow \in AnswerRows /\ NextRow.case \in Cases
  BY <1>1, <1>2, NextRowFacts DEF AnswerRows
<1>4. jruns \in Seq([scored : BOOLEAN, fields : SUBSET Fields]) /\ Len(jruns) <= JudgeRuns
      /\ jcalls \in [failed : 0..ProviderLimit - 1, unreadable : 0..JSONLimit - 1]
  BY <1>1 DEF JudgeTypes
<1>5. CASE jpc' = "judge"
  BY <1>2, <1>4, <1>5, JudgeCaseStep
<1>6. CASE jpc' = "append"
  <2>1. PICK status \in {"completed", "mapping_error", "judge_error"} :
          /\ jrow' = VerdictRow(NextRow.case, status, FALSE)
          /\ status = "completed" => NextRow.answered
    BY <1>2, <1>6
  <2>2. /\ jrow' \in VerdictRows /\ jrow'.case = NextRow.case
        /\ jrow'.status = status /\ ~ jrow'.pass
    BY <1>3, <2>1 DEF VerdictRow, VerdictRows
  <2>3. QED
    BY <1>2, <1>4, <1>6, <2>1, <2>2, JudgeCaseStep
<1>7. QED
  BY <1>2, <1>5, <1>6

\* The counts of a run stay below their limits.
LEMMA JudgeRunInv ==
  ASSUME JudgeInv, JudgeScores \/ JudgeUnreadable \/ JudgeCallFails \/ JudgeRetry,
         UNCHANGED <<qvars, jfresh, fresh>>
  PROVE  JudgeInv'
<1>1. JudgeTypes /\ JudgeWork
  BY DEF JudgeInv
<1> DEFINE Run  == [scored : BOOLEAN, fields : SUBSET Fields]
           Call == [failed : 0..ProviderLimit - 1, unreadable : 0..JSONLimit - 1]
<1>2. jruns \in Seq(Run) /\ Len(jruns) \in Nat /\ jcalls \in Call /\ JudgeRuns \in Nat
  BY <1>1, QAJudgeAssumption DEF JudgeTypes
<1>3. ASSUME NEW run \in Run, RunEnds(run)
      PROVE  JudgeInv'
  <2>1. /\ jpc = "judge" /\ jpc' = "judge" /\ Len(jruns) < JudgeRuns
        /\ jruns' = Append(jruns, run) /\ jcalls' = NoCall
        /\ UNCHANGED <<judgeFile, jargs, jleft, jrow, jseen, jold>>
    BY <1>3 DEF RunEnds
  <2>2. jruns' \in Seq(Run) /\ Len(jruns') = Len(jruns) + 1
    BY <1>2, <2>1, AppendFacts
  <2>3. Len(jruns') <= JudgeRuns
    BY <1>2, <2>1, <2>2
  <2>4. NextRow.answered /\ DOMAIN jleft # {}
    BY <1>1, <2>1 DEF JudgeWork
  <2>5. QED
    BY <2>1, <2>2, <2>3, <2>4, NoCallType, JudgeCaseStep
<1>4. ASSUME jpc = "judge", jpc' = "judge", jcalls' \in Call,
             UNCHANGED <<judgeFile, jargs, jleft, jruns, jrow, jseen, jold>>
      PROVE  JudgeInv'
  <2>1. NextRow.answered /\ DOMAIN jleft # {}
    BY <1>1, <1>4 DEF JudgeWork
  <2>2. Len(jruns') <= JudgeRuns /\ jruns' \in Seq(Run)
    BY <1>1, <1>4 DEF JudgeTypes
  <2>3. QED
    BY <1>4, <2>1, <2>2, JudgeCaseStep
<1>5. CASE JudgeScores
  <2>1. PICK fields \in SUBSET Fields : RunEnds([scored |-> TRUE, fields |-> fields])
    BY <1>5 DEF JudgeScores
  <2>2. QED
    BY <1>3, <2>1
<1>6. NoRun \in Run
  BY DEF NoRun
<1>7. CASE JudgeCallFails
  BY <1>3, <1>6, <1>7 DEF JudgeCallFails
<1>8. CASE JudgeUnreadable
  <2>1. CASE jcalls.unreadable + 1 >= JSONLimit
    BY <1>3, <1>6, <1>8, <2>1 DEF JudgeUnreadable
  <2>2. CASE ~ (jcalls.unreadable + 1 >= JSONLimit)
    <3>1. /\ jpc = "judge" /\ jpc' = "judge"
          /\ jcalls' = [jcalls EXCEPT !.unreadable = @ + 1]
          /\ UNCHANGED <<judgeFile, jargs, jleft, jruns, jrow, jseen, jold>>
      BY <1>8, <2>2 DEF JudgeUnreadable
    <3>2. jcalls.unreadable + 1 \in 0..JSONLimit - 1
      BY <1>2, <2>2, QAJudgeAssumption
    <3>3. jcalls' \in Call
      BY <1>2, <3>1, <3>2
    <3>4. QED
      BY <1>4, <3>1, <3>3
  <2>3. QED
    BY <2>1, <2>2
<1>9. CASE JudgeRetry
  <2>1. /\ jpc = "judge" /\ jpc' = "judge" /\ jcalls.failed + 1 < ProviderLimit
        /\ jcalls' = [jcalls EXCEPT !.failed = @ + 1]
        /\ UNCHANGED <<judgeFile, jargs, jleft, jruns, jrow, jseen, jold>>
    BY <1>9 DEF JudgeRetry
  <2>2. jcalls.failed + 1 \in 0..ProviderLimit - 1
    BY <1>2, <2>1, QAJudgeAssumption
  <2>3. jcalls' \in Call
    BY <1>2, <2>1, <2>2
  <2>4. QED
    BY <1>4, <2>1, <2>3
<1>10. QED
  BY <1>5, <1>7, <1>8, <1>9

\* A verdict passes no answer that broke the contract.
LEMMA JudgeVerdictInv ==
  ASSUME JudgeInv, JudgeVerdict \/ JudgeRaises, UNCHANGED <<qvars, jfresh, fresh>>
  PROVE  JudgeInv'
<1>1. JudgeTypes /\ JudgeWork
  BY DEF JudgeInv
<1>2. /\ jpc = "judge" /\ jpc' = "append"
      /\ UNCHANGED <<judgeFile, jargs, jleft, jruns, jcalls, jseen, jold>>
      /\ jrow' = Verdict(NextRow) \/ jrow' = VerdictRow(NextRow.case, "judge_error", FALSE)
  BY DEF JudgeVerdict, JudgeRaises
<1>3. NextRow.answered /\ DOMAIN jleft # {}
  BY <1>1, <1>2 DEF JudgeWork
<1>4. NextRow.case \in Cases /\ NextRow.pass \in BOOLEAN
  BY <1>1, <1>3, NextRowFacts DEF AnswerRows
<1>5. \E status \in {"completed", "mapping_error", "judge_error"}, pass \in BOOLEAN :
        jrow' = VerdictRow(NextRow.case, status, pass) /\ (pass => NextRow.pass)
  <2> DEFINE votes == \A f \in Fields : Holds(f)
  <2>1. (NextRow.pass /\ votes) \in BOOLEAN
    OBVIOUS
  <2>2. CASE jrow' = VerdictRow(NextRow.case, "judge_error", FALSE)
    BY <2>2
  <2>3. CASE jrow' = VerdictRow(NextRow.case, "completed", NextRow.pass /\ votes)
    <3> DEFINE pass == NextRow.pass /\ votes
    <3>1. pass \in BOOLEAN /\ (pass => NextRow.pass)
      OBVIOUS
    <3> HIDE DEF pass
    <3>2. jrow' = VerdictRow(NextRow.case, "completed", pass)
      BY <2>3 DEF pass
    <3>3. QED
      BY <3>1, <3>2
  <2>4. QED
    BY <1>2, <2>2, <2>3 DEF Verdict
<1>6. PICK status \in {"completed", "mapping_error", "judge_error"}, pass \in BOOLEAN :
        jrow' = VerdictRow(NextRow.case, status, pass) /\ (pass => NextRow.pass)
  BY <1>5
<1>7. /\ jrow' \in VerdictRows /\ jrow'.case = NextRow.case
      /\ jrow'.pass = pass
  BY <1>1, <1>4, <1>6, VerdictRowType
<1>8. jruns' \in Seq([scored : BOOLEAN, fields : SUBSET Fields]) /\ Len(jruns') <= JudgeRuns
      /\ jcalls' \in [failed : 0..ProviderLimit - 1, unreadable : 0..JSONLimit - 1]
  BY <1>1, <1>2 DEF JudgeTypes
<1>9. QED
  BY <1>2, <1>3, <1>6, <1>7, <1>8, JudgeCaseStep

\* The row that is written completes no case that is complete already, and passes
\* only what is in the file that was read.
LEMMA RowWritten ==
  ASSUME JudgeInv, jpc = "append", NEW rows, rows = Append(verdicts, jrow)
  PROVE  /\ rows \in Seq(VerdictRows) /\ Closed(rows)
         /\ fresh => \A i \in DOMAIN rows : rows[i].pass =>
              \E j \in DOMAIN answers :
                answers[j].case = rows[i].case /\ answers[j].answered /\ answers[j].pass
         /\ jrow \in VerdictRows /\ jrow.case \in Cases
         /\ jrow.case \notin Completed(verdicts)
<1>1. /\ JudgeTypes /\ JudgeSeen /\ JudgeWork /\ Closed(verdicts)
      /\ Grounded /\ PassesRestOnAnswers
  BY DEF JudgeInv
<1>2. /\ jrow \in VerdictRows /\ jrow.case = NextRow.case
      /\ jrow.pass => NextRow.answered /\ NextRow.pass
      /\ DOMAIN jleft # {} /\ jseen = verdicts
  BY <1>1 DEF JudgeWork, JudgeSeen
<1>3. Min(DOMAIN jleft) \in DOMAIN jleft /\ NextRow = jleft[Min(DOMAIN jleft)]
  BY <1>1, <1>2, NextRowFacts DEF NextRow
<1>4. jrow.case \notin Completed(verdicts)
  BY <1>1, <1>2, <1>3 DEF JudgeWork
<1>5. verdicts \in Seq(VerdictRows)
  BY <1>1 DEF JudgeTypes
<1>6. Closed(rows)
  BY <1>1, <1>2, <1>4, <1>5, ClosedAppend
<1> DEFINE n == Len(verdicts) + 1
<1>7. /\ rows \in Seq(VerdictRows)
      /\ DOMAIN rows = DOMAIN verdicts \cup {n}
      /\ rows[n] = jrow /\ \A i \in DOMAIN verdicts : rows[i] = verdicts[i]
  BY <1>2, <1>5, AppendFacts
<1> HIDE DEF n
<1>8. ASSUME fresh, NEW i \in DOMAIN rows, rows[i].pass
      PROVE  \E j \in DOMAIN answers :
               answers[j].case = rows[i].case /\ answers[j].answered /\ answers[j].pass
  <2>1. CASE i \in DOMAIN verdicts
    BY <1>1, <1>7, <1>8, <2>1 DEF PassesRestOnAnswers
  <2>2. CASE i = n
    <3>1. rows[i] = jrow /\ jfresh
      BY <1>1, <1>7, <1>8, <2>2 DEF Grounded
    <3>2. PICK j \in DOMAIN answers : answers[j] = NextRow
      BY <1>1, <1>3, <3>1 DEF Grounded
    <3>3. QED
      BY <1>2, <1>8, <3>1, <3>2
  <2>3. QED
    BY <1>7, <2>1, <2>2
<1>9. jrow.case \in Cases
  BY <1>2 DEF VerdictRows
<1>10. QED
  BY <1>2, <1>4, <1>6, <1>7, <1>8, <1>9

LEMMA JudgeAppendInv ==
  ASSUME JudgeInv, JudgeAppend, UNCHANGED <<qvars, jfresh, fresh>>
  PROVE  JudgeInv'
<1> DEFINE m == Min(DOMAIN jleft)
<1>1. /\ JudgeTypes /\ JudgeSeen /\ JudgeWork /\ Closed(verdicts)
      /\ Grounded /\ PassesRestOnAnswers
  BY DEF JudgeInv
<1>2. /\ jpc = "append" /\ jpc' \in {"idle", "next"}
      /\ verdicts' = Append(verdicts, jrow) /\ verdictsEnd' = EndAfter(verdictsEnd)
      /\ jseen' = Append(jseen, jrow)
      /\ jleft' = [i \in DOMAIN jleft \ {m} |-> jleft[i]]
      /\ jruns' = <<>> /\ jcalls' = NoCall
      /\ UNCHANGED <<jargs, jold, answers, jfresh, fresh>>
  BY DEF JudgeAppend, qvars, file
<1>3. /\ jseen = verdicts /\ DOMAIN jleft # {} /\ jrow.case = NextRow.case
      /\ jrow.status = "completed" => NextRow.answered
  BY <1>1, <1>2 DEF JudgeSeen, JudgeWork
<1>4. /\ m \in DOMAIN jleft /\ NextRow = jleft[m]
      /\ \A i \in DOMAIN jleft : i \in Nat /\ m <= i
  BY <1>1, <1>3, NextRowFacts DEF NextRow
<1> HIDE DEF m
<1>5. /\ verdicts' \in Seq(VerdictRows) /\ Closed(verdicts')
      /\ fresh => \A i \in DOMAIN verdicts' : verdicts'[i].pass =>
           \E j \in DOMAIN answers :
             answers[j].case = verdicts'[i].case /\ answers[j].answered /\ answers[j].pass
      /\ jrow \in VerdictRows
  BY <1>2, RowWritten
<1>6. verdicts \in Seq(VerdictRows)
  BY <1>1 DEF JudgeTypes
<1>7. DOMAIN jleft' = DOMAIN jleft \ {m} /\ \A i \in DOMAIN jleft' : jleft'[i] = jleft[i]
  BY <1>2
<1>8. jleft' \in Pending
  <2>1. DOMAIN jleft \subseteq Places /\ \A i \in DOMAIN jleft : jleft[i] \in AnswerRows
    BY <1>1, PendingFacts DEF JudgeTypes
  <2>2. jleft' \in [DOMAIN jleft \ {m} -> AnswerRows]
    BY <1>2, <2>1
  <2>3. DOMAIN jleft \ {m} \in SUBSET Places
    BY <2>1
  <2>4. QED
    BY <2>2, <2>3, PendingFacts
<1>9. JudgeTypes'
  <2>1. verdictsEnd' \in Ends /\ jcalls' \in [failed : 0..ProviderLimit - 1, unreadable : 0..JSONLimit - 1]
    BY <1>1, <1>2, EndType, NoCallType DEF JudgeTypes
  <2>2. jseen' \in Seq(VerdictRows) /\ jold <= Len(jseen') /\ jold \in Nat
    <3>1. jseen' \in Seq(VerdictRows) /\ Len(jseen') = Len(jseen) + 1 /\ Len(jseen) \in Nat
      BY <1>2, <1>3, <1>5, <1>6, AppendFacts
    <3>2. jold \in Nat /\ jold <= Len(jseen)
      BY <1>1 DEF JudgeTypes
    <3>3. QED
      BY <3>1, <3>2
  <2>3. jruns' \in Seq([scored : BOOLEAN, fields : SUBSET Fields]) /\ Len(jruns') <= JudgeRuns
    BY <1>2, NoRows, QAJudgeAssumption
  <2>4. QED
    BY <1>1, <1>2, <1>5, <1>8, <2>1, <2>2, <2>3 DEF JudgeTypes
<1>10. JudgeSeen'
  BY <1>1, <1>2, <1>3 DEF JudgeSeen, EndAfter
<1>11. JudgeWork'
  <2>1. Completed(jseen') \subseteq
          Completed(jseen) \cup (IF jrow.status = "completed" THEN {jrow.case} ELSE {})
    BY <1>2, <1>3, <1>5, <1>6, CompletedAppend
  <2>2. ASSUME NEW i \in DOMAIN jleft'
        PROVE  jleft'[i].case \notin Completed(jseen')
    <3>1. i \in DOMAIN jleft /\ jleft'[i] = jleft[i] /\ m < i
      BY <1>4, <1>7
    <3>2. jleft[i].case \notin Completed(jseen)
      BY <1>1, <1>2, <3>1 DEF JudgeWork
    <3>3. NextRow.answered => jleft[i].case # NextRow.case
      BY <1>1, <1>2, <1>4, <3>1 DEF JudgeWork
    <3>4. QED
      BY <1>3, <2>1, <3>1, <3>2, <3>3
  <2>3. \A i \in DOMAIN jleft' : jleft'[i].answered =>
          \A j \in DOMAIN jleft' : i < j => jleft'[j].case # jleft'[i].case
    BY <1>1, <1>2, <1>7 DEF JudgeWork
  <2>4. QED
    BY <1>2, <2>2, <2>3 DEF JudgeWork
<1>12. Grounded' /\ PassesRestOnAnswers'
  BY <1>1, <1>2, <1>5, <1>7 DEF Grounded, PassesRestOnAnswers
<1>13. QED
  BY <1>5, <1>9, <1>10, <1>11, <1>12 DEF JudgeInv

LEMMA JudgeDoneInv ==
  ASSUME JudgeInv, JudgeDone, UNCHANGED <<qvars, jfresh, fresh>>
  PROVE  JudgeInv'
<1>1. /\ jpc = "next" /\ jpc' = "done"
      /\ UNCHANGED <<verdicts, verdictsEnd, jargs, jleft, jruns, jcalls, jrow, jseen, jold>>
      /\ UNCHANGED <<answers, jfresh, fresh>>
  BY DEF JudgeDone, judgeFile, qvars, file
<1>2. /\ JudgeTypes /\ JudgeSeen /\ JudgeWork /\ Closed(verdicts)
      /\ Grounded /\ PassesRestOnAnswers
  BY DEF JudgeInv
<1>3. JudgeTypes' /\ JudgeSeen' /\ JudgeWork'
  BY <1>1, <1>2 DEF JudgeTypes, JudgeSeen, JudgeWork
<1>4. Closed(verdicts)' /\ Grounded' /\ PassesRestOnAnswers'
  BY <1>1, <1>2 DEF Grounded, PassesRestOnAnswers
<1>5. QED
  BY <1>3, <1>4 DEF JudgeInv

LEMMA JudgeStopsInv ==
  ASSUME JudgeInv, JudgeStops, UNCHANGED <<qvars, jfresh, fresh>>
  PROVE  JudgeInv'
<1>1. /\ JudgeTypes /\ Closed(verdicts) /\ Grounded /\ PassesRestOnAnswers
  BY DEF JudgeInv
<1>2. /\ jpc' = "idle" /\ jleft' = <<>> /\ jruns' = <<>> /\ jcalls' = NoCall
      /\ jseen' = <<>> /\ jold' = 0 /\ jargs' = jargs
      /\ UNCHANGED <<answers, jfresh, fresh>>
  BY DEF JudgeStops, qvars, file
<1>3. /\ verdicts' \in Seq(VerdictRows) /\ verdictsEnd' \in Ends /\ Closed(verdicts')
      /\ fresh => \A i \in DOMAIN verdicts' : verdicts'[i].pass =>
           \E j \in DOMAIN answers :
             answers[j].case = verdicts'[i].case /\ answers[j].answered /\ answers[j].pass
  <2>1. verdicts \in Seq(VerdictRows) /\ verdictsEnd \in Ends
    BY <1>1 DEF JudgeTypes
  <2>2. CASE verdicts' = verdicts /\ verdictsEnd' \in Ends
    BY <1>1, <2>1, <2>2 DEF PassesRestOnAnswers
  <2>3. CASE jpc = "append" /\ verdicts' = Append(verdicts, jrow) /\ verdictsEnd' \in Ends
    BY <2>3, RowWritten
  <2>4. CASE jpc # "append"
    BY <2>1, <2>2, <2>4 DEF JudgeStops, judgeFile
  <2>5. CASE jpc = "append"
    <3>1. PICK left \in Torn(verdicts, verdictsEnd, jrow) :
            verdicts' = left[1] /\ verdictsEnd' = left[2]
      BY <2>5 DEF JudgeStops
    <3>2. (verdicts' = verdicts \/ verdicts' = Append(verdicts, jrow)) /\ verdictsEnd' \in Ends
      BY <2>1, <3>1, TornCases
    <3>3. QED
      BY <2>2, <2>3, <2>5, <3>2
  <2>6. QED
    BY <2>4, <2>5
<1>4. DOMAIN jleft' = {}
  BY <1>2, NoRows
<1>5. JudgeTypes'
  BY <1>1, <1>2, <1>3, NoRows, NothingPending, NoCallType, QAJudgeAssumption DEF JudgeTypes
<1>6. JudgeSeen' /\ JudgeWork'
  BY <1>2 DEF JudgeSeen, JudgeWork
<1>7. Grounded' /\ PassesRestOnAnswers'
  BY <1>1, <1>2, <1>3, <1>4 DEF Grounded, PassesRestOnAnswers, JudgeTypes
<1>8. QED
  BY <1>3, <1>5, <1>6, <1>7 DEF JudgeInv

----------------------------------------------------------------------------
(* Both together.                                                          *)

\* What the sessions of the answers do to their file: nothing, a row more, or a
\* new start.
LEMMA AnswersGrow ==
  ASSUME QAInv, QAStep \/ QAStops
  PROVE  \/ answers' = answers
         \/ qrow \in AnswerRows /\ answers' = Append(answers, qrow)
         \/ QAOpen /\ ~ qargs.resume
<1>1. QATypes /\ QAWork
  BY DEF QAInv
<1>2. CASE QAOpen
  BY <1>2 DEF QAOpen, file
<1>3. CASE QARetrieve \/ QAAnswer \/ QARetry \/ QACallFails \/ QADone
  BY <1>3 DEF QARetrieve, QAAnswer, QARetry, QACallFails, QADone, file
<1>4. CASE QAAppend
  BY <1>1, <1>4 DEF QAAppend, QAWork
<1>5. CASE QAStops
  <2>1. CASE qpc = "append"
    <3>1. PICK left \in Torn(answers, answersEnd, qrow) : answers' = left[1]
      BY <1>5, <2>1 DEF QAStops
    <3>2. answers' = answers \/ answers' = Append(answers, qrow)
      BY <1>1, <3>1, TornCases DEF QATypes
    <3>3. QED
      BY <1>1, <2>1, <3>2 DEF QAWork
  <2>2. CASE qpc # "append"
    BY <1>5, <2>2 DEF QAStops, file
  <2>3. QED
    BY <2>1, <2>2
<1>6. QED
  BY <1>2, <1>3, <1>4, <1>5 DEF QAStep

\* The judge's verdicts stay grounded while the answers go on.
LEMMA JudgeBeside ==
  ASSUME QAInv, JudgeInv, UNCHANGED jvars,
         \/ ~ jfresh' /\ ~ fresh'
         \/ /\ UNCHANGED <<jfresh, fresh>>
            /\ \/ answers' = answers
               \/ qrow \in AnswerRows /\ answers' = Append(answers, qrow)
  PROVE  JudgeInv'
<1>1. /\ JudgeTypes /\ JudgeSeen /\ JudgeWork /\ Closed(verdicts)
      /\ Grounded /\ PassesRestOnAnswers /\ QATypes
  BY DEF JudgeInv, QAInv
<1>2. UNCHANGED <<verdicts, verdictsEnd, jpc, jargs, jleft, jruns, jcalls, jrow, jseen, jold>>
  BY DEF jvars, judgeFile
<1>3. JudgeTypes'
  BY <1>1, <1>2 DEF JudgeTypes
<1>4. JudgeSeen' /\ JudgeWork' /\ Closed(verdicts)'
  BY <1>1, <1>2 DEF JudgeSeen, JudgeWork, NextRow
<1>5. Grounded' /\ PassesRestOnAnswers'
  <2>1. CASE ~ jfresh' /\ ~ fresh'
    BY <2>1 DEF Grounded, PassesRestOnAnswers
  <2>2. CASE UNCHANGED <<jfresh, fresh>> /\ (answers' = answers \/ (qrow \in AnswerRows /\ answers' = Append(answers, qrow)))
    <3>1. \A j \in DOMAIN answers : j \in DOMAIN answers' /\ answers'[j] = answers[j]
      BY <1>1, <2>2, AppendFacts DEF QATypes
    <3>2. QED
      BY <1>1, <1>2, <2>2, <3>1 DEF Grounded, PassesRestOnAnswers
  <2>3. QED
    BY <2>1, <2>2
<1>6. QED
  BY <1>3, <1>4, <1>5 DEF JudgeInv

\* Only the step that opens the judge's file moves the ghost.
LEMMA JudgeGoesInv ==
  ASSUME JudgeInv, JudgeGoes, UNCHANGED qvars
  PROVE  JudgeInv'
<1>1. CASE JudgeOpen
  <2>1. fresh' = IF ~ jargs.resume \/ verdicts = <<>> THEN jfresh ELSE fresh
    BY <1>1 DEF JudgeGoes, JudgeOpen
  <2>2. QED
    BY <1>1, <2>1, JudgeOpenInv DEF JudgeGoes
<1>2. CASE \/ JudgeMap \/ JudgeScores \/ JudgeUnreadable \/ JudgeCallFails \/ JudgeRetry
           \/ JudgeVerdict \/ JudgeRaises \/ JudgeAppend \/ JudgeDone \/ JudgeStops
  <2>1. jpc # "open" \/ jpc' = "idle"
    BY <1>2 DEF JudgeMap, JudgeScores, JudgeUnreadable, JudgeCallFails, RunEnds, JudgeRetry,
       JudgeVerdict, JudgeRaises, JudgeAppend, JudgeDone, JudgeStops
  <2>2. UNCHANGED <<qvars, jfresh, fresh>>
    BY <2>1 DEF JudgeGoes
  <2>3. QED
    BY <1>2, <2>2, JudgeMapInv, JudgeRunInv, JudgeVerdictInv, JudgeAppendInv, JudgeDoneInv,
       JudgeStopsInv
<1>3. QED
  BY <1>1, <1>2 DEF JudgeGoes, JudgeStep

LEMMA NextInv == IInv /\ [Next]_vars => IInv'
<1> SUFFICES ASSUME QAInv, JudgeInv, [Next]_vars
             PROVE  QAInv' /\ JudgeInv'
  BY DEF IInv
<1>1. CASE QAStart /\ UNCHANGED <<jvars, jfresh, fresh>>
  <2>1. answers' = answers
    BY <1>1 DEF QAStart, file
  <2>2. QED
    BY <1>1, <2>1, QANextInv, JudgeBeside
<1>2. CASE JudgeStart /\ jfresh' /\ UNCHANGED <<qvars, fresh>>
  BY <1>2, QANextInv, JudgeStartInv
<1>3. CASE QAGoes /\ UNCHANGED jvars
  <2>1. QAStep \/ QAStops
    BY <1>3 DEF QAGoes
  <2>2. QAInv'
    BY <2>1, QANextInv
  <2>3. CASE QAOpen /\ ~ qargs.resume
    <3>1. ~ jfresh' /\ ~ fresh'
      BY <1>3, <2>3 DEF QAGoes
    <3>2. QED
      BY <1>3, <2>2, <3>1, JudgeBeside
  <2>4. CASE ~ (QAOpen /\ ~ qargs.resume)
    <3>1. UNCHANGED <<jfresh, fresh>>
      BY <1>3, <2>4 DEF QAGoes
    <3>2. QED
      BY <1>3, <2>1, <2>2, <2>4, <3>1, AnswersGrow, JudgeBeside
  <2>5. QED
    BY <2>3, <2>4
<1>4. CASE JudgeGoes /\ UNCHANGED qvars
  BY <1>4, QANextInv, JudgeGoesInv
<1>5. CASE UNCHANGED vars
  <2>1. UNCHANGED qvars /\ UNCHANGED jvars /\ UNCHANGED <<jfresh, fresh>> /\ answers' = answers
    BY <1>5 DEF vars, qvars, file
  <2>2. QED
    BY <2>1, QANextInv, JudgeBeside
<1>6. QED
  BY <1>1, <1>2, <1>3, <1>4, <1>5 DEF Next

THEOREM Invariance == Spec => []IInv
<1>1. Init => IInv
  BY QAInitInv, JudgeInitInv DEF Init, IInv
<1>2. QED
  BY <1>1, NextInv, PTL DEF Spec

----------------------------------------------------------------------------
(* The properties.                                                         *)

\* Counts stay below their limits and sessions in their stages.
THEOREM TypeCorrect == Spec => []TypeOK
<1>1. IInv => TypeOK
  BY DEF IInv, QAInv, JudgeInv, QATypes, JudgeTypes, TypeOK, Ends
<1>2. QED
  BY <1>1, Invariance, PTL

\* No case is completed twice in either file, however sessions are stopped and
\* resumed.
THEOREM NoCaseCompletesTwice == Spec => []CompletedOnce
<1>1. ASSUME IInv
      PROVE  CompletedOnce
  <2>1. /\ answers \in Seq(AnswerRows) /\ Closed(answers)
        /\ verdicts \in Seq(VerdictRows) /\ Closed(verdicts)
    BY <1>1 DEF IInv, QAInv, JudgeInv, QATypes, JudgeTypes
  <2>2. QED
    BY <2>1, ClosedOnce DEF CompletedOnce
<1>2. QED
  BY <1>1, Invariance, PTL

\* A session over all cases that finishes leaves each completed or with a row of
\* its own, and reports the rows of its file, which is readable unless it resumed.
THEOREM FinishedMeansComplete == Spec => []FinishedSessionsAreComplete
<1>1. ASSUME IInv
      PROVE  FinishedSessionsAreComplete
  <2> USE <1>1
  <2>1. QATypes /\ QASeen /\ QAWork /\ JudgeSeen
    BY DEF IInv, QAInv, JudgeInv
  <2>2. jpc = "done" => jseen = verdicts /\ (~ jargs.resume => verdictsEnd = "whole")
    BY <2>1 DEF JudgeSeen
  <2>3. qpc = "done" => qseen = answers /\ (~ qargs.resume => answersEnd = "whole")
    BY <2>1 DEF QASeen
  <2>4. ASSUME qpc = "done", qargs.start = 0, qargs.limit >= NCases
        PROVE  DoneSince(answers, qold) = Cases
    <3>1. qleft = {} /\ qseen = answers
      BY <2>1, <2>3, <2>4 DEF QAWork
    <3>2. Cases \subseteq DoneSince(answers, qold)
      BY <2>1, <2>4, <3>1 DEF QAWork
    <3>3. \A i \in DOMAIN answers : answers[i] \in AnswerRows
      BY <2>1 DEF QATypes
    <3>4. DoneSince(answers, qold) \subseteq Cases
      BY <3>3 DEF DoneSince, AnswerRows
    <3>5. QED
      BY <3>2, <3>4
  <2>5. QED
    BY <2>2, <2>3, <2>4 DEF FinishedSessionsAreComplete
<1>2. QED
  BY <1>1, Invariance, PTL

\* For as long as the answers have not started again since the judge started its
\* file, what it passes rests on an answer that is there and keeps the contract.
THEOREM PassesAreGrounded == Spec => []PassesRestOnAnswers
<1>1. IInv => PassesRestOnAnswers
  BY DEF IInv, JudgeInv
<1>2. QED
  BY <1>1, Invariance, PTL

----------------------------------------------------------------------------
(* The refinement.                                                         *)

LEMMA LedgerOfNone == LedgerOf(<<>>) = [c \in Cases |-> "open"]
<1>1. \A c : CompletedRows(<<>>, c) = {}
  BY NoneDone
<1>2. DOMAIN <<>> = {}
  BY NoRows
<1>3. \A c \in Cases : ~ \E i \in DOMAIN <<>> : <<>>[i].case = c
  BY <1>2
<1>4. QED
  BY <1>1, <1>3 DEF LedgerOf

\* A row more changes its case, from what is not done.
LEMMA LedgerOfAppend ==
  ASSUME NEW S, NEW rows \in Seq(S), NEW row \in S, row.case \in Cases,
         row.case \notin Completed(rows)
  PROVE  /\ LedgerOf(rows)[row.case] # "done"
         /\ \E outcome \in {"failed", "done"} :
              LedgerOf(Append(rows, row)) = [LedgerOf(rows) EXCEPT ![row.case] = outcome]
<1> DEFINE new == Append(rows, row)
           n == Len(rows) + 1
           k == row.case
           outcome == IF row.status = "completed" THEN "done" ELSE "failed"
<1>1. /\ DOMAIN new = DOMAIN rows \cup {n}
      /\ new[n] = row /\ \A i \in DOMAIN rows : new[i] = rows[i]
  BY AppendFacts
<1> HIDE DEF new, n
<1>2. \A c : CompletedRows(rows, c) # {} <=> c \in Completed(rows)
  BY DEF CompletedRows, Completed
<1>3. \A c : CompletedRows(new, c) # {} <=> c \in Completed(new)
  BY DEF CompletedRows, Completed
<1>4. \A c : c \in Completed(new) <=> c \in Completed(rows) \/ (c = k /\ row.status = "completed")
  BY <1>1 DEF Completed
<1>5. \A c : (\E i \in DOMAIN new : new[i].case = c) <=> (\E i \in DOMAIN rows : rows[i].case = c) \/ c = k
  BY <1>1
<1>6. LedgerOf(rows)[k] # "done"
  BY <1>2 DEF LedgerOf
<1>7. LedgerOf(new)[k] = outcome
  BY <1>3, <1>4, <1>5 DEF LedgerOf
<1>8. \A c \in Cases : c # k => LedgerOf(new)[c] = LedgerOf(rows)[c]
  BY <1>2, <1>3, <1>4, <1>5 DEF LedgerOf
<1>9. LedgerOf(new) = [LedgerOf(rows) EXCEPT ![k] = outcome]
  <2>1. /\ LedgerOf(new) = [c \in Cases |-> LedgerOf(new)[c]]
        /\ LedgerOf(rows) = [c \in Cases |-> LedgerOf(rows)[c]]
    BY DEF LedgerOf
  <2> HIDE DEF outcome
  <2>2. QED
    BY <1>7, <1>8, <2>1
<1>10. outcome \in {"failed", "done"}
  OBVIOUS
<1>11. QED
  BY <1>6, <1>9, <1>10 DEF new

LEMMA LedgersInit == Init => Answered!Init /\ Judged!Init
<1> SUFFICES ASSUME Init
             PROVE  Answered!Init /\ Judged!Init
  OBVIOUS
<1>1. answers = <<>> /\ verdicts = <<>> /\ qargs.resume \in BOOLEAN /\ jargs.resume \in BOOLEAN
  BY DEF Init, QAInit, JudgeInit, NoQAArg
<1>2. QED
  BY <1>1, LedgerOfNone DEF Answered!Init, Judged!Init, Answered!Open, Judged!Open

\* A session that starts may choose anew whether it keeps the file; one that does
\* not starts it again; an append records a case.
LEMMA AnsweredStep ==
  ASSUME IInv, [Next]_vars
  PROVE  [Answered!Next]_<<LedgerOf(answers), qargs.resume>>
<1>1. QATypes /\ QASeen /\ QAWork
  BY DEF IInv, QAInv
<1>2. ASSUME answers' = answers, qargs' = qargs
      PROVE  UNCHANGED <<LedgerOf(answers), qargs.resume>>
  BY <1>2
<1>3. ASSUME qpc = "append", answers' = Append(answers, qrow), qargs' = qargs
      PROVE  Answered!Next
  <2>1. /\ qrow \in AnswerRows /\ qrow.case \in qleft /\ answers \in Seq(AnswerRows)
        /\ qleft \cap Completed(answers) = {} /\ qrow.case \in Cases
    BY <1>1, <1>3, CasesAreNumbers, MinIsLeast DEF QAWork, QASeen, QATypes
  <2>2. /\ LedgerOf(answers)[qrow.case] # "done"
        /\ \E outcome \in {"failed", "done"} :
             LedgerOf(answers') = [LedgerOf(answers) EXCEPT ![qrow.case] = outcome]
    BY <1>3, <2>1, LedgerOfAppend
  <2>3. Answered!Record(qrow.case)
    BY <1>3, <2>2 DEF Answered!Record
  <2>4. QED
    BY <2>1, <2>3 DEF Answered!Next
<1>4. CASE UNCHANGED qvars
  BY <1>2, <1>4 DEF qvars, file
<1>5. CASE QAStart
  <2>1. answers' = answers /\ qargs'.resume \in BOOLEAN
    BY <1>5, ManualQAAssumption DEF QAStart, file, QAArg
  <2>2. QED
    BY <2>1 DEF Answered!Next, Answered!Begin
<1>6. CASE QAOpen
  <2>1. qargs' = qargs /\ (answers' = answers \/ (~ qargs.resume /\ answers' = <<>>))
    BY <1>6 DEF QAOpen, file
  <2>2. CASE answers' = answers
    BY <1>2, <2>1, <2>2
  <2>3. CASE ~ qargs.resume /\ answers' = <<>>
    BY <2>1, <2>3, LedgerOfNone DEF Answered!Next, Answered!Renew, Answered!Open
  <2>4. QED
    BY <2>1, <2>2, <2>3
<1>7. CASE QARetrieve \/ QAAnswer \/ QARetry \/ QACallFails \/ QADone
  BY <1>2, <1>7 DEF QARetrieve, QAAnswer, QARetry, QACallFails, QADone, file
<1>8. CASE QAAppend
  BY <1>3, <1>8 DEF QAAppend
<1>9. CASE QAStops
  <2>1. CASE qpc = "append"
    <3>1. PICK left \in Torn(answers, answersEnd, qrow) : answers' = left[1] /\ qargs' = qargs
      BY <1>9, <2>1 DEF QAStops
    <3>2. answers' = answers \/ answers' = Append(answers, qrow)
      BY <1>1, <3>1, TornCases DEF QATypes
    <3>3. QED
      BY <1>2, <1>3, <2>1, <3>1, <3>2
  <2>2. CASE qpc # "append"
    BY <1>2, <1>9, <2>2 DEF QAStops, file
  <2>3. QED
    BY <2>1, <2>2
<1>10. QED
  BY <1>4, <1>5, <1>6, <1>7, <1>8, <1>9 DEF Next, QAGoes, QAStep, vars

LEMMA JudgedStep ==
  ASSUME IInv, [Next]_vars
  PROVE  [Judged!Next]_<<LedgerOf(verdicts), jargs.resume>>
<1>1. JudgeInv /\ JudgeTypes
  BY DEF IInv, JudgeInv
<1>2. ASSUME verdicts' = verdicts, jargs' = jargs
      PROVE  UNCHANGED <<LedgerOf(verdicts), jargs.resume>>
  BY <1>2
<1>3. ASSUME jpc = "append", verdicts' = Append(verdicts, jrow), jargs' = jargs
      PROVE  Judged!Next
  <2>1. /\ jrow \in VerdictRows /\ jrow.case \in Cases
        /\ jrow.case \notin Completed(verdicts) /\ verdicts \in Seq(VerdictRows)
    BY <1>1, <1>3, RowWritten DEF JudgeTypes
  <2>2. /\ LedgerOf(verdicts)[jrow.case] # "done"
        /\ \E outcome \in {"failed", "done"} :
             LedgerOf(verdicts') = [LedgerOf(verdicts) EXCEPT ![jrow.case] = outcome]
    BY <1>3, <2>1, LedgerOfAppend
  <2>3. Judged!Record(jrow.case)
    BY <1>3, <2>2 DEF Judged!Record
  <2>4. QED
    BY <2>1, <2>3 DEF Judged!Next
<1>4. CASE UNCHANGED jvars
  BY <1>2, <1>4 DEF jvars, judgeFile
<1>5. CASE JudgeStart
  <2>1. verdicts' = verdicts /\ jargs'.resume \in BOOLEAN
    BY <1>5, QAJudgeAssumption DEF JudgeStart, judgeFile
  <2>2. QED
    BY <2>1 DEF Judged!Next, Judged!Begin
<1>6. CASE JudgeOpen
  <2>1. jargs' = jargs /\ (verdicts' = verdicts \/ (~ jargs.resume /\ verdicts' = <<>>))
    BY <1>6 DEF JudgeOpen, judgeFile
  <2>2. CASE verdicts' = verdicts
    BY <1>2, <2>1, <2>2
  <2>3. CASE ~ jargs.resume /\ verdicts' = <<>>
    BY <2>1, <2>3, LedgerOfNone DEF Judged!Next, Judged!Renew, Judged!Open
  <2>4. QED
    BY <2>1, <2>2, <2>3
<1>7. CASE JudgeMap \/ JudgeVerdict \/ JudgeRaises \/ JudgeDone \/ JudgeRetry
  BY <1>2, <1>7 DEF JudgeMap, JudgeVerdict, JudgeRaises, JudgeDone, JudgeRetry, judgeFile
<1>8. CASE JudgeScores \/ JudgeUnreadable \/ JudgeCallFails
  BY <1>2, <1>8 DEF JudgeScores, JudgeUnreadable, JudgeCallFails, RunEnds, judgeFile
<1>9. CASE JudgeAppend
  BY <1>3, <1>9 DEF JudgeAppend
<1>10. CASE JudgeStops
  <2>1. CASE jpc = "append"
    <3>1. PICK left \in Torn(verdicts, verdictsEnd, jrow) : verdicts' = left[1] /\ jargs' = jargs
      BY <1>10, <2>1 DEF JudgeStops
    <3>2. verdicts' = verdicts \/ verdicts' = Append(verdicts, jrow)
      BY <1>1, <3>1, TornCases DEF JudgeTypes
    <3>3. QED
      BY <1>2, <1>3, <2>1, <3>1, <3>2
  <2>2. CASE jpc # "append"
    BY <1>2, <1>10, <2>2 DEF JudgeStops, judgeFile
  <2>3. QED
    BY <2>1, <2>2
<1>11. QED
  BY <1>4, <1>5, <1>6, <1>7, <1>8, <1>9, <1>10 DEF Next, JudgeGoes, JudgeStep, vars

\* Both files keep what is done for as long as their sessions resume, and change
\* one case at a time.
THEOREM FilesAreLedgers == Spec => ImplementsLedgers
<1>1. Init => Answered!Init /\ Judged!Init
  BY LedgersInit
<1>2. IInv /\ [Next]_vars => [Answered!Next]_<<LedgerOf(answers), qargs.resume>>
  BY AnsweredStep
<1>3. IInv /\ [Next]_vars => [Judged!Next]_<<LedgerOf(verdicts), jargs.resume>>
  BY JudgedStep
<1>4. QED
  BY <1>1, <1>2, <1>3, Invariance, PTL
  DEF Spec, ImplementsLedgers, Answered!Spec, Judged!Spec

=============================================================================
