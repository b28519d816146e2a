--------------------------- MODULE ChronoReducer ---------------------------
(***************************************************************************)
(* Reduction of passages and detection of conflicts                        *)
(* (app/utils/chrono_reducer.py, window_iou of app/utils/time_windows.py). *)
(***************************************************************************)
EXTENDS TimeWindows, SequencesExt

CONSTANTS Subjects, Texts,
          Overlap    \* overlap_threshold in tenths

ASSUME OverlapAssumption == Overlap \in 1..10

\* subject: what the text is about; scores only matter by their order.
Passage ==
  [id : Nat, subject : Subjects, text : Texts, window : Window,
   authority : Nat, score : Nat]

Duration(w)  == w.end - w.start
Shared(v, w) ==
  IF Intersects(v, w) THEN Earlier(v.end, w.end) - Later(v.start, w.start) ELSE 0

\* window_iou >= n tenths; windows without duration have no overlap.
OverlapAtLeast(v, w, n) ==
  LET union == Duration(v) + Duration(w) - Shared(v, w)
  IN  union > 0 /\ 10 * Shared(v, w) >= n * union

KeyOf(p) == <<p.text, p.window.start>>

\* Mutant: the later of two passages is kept.
BetterLast(current, p) == p

Better(current, p) ==
  IF p.authority > current.authority \/ p.score > current.score THEN p ELSE current

\* One turn of the loop of reduce_passages over its bucket, a sequence in the order
\* in which the keys came: a passage replaces the one of its key if it is better.
Bucketed(bucket, p) ==
  IF \E i \in DOMAIN bucket : KeyOf(bucket[i]) = KeyOf(p)
  THEN [i \in DOMAIN bucket |->
          IF KeyOf(bucket[i]) = KeyOf(p) THEN Better(bucket[i], p) ELSE bucket[i]]
  ELSE Append(bucket, p)

ReducesBefore(p, q) ==
  \/ p.score > q.score
  \/ p.score = q.score /\ p.window.start < q.window.start
  \/ p.score = q.score /\ p.window.start = q.window.start /\ p.authority > q.authority

\* Of two passages that are equal in all three the first stays first.
Precedes(bucket, i, j) ==
  ReducesBefore(bucket[i], bucket[j]) \/ (~ ReducesBefore(bucket[j], bucket[i]) /\ i < j)

Place(bucket, i) == Cardinality({j \in DOMAIN bucket : Precedes(bucket, j, i)}) + 1

Sorted(bucket) ==
  [n \in DOMAIN bucket |-> bucket[CHOOSE i \in DOMAIN bucket : Place(bucket, i) = n]]

\* Mutant: only neighbours are compared.
DetectConflictsOfNeighbours(passages) ==
  {pair \in (DOMAIN passages) \X (DOMAIN passages) :
     /\ pair[2] = pair[1] + 1
     /\ OverlapAtLeast(passages[pair[1]].window, passages[pair[2]].window, Overlap)}

DetectConflicts(passages) ==
  {pair \in (DOMAIN passages) \X (DOMAIN passages) :
     /\ pair[1] < pair[2]
     /\ OverlapAtLeast(passages[pair[1]].window, passages[pair[2]].window, Overlap)}

=============================================================================
