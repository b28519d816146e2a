----------------------------- MODULE Retrieval -----------------------------
(***************************************************************************)
(* Hybrid retrieval for one query (retrieve_service.py), served beside     *)
(* ingests of the same server.  Nothing locks the store: the listing, the  *)
(* search of the vectors and the scoring of each candidate read it at      *)
(* different moments.                                                      *)
(*                                                                         *)
(* What the query finds in a chunk is given by Corpus; scores and weights  *)
(* are in hundredths.                                                      *)
(***************************************************************************)
EXTENDS Integers, Sequences, FiniteSets, FiniteSetsExt

CONSTANTS
  Readers, Writers,  \* threads that serve /retrieve and /ingest
  Corpus,            \* a sequence: what the query finds in each chunk
  Stored,            \* chunks of the store at the start
  Regions, None,
  Weights,           \* retrieval_weights of the query's domain
  TopKs,             \* what a request may ask for
  MinFanout,         \* candidates of each search at least, 10 in the code
  MaxRerank,         \* candidates reranked at most, 30 in the code
  JudgeModes,        \* subset of "off", "light", "backend"
  JudgeScores,       \* what a backend may answer for a passage
  MaxRequests        \* bound: retrievals in all

Ids == DOMAIN Corpus

Percent == 0..100

\* lexical, vector: scores of the two searches; rank: of the cross-encoder;
\* meets: the valid window intersects the window of the query; weight: what
\* _temporal_quality_weight gives, 0 for dated evidence outside the window;
\* mismatch: the tx window misses the valid window, as it is and once closed;
\* supersedes: the chunk the ingest of this one closes, 0 for none.
Finding ==
  [lexical : Nat, vector : Nat, rank : Percent, bias : 0..8, weight : Percent,
   meets : BOOLEAN, age : Percent, authority : Percent,
   mismatch : [open : BOOLEAN, shut : BOOLEAN], region : Regions \cup {None}, supersedes : Ids \cup {0}]

\* Only evidence of an unknown time (10) or with a publication time only (12)
\* counts where its window misses that of the query.
ASSUME RetrievalAssumption ==
  /\ Corpus \in Seq(Finding)
  /\ \A c \in Ids : Corpus[c].weight > 12 => Corpus[c].meets
  /\ Weights \in [alpha : Nat, beta : Nat, gamma : Nat, age : Nat, tx : Nat]
  /\ Stored \subseteq Ids
  /\ TopKs \subseteq Nat \ {0}
  /\ JudgeModes \subseteq {"off", "light", "backend"}
  /\ JudgeScores \subseteq Percent
  /\ MinFanout \in Nat /\ MaxRerank \in Nat /\ MaxRequests \in Nat

VARIABLES
  chunks,     \* ids in PVDB.chunks
  entries,    \* ids in InMemoryANNIndex.entries
  closed,     \* chunks whose tx window an ingest has closed
  pc, local,
  writing,    \* what each writer is doing: [step, new]
  received,   \* against MaxRequests
  known       \* ghost: the chunks when each request came

store == <<chunks, entries, closed, writing>>
vars  == <<store, pc, local, received, known>>

NoLocals ==
  [k |-> 1, mode |-> "HARD", judge |-> "off", lexical |-> {}, size |-> 0,
   first |-> <<>>, todo |-> {}, final |-> <<>>, results |-> {}, outcome |-> "none"]

Idle == [step |-> "idle", new |-> 0]

Init ==
  /\ chunks = Stored /\ entries = Stored /\ closed = {}
  /\ pc = [t \in Readers |-> "idle"]
  /\ local = [t \in Readers |-> NoLocals]
  /\ writing = [w \in Writers |-> Idle]
  /\ received = 0
  /\ known = [t \in Readers |-> {}]

At(t, step)   == pc[t] = step
Goto(t, step) == pc' = [pc EXCEPT ![t] = step]

----------------------------------------------------------------------------
(* Scores.                                                                 *)

Min2(a, b) == IF a < b THEN a ELSE b
Max2(a, b) == IF a < b THEN b ELSE a
Clamp(x)   == Max2(0, Min2(100, x))

Fanout(k)      == Max2(2 * k, MinFanout)
RerankLimit(k) == Min2(Fanout(k), MaxRerank)

\* The n best of S.  Of equal scores the code takes the one that comes first in
\* the dictionary it sorts; here it is the one with the smaller id, an order that
\* no property depends on.
Before(score, c, d) == score[c] > score[d] \/ (score[c] = score[d] /\ c < d)
Top(S, score, n)    == {c \in S : Cardinality({d \in S : Before(score, d, c)}) < n}

Lexical == [c \in Ids |-> Corpus[c].lexical]
Vector  == [c \in Ids |-> Corpus[c].vector]

LightJudge(x) == Min2(100, (50 * x.rank + 30 * x.authority + 20 * x.weight) \div 100)

Judged(judge, x) ==
  IF judge = "off"   THEN {x.rank} ELSE
  IF judge = "light" THEN {(x.rank + LightJudge(x)) \div 2}
  ELSE {(x.rank + s) \div 2 : s \in JudgeScores \cup {x.rank}}

\* In ten thousandths; tx_gamma weighs a mismatch of the two windows.
Fusion(x, rank, mismatch) ==
  LET base    == Weights.alpha * Clamp(rank) + Weights.beta * x.weight
                 + Weights.gamma * x.authority
      penalty == Weights.age * (IF x.meets THEN 0 ELSE x.age)
                 + Weights.tx * (IF mismatch THEN 100 ELSE 0)
  IN  Min2(10000, Max2(0, base - penalty))

\* Mutant: the weight of the time only enters the fusion.
FinalUnweighted(x, rank, mismatch) == 100 * Fusion(x, rank, mismatch)

\* In millionths.
Final(x, rank, mismatch) ==
  Fusion(x, Min2(100, rank + x.bias), mismatch) * Max2(5, x.weight)

\* Each further chunk of a region, in the order of the first stage, loses
\* eight hundredths more.
Ahead(first, S, c) ==
  {d \in S : Before(first, d, c) /\ Corpus[d].region = Corpus[c].region}

Diversified(first, final) ==
  [c \in DOMAIN final |->
     IF Corpus[c].region = None
     THEN 100 * final[c]
     ELSE final[c] * Max2(0, 100 - 8 * Cardinality(Ahead(first, DOMAIN final, c)))]

Admitted(mode, x) == IF mode = "HARD" THEN x.meets ELSE x.weight > 0

----------------------------------------------------------------------------
(* A retrieval.                                                            *)

Receive(t) ==
  \E k \in TopKs, mode \in {"HARD", "INTELLIGENT"}, judge \in JudgeModes :
    /\ At(t, "idle")
    /\ received < MaxRequests
    /\ received' = received + 1
    /\ local' = [local EXCEPT ![t] = [NoLocals EXCEPT !.k = k, !.mode = mode, !.judge = judge]]
    /\ known' = [known EXCEPT ![t] = chunks]
    /\ Goto(t, "list")
    /\ UNCHANGED store

\* The listing and its lexical search.
List(t) ==
  /\ At(t, "list")
  /\ local' = [local EXCEPT ![t].lexical = Top(chunks, Lexical, Fanout(local[t].k))]
  /\ Goto(t, "search")
  /\ UNCHANGED <<store, received, known>>

\* The iteration over the entries begins.
Search(t) ==
  /\ At(t, "search")
  /\ local' = [local EXCEPT ![t].size = Cardinality(entries)]
  /\ Goto(t, "searching")
  /\ UNCHANGED <<store, received, known>>

\* A chunk that only one of the searches found has 0 from the other.
Merged(lexical, vector) ==
  [c \in lexical \cup vector |-> (IF c \in lexical THEN Corpus[c].lexical ELSE 0)
                               + (IF c \in vector THEN Corpus[c].vector ELSE 0)]

\* Mutant: an entry is a hit before its chunk is stored.
SearchedUnstored(t) ==
  /\ At(t, "searching")
  /\ Cardinality(entries) = local[t].size
  /\ local' = [local EXCEPT ![t].first =
       Merged(local[t].lexical, Top(entries, Vector, Fanout(local[t].k)))]
  /\ Goto(t, "filter")
  /\ UNCHANGED <<store, received, known>>

\* An entry whose chunk is not stored yet is passed over.
Searched(t) ==
  /\ At(t, "searching")
  /\ Cardinality(entries) = local[t].size
  /\ local' = [local EXCEPT ![t].first =
       Merged(local[t].lexical, Top(entries, Vector, Fanout(local[t].k)) \cap chunks)]
  /\ Goto(t, "filter")
  /\ UNCHANGED <<store, received, known>>

Fail(t) ==
  /\ local' = [local EXCEPT ![t].outcome = "error", ![t].results = {}]
  /\ Goto(t, "idle")
  /\ UNCHANGED <<store, received, known>>

\* The query cannot be encoded.
EncoderRaises(t) ==
  /\ At(t, "search")
  /\ entries # {}
  /\ Fail(t)

\* Mutant: the search waits for the size it began with.
SearchWaits(t) ==
  /\ At(t, "searching")
  /\ Cardinality(entries) # local[t].size
  /\ UNCHANGED vars

\* Python ends an iteration over a dictionary that has grown.
SearchRaises(t) ==
  /\ At(t, "searching")
  /\ Cardinality(entries) # local[t].size
  /\ Fail(t)

\* The temporal filter and the cut before the reranker.
Filter(t) ==
  LET admitted == {c \in DOMAIN local[t].first : Admitted(local[t].mode, Corpus[c])}
  IN
  /\ At(t, "filter")
  /\ local' = [local EXCEPT
       ![t].todo = Top(admitted, local[t].first, RerankLimit(local[t].k))]
  /\ Goto(t, "score")
  /\ UNCHANGED <<store, received, known>>

Mismatch(c) == IF c \in closed THEN Corpus[c].mismatch.shut ELSE Corpus[c].mismatch.open

\* The tx window is read here, from the record the ingests share.
Score(t) ==
  /\ At(t, "score")
  /\ local[t].todo # {}
  /\ LET c == Min(local[t].todo)
         x == Corpus[c]
     IN \E rank \in Judged(local[t].judge, x) :
          local' = [local EXCEPT
            ![t].todo = @ \ {c},
            ![t].final = [d \in DOMAIN @ \cup {c} |->
               IF d = c THEN Final(x, rank, Mismatch(c)) ELSE @[d]]]
  /\ UNCHANGED <<store, pc, received, known>>

\* The cross-encoder or the backend of the judge raises, outside light mode;
\* nothing catches it.
RerankRaises(t) ==
  /\ At(t, "score")
  /\ local[t].judge # "light" /\ local[t].todo # {} /\ DOMAIN local[t].final = {}
  /\ Fail(t)

Diversify(t) ==
  /\ At(t, "score") /\ local[t].todo = {}
  /\ local' = [local EXCEPT ![t].final = Diversified(local[t].first, @)]
  /\ Goto(t, "reply")
  /\ UNCHANGED <<store, received, known>>

\* Mutant: the first stage decides which are returned.
ReplyFirstStage(t) ==
  /\ At(t, "reply")
  /\ local' = [local EXCEPT ![t].outcome = "ok",
       ![t].results = Top(DOMAIN local[t].final, local[t].first, local[t].k)]
  /\ Goto(t, "idle")
  /\ UNCHANGED <<store, received, known>>

Reply(t) ==
  /\ At(t, "reply")
  /\ local' = [local EXCEPT ![t].outcome = "ok",
       ![t].results = Top(DOMAIN local[t].final, local[t].final, local[t].k)]
  /\ Goto(t, "idle")
  /\ UNCHANGED <<store, received, known>>

----------------------------------------------------------------------------
(* An ingest, as far as a retrieval sees it (PVDB has all of it): vector,  *)
(* predecessor, chunk.                                                     *)

Write(w, step, new) ==
  /\ writing' = [writing EXCEPT ![w] = [step |-> step, new |-> new]]
  /\ UNCHANGED <<pc, local, received, known>>

Embed(w) ==
  \E c \in Ids \ entries :
    /\ writing[w] = Idle
    /\ entries' = entries \cup {c}
    /\ Write(w, "close", c)
    /\ UNCHANGED <<chunks, closed>>

Close(w) ==
  /\ writing[w].step = "close"
  /\ closed' = closed \cup ({Corpus[writing[w].new].supersedes} \cap chunks)
  /\ Write(w, "put", writing[w].new)
  /\ UNCHANGED <<chunks, entries>>

Put(w) ==
  /\ writing[w].step = "put"
  /\ chunks' = chunks \cup {writing[w].new}
  /\ Write(w, "idle", 0)
  /\ UNCHANGED <<entries, closed>>

Step(t) ==
  \/ List(t) \/ Search(t) \/ EncoderRaises(t) \/ Searched(t) \/ SearchRaises(t)
  \/ Filter(t) \/ Score(t) \/ RerankRaises(t) \/ Diversify(t) \/ Reply(t)

Next ==
  \/ \E t \in Readers : Receive(t) \/ Step(t)
  \/ \E w \in Writers : Embed(w) \/ Close(w) \/ Put(w)

Spec == Init /\ [][Next]_vars /\ \A t \in Readers : WF_vars(Step(t))

----------------------------------------------------------------------------
(* Properties.                                                             *)

Answered(t) == At(t, "idle") /\ local[t].outcome = "ok"

TypeOK ==
  /\ chunks \subseteq entries /\ entries \subseteq Ids /\ closed \subseteq chunks
  /\ \A t \in Readers :
       /\ local[t].results \subseteq DOMAIN local[t].final
       /\ Cardinality(local[t].results) <= local[t].k
       /\ local[t].results \subseteq chunks

\* Where the store fits the fan-out nothing is lost, whatever is ingested in the
\* meantime: a chunk that was stored when the request came and passes the
\* temporal filter is returned, or top_k others score at least as high
\* (retrieve_service.py 54-86, 168-170).
NothingIsLostWithinTheFanout ==
  \A t \in Readers :
    Answered(t) /\ Cardinality(entries) <= RerankLimit(local[t].k) =>
      \A c \in known[t] : Admitted(local[t].mode, Corpus[c]) /\ c \notin local[t].results =>
        /\ c \in DOMAIN local[t].final
        /\ Cardinality(local[t].results) = local[t].k
        /\ \A d \in local[t].results : local[t].final[d] >= local[t].final[c]

Exact(c) == Corpus[c].weight >= 90
Consistent(c) == ~ (Corpus[c].mismatch.open \/ Corpus[c].mismatch.shut)

\* The weight of the sources "unknown" and "document_tx_time" (dao.py 253-266).
\* A time of day or an ambiguous date has no valid time either, but weighs more,
\* up to 75.
Weak(c)  == Corpus[c].weight <= 12

Outranks(t, c, d) ==
  local[t].final[c] >= local[t].final[d]

\* The most that evidence of an unknown or a publication time only scores and the
\* least of exact evidence whose windows agree: the weights of the domain hold
\* them apart, also when seven chunks of the region come first.
WeakMost   == 12 * Min2(10000, 100 * Weights.alpha + 12 * Weights.beta + 100 * Weights.gamma)
ExactLeast == 90 * Min2(10000, 90 * Weights.beta)

\* Both domains of config/polar.yaml satisfy it, the generic one barely.
ASSUME WeightsAssumption == 100 * WeakMost < 44 * ExactLeast

\* Behind more chunks of its region even exact evidence is discounted too far.
Crowded(t, d) == Cardinality(Ahead(local[t].first, DOMAIN local[t].final, d)) > 7

\* Evidence of an unknown time or with a publication time only never outranks
\* exact evidence whose two windows agree, whatever the reranker and the judge
\* say, where at most seven chunks of the latter's region come before it
\* (retrieve_service.py 138-143, 168, dao.py 260-266).
WeakNeverOutranksConsistent ==
  \A t \in Readers : Answered(t) =>
    \A c, d \in DOMAIN local[t].final :
      Weak(c) /\ Exact(d) /\ Consistent(d) /\ ~ Crowded(t, d) => ~ Outranks(t, c, d)

\* Every retrieval ends, with results or with an error, while ingests go on.
RetrievalsEnd == \A t \in Readers : ~ At(t, "idle") ~> At(t, "idle")

=============================================================================
