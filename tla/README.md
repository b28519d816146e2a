# ChronoRAG in TLA+

A verification development for ChronoRAG: specifications translated from the
Python source, TLC configurations that check them on small instances, and
proofs that TLAPS checks for every value of the constants. Paths below are
relative to `src/`. `PROJECT.json` lists the runs, the mutants that show that
each property can fail, the source lines of every definition, the hazards and
the theorems.

## 1. The system

ChronoRAG answers questions from evidence that is dated twice: by the time a
claim is about (valid time) and by the time it was published or imported
(transaction time). A FastAPI server and a command line tool share one code
base; each process builds one `AppState` (`app/deps.py`) on first use.

| Component | State | Operations | Interaction |
|---|---|---|---|
| Chunk store, `storage/pvdb/dao.py` | documents, chunks, vectors, external-id index, dirty mark, one JSON file | load, ingest_document, upsert metadata, flush, clear, search, temporal_filter | called by every request thread without a lock; the file is shared by all processes |
| Ingestion, `app/services/ingest_service.py`, `core/ingestion/` | none | parse a payload, date each chunk, ingest, flush once | drives the store; reads the policy; writes freshness probes to the cache |
| Temporal chunking, `core/ingestion/temporal_contextual_chunker.py` | none | split a text, infer valid and transaction time, convert to windows | its windows and metadata are what the temporal filter later judges |
| Time windows, `app/utils/time_windows.py` | none | make_window, intersects, IoU, HARD mask, decay | used by all of the above |
| Application state, `app/deps.py` | the one `AppState` of a process | get_app_state (cached), set_policy_cfg | shared by all threads of the server |
| Runtime policy, `app/services/policy_service.py` | configuration, version, applied keys | apply, get | retrieval and answering read the configuration; the router and the hop controller keep what they were built with |
| Router and hop controller, `core/router/`, `core/dhqc/` | policy sets, last observations | route, plan | called by answer |
| Retrieval and answering, `app/services/retrieve_service.py`, `answer_service.py` | none | hybrid search, fusion, reduction, conflicts, answer | read the store while other threads write it |
| Generation, `core/generator/` | loaded backends | generate with fallbacks | calls external models |
| Cache, `storage/cache/redis_client.py` | Redis or a dictionary | set, get, clear | written by ingestion, cleared by a purge |
| Command line, `cli/chronorag_cli.py` | its own `AppState` | ingest, retrieve, answer, purge | another process over the same file |
| Benchmark evidence, `benchmarks/layer2_crossdomain/methods/chronorag_full/`, `core/ingestion/temporal_precision.py` | none | score rows of a corpus against the times of a question, correct the scores, fill slots | gives the answer runner its evidence |
| Answer runner, `benchmarks/layer2_crossdomain/run_layer2b_manual_qa.py`, `layer2b_qa.py`, `vertex_retry.py` | a results file | start, resume, retrieve, call with retries, append, stop | calls a provider; its file is what the judge reads |
| Judge, `benchmarks/layer2_crossdomain/run_layer2b_judge.py`, `llm_judge.py` | a results file of its own | start, resume, map, several runs with retries, vote, append, stop | reads the answers, which may be written anew meanwhile |
| Graph store, `storage/graph/`, `core/retrieval/graph_paths.py` | none | stubs | none |

**What is hard.** The endpoints are plain functions, which FastAPI runs in a
thread pool, and nothing in the store, the policy or the router is locked. The
snapshot is one file that is truncated before it is written. Every process
holds the whole store and writes the whole file. Revisions may come in any
order and with any mix of missing dates. How a chunk is dated is a cascade of a
dozen readings whose order matters, and its closed dates become half-open
windows. A language model or an encoder may fail between two steps, and a file
that cannot be read reads as an empty one.

**What would make each part correct.** The store: the index names the newest
version, superseded versions are closed, versions that came in order never
overlap, a clean store is a saved store, no chunk is lost to search, no vectors
of two models. Concurrent ingest: readers never follow a dangling reference,
requests end, and what was answered is saved. Several processes: nothing is lost
and nothing purged comes back. Dating: a valid time comes from the evidence it
names as its source, the transaction time of a row is kept. Filtering: weak
evidence does not outrank dated evidence, a stricter mode is a subset of a laxer
one. Policy: an idempotency key applies once, the version names the
configuration. Retrieval: nothing that was stored is lost, whatever is ingested
meanwhile. Answering: a conflict is never silent, a fallback is declared, no
model is called that was not configured. Benchmark evidence: what a question
rules out does not stand for what it asks. Runner and judge: nothing is
completed twice, sessions end, a pass rests on an answer that passed.

## 2. The modules

| Module | Models | Depends on |
|---|---|---|
| `TimeWindows` | interval algebra of `time_windows.py` | |
| `VersionLog` | abstract: a log of versions that is saved, lost and recovered as a whole | |
| `PVDB` | the store of one process, method by method, with its file | `TimeWindows`, refines `VersionLog` |
| `PVDBThreads` | `POST /ingest` in threads, every access a step | |
| `StoreSharing` | several processes over one file | |
| `TemporalEvidence` | dating of chunks and the temporal filter | `TimeWindows` |
| `Policy` | `POST /policy/apply` and `GET /policy` in threads | |
| `Retrieval` | hybrid retrieval of a query beside ingests | |
| `Routing` | windows, axis and mode of a query; hop plan (pure) | `TimeWindows` |
| `ChronoReducer` | reduction of passages, conflicts (pure) | `TimeWindows` |
| `Answering` | `POST /answer` from routing to the reply, with generation | `Routing`, `ChronoReducer` |
| `TemporalPrecision` | how a row fits the times of a question (pure) | |
| `SlotAssembly` | from scores to the evidence of a benchmark question | `TemporalPrecision` |
| `AnswerLedger` | abstract: what a results file promises over sessions | |
| `ManualQA` | sessions of the answer runner over its file | |
| `QAJudge` | the judge over its own file, beside the answer runner | `ManualQA`, refines `AnswerLedger` twice |
| `PVDBProofs`, `PVDBThreadsProofs`, `TemporalEvidenceProofs`, `RetrievalProofs`, `AnsweringProofs`, `SlotAssemblyProofs`, `QAJudgeProofs` | theorems | the module each is named for |
| `AppStateProofs` | theorems about the policy and the stores of `AppState` | `Policy`, `StoreSharing` |
| `MC...` | instances of the module of that name | |

The store is specified at three grains, because its hazards live at three
grains: whole methods with all their data (`PVDB`), single accesses with the
windows left out (`PVDBThreads`), whole commands of several processes
(`StoreSharing`). `Retrieval` adds the reader's side of the second grain.

### PVDB

State: `documents`, `chunks`, `ann`, `external_index`, `dirty` are the fields
of the Python object, `disk` is the file with the embedding it was written
under, `status` and `encoder` are the process. A chunk is the row it came from
(which never changes) and the two fields the store itself rewrites: its
transaction window and its version id. Chunk ids are numbers in the order they
are issued; the code uses UUIDs, which are as fresh, across restarts too.

Actions: `Start`, `StartUnread` and `StartRefused` are `__init__` with
`_load_from_disk`. Whatever the reading or parsing of the file raises, be the
file torn or intact, `StartUnread` opens an empty store that is not dirty, and
the embedding of the file is not compared. A foreign embedding is refused, and
so is a vector of another dimension and an encoder that raises while vectors are
rebuilt. `IngestDocument` is `ingest_document` with its predecessor closed, its
index set and its mark; `IngestFails` is the encoder raising after the document
was registered; `UpsertDocumentMetadata`, `Flush`, `Clear` are the methods of
that name; `FlushFails` and `ClearFails` are `write_text` failing before or
after it truncated the file; `Stop` is a crash or an exit, neither of which
saves. `Flush` on a clean store writes nothing and is a stutter. The history
variable `embedder` remembers under which model a chunk was embedded. Document
metadata, entities, tags, authority and the text are carried along by the code
and decided on nowhere in the store, so they are not in the model.

### PVDBThreads

`pc` and `local` hold where each thread is in `ingest` and its local
variables. A row is its external id and whether it has a tx window: only such a
row closes its predecessor. One step is one access to something shared: register
the document, add the vector (or `EmbedRaises`), look up and close the
predecessor, store the chunk, set the index and the mark; then the flush: test
the mark, iterate over the documents and then over the chunks, one per step
(`SnapshotRaises` where either dictionary has grown, as in CPython), `Dump` the
text, which reads the index only now, truncate, write (`WriteRaises` before or
after the truncation), take back the mark. A request that raises ends in `Fail`,
with what it had stored left in memory. Two writes that overlap may leave a file
that does not parse. The iteration over the documents is one step with a note
whether they grew. Looking the predecessor up and closing it is one step; the race
it leaves is between that step and the index, which is enough for the run below
to find. The ghosts remember which chunks were acknowledged (`acked`), whether
the last request returned or raised (`returned`), whether two requests ever
overlapped (`overlap`), and for which external ids two requests in progress both
had rows (`raced`).

### StoreSharing

A store that is open holds a copy of the whole file and every ingest writes that
copy back. Each command returns or raises: `Load` may not be able to read the
file and opens an empty store, `IngestRaises` leaves chunks in memory that a
later `Flush` writes, and a write of any command, a purge included, may fail
before or after it truncated the file. `blind` are the stores that could not
read the file or have not seen what another one wrote since; `overwritten` says
that one of them has written it. The two `AppState`s that `lru_cache` may build
when two first requests come together are two stores here. The cache and the
policy keys that `purge_system` also clears belong to the process that purges.

### TemporalEvidence

An instant is a day. A text is the record of what `extract_temporal_constraints`
and the chunker's regular expressions find in it, a payload the dates of its
row. A date of a row (`RowDate`) may be one that `parse_date` cannot read: it is
the `Epoch` then, January 1, 1970, as in the code. The formats it does read are
left out. `Infer` is the cascade of `infer_temporal_metadata`, one operator per
reading in the order of the code, `ChunkOf` what ingestion stores. `Quality` is
`_temporal_quality_weight` in units of 1/20000, in which all of its values are
integers, and `TimeWeight` keeps the decay as a divisor, so that weights are
compared exactly. The clamp to 0.05..1 never acts on a value this function can
reach, which `TypeOK` checks for the upper end.

### Policy

A section of the configuration is named by the version that set it. `pc` and
`local` are per thread as above. `update`, `version` and `record` of
`set_policy_cfg` are single steps, as is each read of `get_policy`. Ghosts count
how often the changes of a key were made and remember whose were last.
`Restart` is the server stopping in the middle of anything: keys and
configuration live in memory only. The administrator's token is left out: a
request without it changes nothing. A purge clears the keys of the process it
runs in, which is never the server.

### Retrieval

`Corpus` says what the query finds in each chunk: the scores of the two searches
and of the reranker, the weight that `temporal_filter` gives, whether its two
windows agree before and after the transaction window is closed. A reader runs
the pipeline of `retrieve_service.retrieve`: `List` the chunks and search them
by words, `Search` and `Searched` the vectors (or `SearchRaises`, when the
dictionary has grown in between, as in CPython), `Filter` and cut to the rerank
limit, `Score` one candidate at a time (reading the window that ingests may
close), `Diversify` by region, `Reply`. The query's encoder may raise
(`EncoderRaises`), and so may the cross-encoder or the backend of the judge
(`RerankRaises`). Chunks of equal scores come in the order of their ids; in the
code it is that of a dictionary, and no property depends on it. Writers take the
three steps of an ingest a reader can see: vector, predecessor, chunk. Scores
are hundredths; the final score is the exact product in millionths. The judge's
backend may answer anything of `JudgeScores` or fall back to the rank.

### Routing, ChronoReducer, Answering

An instant is a year in these modules, and a query is what the router's regular
expressions and keywords find in it. `Route` and `Plan` are the functions of
that name; `InferWindow` keeps the order hint, period, century, years.
Reduction is a loop over the passages the plan leaves: `PlanHops` takes the first
of them, `ReducePassage` puts one into the bucket of its text and start
(`Bucketed`, with the code's `or` between authority and score), and `Reduce`
orders what is kept (`Sorted`, stable, by rank) and detects the conflicts:
`DetectConflicts` compares every two by intersection over union in whole tenths.

`Answering` follows one request at a time through `answer_service.answer`. The
list `Retrieve` returns is any of `Retrievals` that the mode allows, in the
order of scores; `RouteFails` is the hint at the last day of the calendar,
`RetrieveFails` an exception. `Block` is the answer withheld for a conflict.
`Generate` chooses between light mode, a named provider and the local
backends; the actions after it are the steps of `generate.py` with two
attempts, the second on fewer passages. Texts are named by where they come
from: `model_text`, `model_echo` (a model that opens like a digest or repeats a
note, which `IsFallback` takes for one), `digest`, `no_evidence`,
`provider_note`, `withheld`. `calls` counts the calls that generate a reply; the
retrieval of the same request may call a backend as its judge, which is
`Retrieval`'s.

### TemporalPrecision, SlotAssembly

A year has ten days here and a month five. Constraints are what
`extract_temporal_constraints` finds in a question, with negation and
ambiguity; `Fits` gives the code's scores in hundredths. `SlotAssembly` follows
one question: `Fuse` the words (any relevance of `Relevances`) with time,
`Finalize` with the three corrections in their order, then `FillSlot` slot by
slot, `FillEligible`, `FillWeak` or `SkipWeak`, `Emergency`; `Rank` when an
ablation switches the assembler off. Each of these takes one row at a time, as
the loops of the code do (`Take`, the `First` in the order of the loop), because
the row taken decides what is left to take. Constraints are intervals the
extraction can give (`WellFormed`): their start does not follow their end. Each
has its place in the question (`at`), so that a day that is named twice is two
constraints, which turns the correction for the exact time off.

The fields of a row that are compared with words (entity, source family, source
file by its stem, metric, text, source kind and domain) are sets of tokens,
without the generic ones that every source has. `SourceStrength` is the best
overlap of any of a row's source fields in whole hundredths, and what
`SourceMetricAdjustments` adds is proportional to it from one half on. Of the
corrected scores `Finalize` hands the `PoolSize` best rows to the assembler
(`pool`; 200 in `finalization.py` 92). The finalizer and the assembler look for
words of their own in the question: `cue` and `explicit` are those of the first,
`conflict` and `validTime` those of the second. The sides of a comparison are
given with the question.

### ManualQA, QAJudge, AnswerLedger

A case is its number in the file of questions. `answers` and `verdicts` are the
rows of the two files, `answersEnd` and `verdictsEnd` say whether the last line
is whole, without its newline, or broken. `QAStart` selects the cases of a
command line, leaving out the completed ones it loads. What is left is a set of
cases (`qleft`), done in their order; for the judge (`jleft`) it is the answer
rows it loaded, under their places in the file. `QAOpen` truncates or keeps the
file; `QARetrieve`, `QAAnswer`, `QARetry`, `QACallFails` and `QAAppend` are the
body of the loop; `QAStops` is a crash or an exception at any step, in
`QAAppend` also inside the line. A row that is appended behind an unended line
makes one unreadable line with it; `answers` keeps both as rows, and
`answersEnd` tells that the file is refused from now on. A session that does not
resume mends it. The `Judge...` actions are the same for the judge, where
`JudgeMap` may find an answer, a case or a piece of evidence missing for any
row, and whose verdict takes `JudgeRuns` runs, each with a bound on failed calls
and one on unreadable replies, and a vote over the runs that were scored. `seen`
and `old` are the rows the summary is made of and how many of them were loaded.
The ghosts `jfresh` and `fresh` say that the answers have not been started again
since the judge loaded them, and not since it started its own file from them.
`made` counts the sessions of each runner.

`AnswerLedger` is what either file promises: a case that is done stays done as
long as sessions keep what is there, one case changes at a time, and only a
session that does not resume starts again.

## 3. The runs

| Run | Shows | Bounds |
|---|---|---|
| `store` | the store's invariants, its history property and the refinement of `VersionLog`, with files that cannot be read | 4 chunks, 5 instants, 6 rows, 2 external ids, 2 embeddings |
| `threads` | what readers, snapshots, lineage and serial requests rely on when encoders and writes fail; requests end | 2 threads that share an external id, 3 rows in all, requests of one or two rows with and without tx window |
| `threads_saved` | an answered request may not be on disk (violated) | 2 rows |
| `sharing` | chunks are lost and purged ones come back only by a blind write | 3 stores, 3 chunks, every command may fail |
| `evidence` | dating and filtering | 3 years of 3 days, 14 texts, 13 rows, 5 windows, 2 chunks |
| `evidence_decay` | INTELLIGENT drops dated evidence (violated) | 1 chunk |
| `policy` | keys and versions with threads and restarts | 2 threads, 3 requests, 4 patches |
| `retrieval` | nothing is lost within the fan-out, weak evidence does not win, retrievals end | 4 stored and 2 ingested chunks, 1 reader, 2 writers, top_k 1 to 3, fan-out of at least 3, 5 reranked |
| `answering` | conflicts, reduction, fallbacks, calls and windows | 20 years, 13 queries, lists of up to 3 passages, 6 coverages, 5 environments, 2 requests |
| `slots` | scores, corrections, the cut and the slots together | corpora of 1 or 4 of 8 rows, of which the best 3 reach the assembler, 14 questions, 5 ablations, top_k 0, 2, 3, relevance 0 or 100 |
| `slots_negated` | a date that is ruled out fills the slot of the target (violated) | top_k 0, 1, 3 |
| `judge` | nothing completed twice, complete reports, passes that rest on answers, the refinement of both ledgers, sessions end | 2 cases, up to 2 sessions of each runner, 3 command lines each, 2 attempts, 1 run per verdict |

Every bound is a constant of its module (`MaxChunks`, `MaxRequests`,
`MaxSessions`) or a finite set given by the configuration.

- Four chunks in `store` allow three revisions of one external id with a chunk
  of another between them, or two revisions around a purge; rows have windows
  that are open, closed, early, late and missing.
- Two threads are the least at which anything interleaves. They have an external
  id in common and one of them another besides, so that ids that race and ids
  that do not stand side by side; a request of two rows lets a snapshot meet a
  growing dictionary and a request fail after a row of its own.
- Three stores in `sharing` are one that writes, one that has not seen it, and
  one that is opened afterwards.
- `evidence` needs two chunks only to compare them: every text meets every row
  on its own.
- `retrieval` has one reader because readers share nothing with each other, and
  two writers so that one ingest can be in the middle of its steps while another
  completes. The six chunks are one of each kind the weights tell apart and two
  revisions; with top_k 1 the fan-out is smaller than the store, with 3 it is
  not.
- Two requests in `answering` show that nothing of the first reaches the second.
- In `slots` four rows are enough for a target, its neighbour, a filing and a
  rival of another source, and every four of the eight are tried; three of four
  in the pool is the smallest cut that takes a row away and leaves a choice.
  Relevance 0 and 100 are the extremes of what words may add.
- Two sessions of each runner in `judge` are a first and a resumed or renewed
  one of either, in any order and overlapping. One run per verdict keeps the
  states few; the vote over several is in the proofs, which hold for any number.

**Deadlock.** Checked in `store`, `sharing`, `evidence`, `evidence_decay` and
`policy`. The others say `CHECK_DEADLOCK FALSE`, because the modelled system
really stops: a server that has received the bounded number of rows or requests
and answered is at rest, a question's evidence is assembled once, and after the
last session nothing starts.

**Fairness.** Three properties need it. `RequestsEnd` assumes that a thread in
the middle of an ingest keeps running, `RetrievalsEnd` the same of a reader,
`SessionsEnd` that the process of the runner and that of the judge do (each is
weak fairness of the steps of one thread or process, not of single actions). The
code has no lock, queue or condition on which these could wait; every loop is
over a collection that was taken before or over a bounded number of attempts; a
call of a provider is taken to return or raise, as clients with a timeout do. No
fairness is asked of requests arriving, sessions starting or crashes, and none
of a particular outcome of a call.

**Where code and words differ.** The violated runs state what a docstring or a
guide says; `PROJECT.json` quotes it. Further differences that were found while
modelling and have no run of their own:

- `ExactBeatsItsNeighbours` leaves out a question that rules out the month or the
  year of the very day it asks for ("on the 11th, but not in its month"):
  the excluded fit takes everything off the target's score, and the neighbours
  pass it. Where only times around the day are ruled out, the target loses a
  share of its score, and a neighbour whose file, kind or domain the question
  names may still pass it: source fields are rewarded that neighbours need not
  share. A day named twice leaves no correction for the exact time at all.
- Rows behind the 200 best of a corpus never reach the assembler, whatever time
  they are of, so a side of a comparison whose only row is among them is lost.
- Diversity discounts a chunk by eight hundredths for every chunk of its region
  ahead of it, whatever its dates, so exact evidence behind eight chunks of its
  region (`Crowded`) may come after evidence without any valid time.
- Even with fewer, that order rests on the weights (`WeightsAssumption`: what
  evidence without valid time can score at most is below 44 hundredths of what
  exact evidence scores at least). Both domains of `config/polar.yaml` satisfy
  it, the generic one by less than two per cent; nothing in the code asks it of
  a policy that is patched in.
- Evidence that is dated by a time of day, or ambiguously, has no valid time either
  but weighs up to .75, and can outrank exact evidence:
  `WeakNeverOutranksConsistent` speaks of what weighs at most .12, an unknown or a
  publication time.
- A purge does not admit another embedding, as the error message promises: it
  has to open the store first, and opening is what raises (`StartRefused`).
- An intact file whose reading fails once (permissions, memory, an interrupted
  call) opens as an empty store that is not dirty, and the next write puts that
  store over the good file (`StartUnread`). `CleanMeansSaved` therefore says of a
  clean store that it is what the file holds or empty.
- A row without tx window leaves its predecessor open: the two versions are open
  together, in one thread too.
- Two threads that revise one external id may miss each other's version, because
  the predecessor is looked up before the index is set;
  `LineageHoldsUnlessRaced` says what holds without that.
- A purge by the command line is undone by the server's next ingest, which
  writes back the copy it holds, and chunks are lost in the same way;
  `OnlyBlindWritesLose` says that there is no other way.
- `ingest_service.py` 5-7 calls ingestion idempotent. A row without external id
  that is ingested twice is stored twice, and a predecessor that its own row had
  closed early is closed again at a later instant (`ClosedTx` takes no account
  of the old end).
- A year is dated from January 1 to December 31 and both become bounds of a
  half-open window, so `AS_OF` December 31 misses it, and a claim about a
  single day has an empty window, which HARD never matches.
- A row date that `parse_date` cannot read, such as a year alone, becomes
  January 1, 1970, as a valid and as a transaction time
  (`ValidTimeHasItsSource` lets the `Epoch` through for such rows only).
- Two publication years in one text become its valid time (`SeveralYears`),
  one does not (`PublicationYear`).
- What the extraction hands to the models has surprises of its own, seen by
  running it: a day written in words also yields its whole month, positive even
  when the day is negated ("not on 5 March 2020"); a negated interval stays
  positive; `infer_temporal_metadata` does not look at polarity, so "2020, not
  2019" is valid from 2019 to 2020; the 1990 of "1990 international dollars",
  which `_years` leaves out, still counts as a year of the claim. Splitting a
  text with several years drops its sentences without a year.
- A claim dated by a time of day only is undated to the store and may outweigh a
  range that is dated.
- One idempotency key may be applied twice by two threads, and two patches
  interleaved between `policy_cfg` and `policy_version` leave the version of one
  over the changes of the other; the `Serial...` properties say what holds
  without that.
- The router and the hop controller keep the policy they were built with.
- `route` keeps its observations in the router all requests share and `answer`
  reads them back later, so the `router_metrics` of a reply may be those of
  another request. Nothing is decided on them.
- The gain of the hop controller is measured from tau, so every coverage below
  tau counts as stalled: `Plan` always takes one hop off, and the reason
  `low_coverage` is never given.
- A question that names no time is scored by the labels of its own case
  (`Scored`), which the retrieval of a benchmark should not see.
- The `score_only` ablation switches the corrections and the slots off but keeps
  temporal precision in the fused score (`Fuse` asks for `"precision"` alone).
- A results file whose last line is torn is refused by a resumed session, and a
  last line without newline becomes such a line when a session appends to it. Only
  a session that starts again mends the file, and it drops what was there.
- Rows of a dry run count as completed, so the resumed run leaves those cases
  out.
- A judge that resumes keeps verdicts about answers that were since written
  anew. `PassesRestOnAnswers` says that there is no other way for a pass without
  its answer: the answers have then started again after the judge started its
  file.
- The vote passes a field that half of the scored runs confirm, so a tie passes. No
  property rests on that threshold.

## 4. The proofs

Each proof module holds the theorems of one component, for any values of its
constants that satisfy its named assumptions. TLC evaluates all of them.

| Assumptions | Say |
|---|---|
| `PVDBAssumption`, `ThreadsAssumption`, `SharingAssumption`, `PolicyAssumption`, `AnsweringAssumption`, `ManualQAAssumption`, `QAJudgeAssumption` | the types of the constants; markers for absent values are none of the values; counters and numbers of attempts are naturals; results come in the order of their scores |
| `HorizonAssumption`, `CalendarAssumption`, `EvidenceAssumption` | instants are numbered from 0, years have one length and fill the calendar, the `Epoch` is a New Year in it, texts and rows are records of what the extraction can find |
| `RoutingAssumption`, `OverlapAssumption` | pads and limits are naturals, Tau is a percentage above 0, the overlap that counts as a conflict is 1 to 10 tenths |
| `RetrievalAssumption` | scores are percentages; only a chunk whose window meets the query's weighs more than 12 hundredths, as `TemporalEvidence` computes it |
| `WeightsAssumption` | the weights of the fusion hold undated and exact evidence apart (section 3 says where the shipped ones do) |
| `SlotAssumption` | rows and questions are of their types, every row names a source, a question has no sides or two and finitely many well-formed constraints, relevance is 0 to 100, `PoolSize` is a natural |

**`PVDBProofs`** proves every property of the run `store`. None of the
invariants is inductive alone. That versions in order never overlap
rests on the index naming the newest version (else a row would close the wrong
one), on closed windows keeping the start their row gave, and on every version
ending before any later one starts, not only its neighbour. A restart brings
the file back into memory and a purge does not always reach the file, so all of
that must hold of the file by itself as well. `IInv` is therefore `Sound` of
memory, `Sound` of disk, vectors for exactly the chunks, nothing in memory while
no process is up, a clean memory equal to the disk or empty (a file that could not
be read, `StartUnread`), and every chunk, in memory and on disk, embedded under the
model of its store or file (`EmbeddedOnce`, the theorem `NoMixedEmbeddings`): a
store opened over a foreign file that could not be read mixes nothing, because it
is empty and its next write replaces the whole file.
`IngestEffect` says what a row does chunk by chunk, `SupersedesTheTip` and
`OnlyTheTipIsSuperseded` that it touches only the newest version of its external
id; from these each conjunct of `Sound` has its lemma, and `NextInv` has one
step per action. `SoundIsDisjoint` derives disjointness. `HistoryIsKept` follows
from the same lemmas, and so does the refinement: ingests append, flushes save,
starts recover, stops and purges drop, failed writes lose the saved copy or
nothing, everything else stutters.

**`PVDBThreadsProofs`** takes any number of threads and rows. `WorkInv` says
what each thread's locals are at each of its steps (a chunk that is embedded is
not stored yet, the one to be indexed is), `IssuedInv` that ids are fresh,
`PastInv` that the snapshot a thread carries, and the file, hold nothing that
memory has not; memory only grows, so this is stable under every other thread.
`ReadersFindChunks` is inductive with these. `LineageHolds` adds two parts:
`ApartInv`, requests that have rows of one external id at once have raced for
it, and `LineageInv`, which says of every other id, at each step of the one
request that extends it, which version is the tip and by whom it is closed
(`LineageOf`). Between the closing and the index the tip is closed by a version
that is not there yet, or there and not yet named. Only the steps of that one
request disturb it (`LineageStays`). The case without overlap is tracked by the
history variable `overlap`: then one request at most is in progress, and at rest
(`Saved`) the last request that returned left the store not dirty, and a store
that is not dirty is what the file holds. `Progress` follows the one thread
through its rows and its flush, saying what of memory is in its snapshot, and
that whatever raises on the way leaves the mark behind.

**`AppStateProofs`** has the policy and the stores. Of the policy, without
overlap: one request is in progress (`Alone`), a key is recorded exactly when
its patch has been applied, except between those two writes (`KeysInv`), and the
version is that of the last changes, except until it is written (`VersionInv`).
Of the stores: until a blind store writes the file, `SharingInv` is
`OnlyBlindWritesLose` with types, since every store that has seen the file
(`Seeing`) holds all that was acknowledged and nothing that was purged, and each
write of such a store makes the others blind. Failed and torn writes keep that:
they leave memory as the command made it and the file as it was or unreadable,
and who loads an unreadable file is blind.

**`TemporalEvidenceProofs`** proves the four properties of the run `evidence`
for any calendar. The invariant is slight (every chunk is `ChunkOf` some text
and row, the hits are what the filter admits of them); the work is in the
operators. `Sound` says of a reading that its window comes from the source it
names, `DateType`, `EpochYear` and `RowType` what becomes of a row's dates, those
that cannot be read included; `SoundWindow` carries it to what is stored. The
cascade has one lemma per reading (`SeveralClaimsSound`, `BestClaimSound`,
`RowClaimSound`, `PublicationSound`, `RangeSound`, `YearsSound`), put together in
`ReadingsSound` and `InferSound`. `QualityBounds` bounds the weight of a source
by what dates it, and `WeighsMore` carries a gap between two qualities through
the decay, which divides both by the same number. `LastInstant` and `HullType`
give minima and maxima of sets of instants, by well-foundedness.

**`RetrievalProofs`** takes any corpus, readers, writers and fan-out. `StoreInv`
orders the steps of a writer (an entry is there before its chunk), `HandInv` says
that what a reader has in hand was stored when it read it, `FitInv` follows a
chunk that was stored when the request came through every stage whose limit
covers the store, and `ScoreInv` keeps weak evidence (of an unknown or a
publication time, weight at most 12 hundredths) and exact evidence apart through
fusion, reranking and judge, and after the discount of its region. `Top(n, S)` is
characterised by three lemmas (`TopSize`, `TopAll`, `TopFull`), which is what
`NothingIsLost` needs when the cut to `top_k` leaves something out;
`FusionBounds`, `FinalBounds` and `DiversifiedBounds` are the arithmetic of
`WeakNeverOutranks`.

**`AnsweringProofs`**: `LaneInv` relates each step to the calls made so far
(none before generation, in light mode none at all, one to a provider, as many
as `attempts` to the backend in use) and `ReplyInv` says that a text of a model
has a call behind it and that no reply is there before its end; `TypeInv` gives
the types both need. `YearWindowCovers` gives `YearsAreSearched`. `EvidenceInv`
follows the passages: `ResultsInv`, results are in the order of their scores;
`KeptInv`, after each turn of the reduction every passage taken is represented
in its bucket by one that is no worse; `ConflictInv`, what is reported are the
conflicts of what is kept. `PlaceIsOnto` and `SortedKeeps` show that sorting
neither drops nor adds a passage, `OverlapIsDetected` that a shared text on
overlapping windows is found whichever of the two comes first.

**`SlotAssemblyProofs`**: `TypeInv` with the types of the scores at every stage;
`ScoreInv`, once the words are fused with time a target is ahead of its
neighbours by more than words or corrections can make up (`FitsAreBounded`,
`ExactWeight`, `OtherWeight`, `FusedBounds`; `OverlapType` and `StrengthType`
bound the shares, and `AdjustedKeepsApart` and `AdjustmentsKeepApart` carry the
gap through the corrections); `AssemblyInv`, slots are filled in their order
(`SlotsInv`), what was required is seated or the seats ran out (`RequiredInv`),
a row the question rules out sits alone if at all (`AloneInv`), no filing stands
in for another's slot (`FilingInv`), and each side of a comparison has a row of
its own (`SidesInv`). `TurnIsNext`, `SlotIsMissed` and `SlotIsFilled` are the
three ways a turn of the loop can go. The condition of `ExactBeatsItsNeighbours`
about ruled out days came from this proof: without it the step of `Fuse` fails,
and TLC has the question that shows it. So did the one about sources: the gap
survives the reward of any source where nothing is ruled out, and where times
are, only if the target's source is named as well as its neighbour's. Rows cut
off by `PoolSize` are outside `AssemblyInv`, which speaks of `pool`.

**`QAJudgeProofs`** proves everything safe about the two files, for sessions
that stop anywhere. `QAInv`: a session knows the rows of its file, and one that
started it leaves it whole (`QASeen`); it does only what is not done and has the
rest when it covers all cases (`QAWork`), and no row follows the one that
completes its case (`Closed`). `JudgeInv` says the same of verdicts, whose rows
rest on the answers the judge loaded and not on those that are there now.
`Grounded` keeps the two together: while `jfresh` holds what is left to judge is
in the file of answers, and while `fresh` holds so is the answer of every pass,
through growing answers (`AnswersGrow`) and resumed sessions of either runner;
an answer session that starts again ends both, and only verdicts that start
again make `fresh` true anew. `FilesAreLedgers` is the refinement: `LedgerOf`
maps each file to its ledger, an append changes one case (`LedgerOfAppend`), an
opening without resume starts again, everything else stutters.

**What let these be proved.** What a recursive definition computes over a list is
beyond these provers, so sorting is stated by the place of each element, minima
by choice, and each loop whose outcome depends on its earlier turns takes one
turn per step, where an invariant can follow it.

**Only model-checked.** Liveness (`RequestsEnd`, `RetrievalsEnd`, `SessionsEnd`):
it rests on fairness and enabledness, which are out of this prover's reach. Every
invariant, action property and refinement of a passing run has its theorem.

## 5. Not modelled

- Regular expressions, the formats of dates, prompts, retrieval text, answer cards'
  wording: text and layout. What they find is an input of the models.
- The grouping of candidates into the sides of a comparison
  (`_candidate_slot_groups`, `slot_assembler.py` 575-612): the sides come with the
  question.
- Scores of encoders, rerankers and models: floating point of external
  libraries; the models take any of a few values.
- The cache: ingestion writes it, a purge empties it, no code reads it, so
  nothing depends on it.
- The graph store and graph paths: stubs without state.
- Data builders, report, chart and table generators, the language-model
  baselines and the comparison runs: they read inputs and write reports once.
- The comparison judge and the salvage of broken JSON: text.
- The lineage of a row that splits into several claims: which external ids it
  gets is decided by the splitting of sentences.
- Times of day; `ANNIndex.bulk_add` and `rebuild`, `expand_window` and the
  unused window helpers of `ingest_service.py`, which no code calls.
- Requests of several threads in `Answering`: they share nothing but the
  router's observations, told in section 3.

## 6. Plan

What is left, the most important first:

1. More of the extraction that `TemporalEvidence` and `TemporalPrecision` take
   as given: which spans of a text `temporal_precision.py` lets a date claim
   (`_covered`), and how role and polarity attach to it.
2. The parsing of payloads in `ingest_service.py` and the packing of sentences
   in the chunker as pure operators, and over them the lineage of rows that
   split into another number of claims.
3. `StoreSharing` as what `PVDBThreads` promises of each process when its
   requests do not overlap, by refinement.
4. Model loading and the fallbacks of the embedding and reranking backends
   (`llm_loader`, `vertex_provider`), beside `Answering`.
5. The hop controller's plan as it would be with the gain measured from zero,
   should the code be changed.
