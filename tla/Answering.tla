----------------------------- MODULE Answering -----------------------------
(***************************************************************************)
(* POST /answer: one request from routing to its reply                     *)
(* (app/services/answer_service.py) with the generation of the text        *)
(* (core/generator/).  Retrieval has a module of its own; here it is any   *)
(* list in the order of its scores, or an error.                           *)
(***************************************************************************)
EXTENDS Routing, ChronoReducer

CONSTANTS
  Queries,
  Retrievals,        \* what retrieve may return: [results, coverage]
  Environments,      \* [light, provider, order, limit]: CHRONORAG_LIGHT,
                     \* CHRONORAG_PROVIDER, strategy_order, max_passages
  RetryPassages,     \* passages of the second attempt, 8 in the code
  MaxRequests        \* bound: requests in all

Backends  == {"openai_compat", "local_hf", "llama_cpp", "ollama"}
Providers == {"none", "vertex", "other"}

InScoreOrder(results) ==
  \A i, j \in DOMAIN results : i < j => results[i].score >= results[j].score

ASSUME AnsweringAssumption ==
  /\ Queries \subseteq Query
  /\ \A r \in Retrievals : r.results \in Seq(Passage) /\ InScoreOrder(r.results)
                           /\ r.coverage \in 0..100
  /\ \A e \in Environments : e.light \in BOOLEAN /\ e.provider \in Providers
                             /\ e.order \in Seq(Backends) /\ e.limit \in Nat
  /\ RetryPassages \in Nat /\ MaxRequests \in Nat

VARIABLES
  pc,
  received,   \* against MaxRequests
  query, requested, environment,
  routed,     \* the decision of the router, with the mode in effect
  retrieved,  \* results and coverage
  plan,       \* the plan of the hop controller
  read,       \* how many of the results the reduction has seen
  reduced,    \* passages after reduction, in order
  conflicts,  \* pairs of positions of reduced
  backend,    \* where generation stands: backends still to try, the first in use once loaded
  attempts,   \* generate calls made to the backend
  calls,      \* ghost: every model that was called
  reply       \* the response

given    == <<query, requested, environment>>
evidence == <<routed, retrieved, plan, read, reduced, conflicts>>
model    == <<backend, attempts, calls>>
vars     == <<pc, received, given, evidence, model, reply>>

NoReply == [text |-> "none", level |-> "none", evidenceOnly |-> FALSE, sources |-> <<>>,
            degraded |-> {}, events |-> 0, reason |-> "none", shortfall |-> FALSE]

NoRoute  == [window |-> AllTime, kind |-> "none", axis |-> "valid", mode |-> "HARD"]
NothingRetrieved == [results |-> <<>>, coverage |-> 0]
NoPlan   == [hops |-> 0, reason |-> "none"]

Init ==
  /\ pc = "idle" /\ received = 0
  /\ query \in Queries /\ requested \in {"unset", "HARD", "INTELLIGENT"}
  /\ environment \in Environments
  /\ routed = NoRoute /\ retrieved = NothingRetrieved /\ plan = NoPlan
  /\ read = 0 /\ reduced = <<>> /\ conflicts = {} /\ backend = <<>> /\ attempts = 0 /\ calls = <<>>
  /\ reply = NoReply

At(step)   == pc = step
Goto(step) == pc' = step

Receive ==
  /\ At("idle") /\ received < MaxRequests
  /\ received' = received + 1
  /\ query' \in Queries /\ requested' \in {"unset", "HARD", "INTELLIGENT"}
  /\ routed' = NoRoute /\ retrieved' = NothingRetrieved /\ plan' = NoPlan
  /\ read' = 0 /\ reduced' = <<>> /\ conflicts' = {} /\ backend' = <<>> /\ attempts' = 0 /\ calls' = <<>>
  /\ reply' = NoReply
  /\ Goto("route")
  /\ UNCHANGED environment

\* The mode of the request comes before the router's.
RouteQuery ==
  /\ At("route") /\ ~ (query.hint # NoHint /\ HintOverflows(query.hint))
  /\ routed' = [Route(query) EXCEPT !.mode = IF requested = "unset" THEN @ ELSE requested]
  /\ Goto("retrieve")
  /\ UNCHANGED <<received, given, retrieved, plan, read, reduced, conflicts, model, reply>>

Fails(step) ==
  /\ At(step)
  /\ reply' = [NoReply EXCEPT !.text = "error"]
  /\ Goto("idle")
  /\ UNCHANGED <<received, given, evidence, model>>

RouteFails    == query.hint # NoHint /\ HintOverflows(query.hint) /\ Fails("route")
RetrieveFails == Fails("retrieve")

\* What HARD returns meets the window.
Retrieve ==
  \E r \in Retrievals :
    /\ At("retrieve")
    /\ routed.mode = "HARD" =>
         \A i \in DOMAIN r.results : HardModePreMask(r.results[i].window, routed.window)
    /\ retrieved' = r
    /\ Goto("plan")
    /\ UNCHANGED <<received, given, routed, plan, read, reduced, conflicts, model, reply>>

PlanHops ==
  /\ At("plan")
  /\ plan' = Plan(routed.mode, retrieved.coverage)
  /\ Goto("reduce")
  /\ UNCHANGED <<received, given, routed, retrieved, read, reduced, conflicts, model, reply>>

\* One turn of the loop of reduce_passages.
ReducePassage ==
  /\ At("reduce") /\ read < Len(retrieved.results)
  /\ read' = read + 1
  /\ reduced' = Bucketed(reduced, retrieved.results[read'])
  /\ UNCHANGED <<pc, received, given, routed, retrieved, plan, conflicts, model, reply>>

\* What is left is sorted and searched for conflicts.
Reduce ==
  /\ At("reduce") /\ read = Len(retrieved.results)
  /\ reduced' = Sorted(reduced)
  /\ conflicts' = DetectConflicts(reduced')
  /\ Goto("conflicts")
  /\ UNCHANGED <<received, given, routed, retrieved, plan, read, model, reply>>

\* retrieve reports one hop.
Shortfall == plan.hops > 1

ShortfallFlag == IF Shortfall THEN {"HOP_SHORTFALL"} ELSE {}

\* Outside the world economy a conflict leaves the evidence without an answer.
Block ==
  /\ At("conflicts")
  /\ conflicts # {} /\ query.domain # "world-economy"
  /\ reply' = [text |-> "withheld", level |-> "LOW", evidenceOnly |-> TRUE, sources |-> reduced,
               degraded |-> {"CHRONO_SANITY"} \cup ShortfallFlag, events |-> 1,
               reason |-> "CHRONO_SANITY", shortfall |-> Shortfall]
  /\ Goto("idle")
  /\ UNCHANGED <<received, given, evidence, model>>

\* Light mode calls nothing; a provider, once named, takes the place of every
\* backend.
Generate ==
  /\ At("conflicts")
  /\ conflicts = {} \/ query.domain = "world-economy"
  /\ backend' = environment.order
  /\ Goto(IF environment.light           THEN "digest"   ELSE
          IF environment.provider # "none" THEN "provider" ELSE "load")
  /\ UNCHANGED <<received, given, evidence, attempts, calls, reply>>

Called(m, step) ==
  /\ calls' = Append(calls, m)
  /\ Goto(step)
  /\ UNCHANGED <<received, given, evidence, backend, reply>>

----------------------------------------------------------------------------
(* Vertex: no project, no library, an error and an empty text all close the *)
(* call with a note; any other name is unknown.                             *)

ProviderAnswers ==
  /\ At("provider") /\ environment.provider = "vertex"
  /\ Called("vertex", "text") /\ UNCHANGED attempts

\* Mutant: the backends are tried after the provider.
ProviderThenBackends ==
  /\ At("provider")
  /\ \/ environment.provider = "vertex" /\ Called("vertex", "load") /\ UNCHANGED attempts
     \/ Goto("load") /\ UNCHANGED <<received, given, evidence, model, reply>>

ProviderCallFails ==
  /\ At("provider")
  /\ \/ environment.provider = "vertex" /\ Called("vertex", "note") /\ UNCHANGED attempts
     \/ Goto("note") /\ UNCHANGED <<received, given, evidence, model, reply>>

----------------------------------------------------------------------------
(* Local backends: the first of the order that can be built.               *)

BackendUnavailable ==
  /\ At("load") /\ backend # <<>>
  /\ Head(backend) # "ollama"
  /\ backend' = Tail(backend)
  /\ UNCHANGED <<pc, received, given, evidence, attempts, calls, reply>>

NoBackend ==
  /\ At("load") /\ backend = <<>>
  /\ Goto("digest")
  /\ UNCHANGED <<received, given, evidence, model, reply>>

BackendLoaded ==
  /\ At("load") /\ backend # <<>>
  /\ Goto("attempt")
  /\ UNCHANGED <<received, given, evidence, model, reply>>

PromptPassages ==
  IF environment.limit = 0 THEN Len(reduced) ELSE Earlier(environment.limit, Len(reduced))

\* There is a second attempt only if it would see fewer passages.
LastAttempt == attempts = 1 \/ PromptPassages <= RetryPassages

\* The JSON of the backend passes _validate_payload.
AttemptSucceeds ==
  /\ At("attempt")
  /\ attempts' = attempts + 1
  /\ Called(Head(backend), "text")

\* No text, no JSON or issues.
AttemptRejected ==
  /\ At("attempt")
  /\ attempts' = attempts + 1
  /\ Called(Head(backend), IF LastAttempt THEN "digest" ELSE "attempt")

\* An exception of the backend, or JSON that is not an object, ends generation.
AttemptRaises ==
  /\ At("attempt")
  /\ attempts' = attempts + 1
  /\ Called(Head(backend), "digest")

----------------------------------------------------------------------------
(* The reply.                                                              *)

\* Mutant: a digest counts as an answer.
IsFallbackNever(text) == text = "provider_note"

\* Recognised by how the text begins, or by the note of a provider.
IsFallback(text) == text \in {"digest", "provider_note", "no_evidence", "model_echo"}

Level ==
  IF reduced = <<>> THEN "LOW" ELSE IF conflicts # {} THEN "MEDIUM" ELSE "HIGH"

Reply(text) ==
  /\ reply' = [text |-> text, level |-> Level, evidenceOnly |-> IsFallback(text),
               sources |-> reduced,
               degraded |-> (IF conflicts # {} THEN {"CHRONO_SANITY_WARN"} ELSE {})
                            \cup ShortfallFlag,
               events |-> IF conflicts # {} THEN 1 ELSE 0,
               reason |-> IF IsFallback(text) THEN "PROVIDER_OR_LLM_FALLBACK" ELSE "none",
               shortfall |-> Shortfall]
  /\ Goto("idle")
  /\ UNCHANGED <<received, given, evidence, model>>

Digest ==
  \/ At("digest") /\ Reply(IF reduced = <<>> THEN "no_evidence" ELSE "digest")
  \/ At("note") /\ Reply("provider_note")

\* A model may answer with words that open a digest, or repeat a note.
Text == At("text") /\ \E text \in {"model_text", "model_echo"} : Reply(text)

Step ==
  \/ RouteQuery \/ RouteFails \/ Retrieve \/ RetrieveFails \/ PlanHops \/ ReducePassage \/ Reduce
  \/ Block \/ Generate
  \/ ProviderAnswers \/ ProviderCallFails
  \/ BackendUnavailable \/ NoBackend \/ BackendLoaded
  \/ AttemptSucceeds \/ AttemptRejected \/ AttemptRaises
  \/ Digest \/ Text

Next == Receive \/ Step

Spec == Init /\ [][Next]_vars /\ WF_vars(Step)

----------------------------------------------------------------------------
(* Properties.                                                             *)

Replied == reply.text # "none"
Answered == Replied /\ reply.text # "error"

\* Two passages over the threshold are never smoothed away: the reply has no text,
\* or it is of the world economy and marked, and never of high confidence
\* (answer_service.py 95-166).
ConflictIsNeverSilent ==
  Answered /\ (\E p, q \in ToSet(reply.sources) : p # q /\ OverlapAtLeast(p.window, q.window, Overlap))
    => /\ reply.events = 1 /\ reply.level \in {"LOW", "MEDIUM"}
       /\ \/ reply.text = "withheld" /\ reply.evidenceOnly
          \/ query.domain = "world-economy" /\ "CHRONO_SANITY_WARN" \in reply.degraded

\* Every result stands in the card, by itself or by a passage that says the same
\* from the same moment and has at least its authority; among those of the
\* highest authority it is one of the best score.  It rests on the order in which
\* retrieve returns (chrono_reducer.py 37-43).
KeptIsBest ==
  Answered => \A p \in ToSet(retrieved.results) : \E q \in ToSet(reply.sources) :
    /\ KeyOf(q) = KeyOf(p)
    /\ q.authority > p.authority \/ (q.authority = p.authority /\ q.score >= p.score)

\* Whatever was tried, a reply that is not marked as evidence only carries the
\* text of a model, and a blocked one or a digest is marked
\* (answer_service.py 135-150, generate.py 200-309).
FallbackIsDeclared ==
  Answered => /\ ~ reply.evidenceOnly => calls # <<>> /\ reply.text = "model_text"
              /\ reply.text \in {"withheld", "digest", "provider_note", "no_evidence"} =>
                   reply.evidenceOnly /\ reply.reason # "none"

\* Of the calls that generate the text of a reply: light mode makes none; a named
\* provider is called once at most and never replaced by a backend; a backend is
\* called twice at most, and only one (generate.py 200-309).  What the retrieval of
\* the same request asks of a model to judge passages is not counted here.
CallsStayInTheirLane ==
  /\ environment.light => calls = <<>>
  /\ ~ environment.light /\ environment.provider # "none" =>
       Len(calls) <= 1 /\ ToSet(calls) \subseteq {"vertex"}
  /\ Len(calls) <= 2 /\ Cardinality(ToSet(calls)) <= 1

\* A query that names nothing but years is searched in a window that covers each
\* of them (temporal_router.py 102-114).
NamedYearsAreSearched ==
  routed.kind \in {"decade", "year_range"} =>
    \A y \in query.years : routed.window.start <= y /\ y + 1 <= routed.window.end

=============================================================================
