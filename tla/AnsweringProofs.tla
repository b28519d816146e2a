---------------------------- MODULE AnsweringProofs ----------------------------
(***************************************************************************)
(* What a request is answered from, which models it may call and what its  *)
(* reply says of both, for any queries, any lists of results in the order  *)
(* of their scores, any order of the backends and any number of requests.  *)
(***************************************************************************)
EXTENDS Answering, FiniteSetTheorems, TLAPS

Models == Backends \cup {"vertex"}

Before   == {"route", "retrieve", "plan", "reduce", "conflicts", "provider", "load"}
AllSteps == Before \cup {"idle", "attempt", "digest", "note", "text"}

TypeInv ==
  /\ pc \in AllSteps
  /\ environment \in Environments
  /\ attempts \in 0..2
  /\ calls \in Seq(Models)

\* Where generation goes is decided by the environment alone, and nothing is
\* called before.
LaneInv ==
  /\ pc \in Before => calls = <<>> /\ attempts = 0
  /\ pc = "provider" => ~ environment.light /\ environment.provider # "none"
  /\ pc \in {"load", "attempt"} =>
       ~ environment.light /\ environment.provider = "none" /\ backend \in Seq(Backends)
  /\ pc = "attempt" =>
       /\ backend # <<>>
       /\ attempts = Len(calls) /\ attempts <= 1
       /\ \A i \in DOMAIN calls : calls[i] = Head(backend)
  /\ environment.light => calls = <<>>
  /\ ~ environment.light /\ environment.provider # "none" =>
       Len(calls) <= 1 /\ \A i \in DOMAIN calls : calls[i] = "vertex"
  /\ Len(calls) <= 2
  /\ \E m \in Models : \A i \in DOMAIN calls : calls[i] = m

\* A reply without a mark has the text of a model that was called.
ReplyInv ==
  /\ pc = "text" => calls # <<>>
  /\ pc = "idle" => FallbackIsDeclared
  /\ pc # "idle" => reply = NoReply

IInv == TypeInv /\ LaneInv /\ ReplyInv

----------------------------------------------------------------------------
LEMMA Environment ==
  ASSUME TypeInv
  PROVE  /\ environment.light \in BOOLEAN /\ environment.provider \in Providers
         /\ environment.order \in Seq(Backends)
BY AnsweringAssumption DEF TypeInv

LEMMA InitInv == Init => IInv
<1> SUFFICES ASSUME Init
             PROVE  IInv
  OBVIOUS
<1>1. "vertex" \in Models
  BY DEF Models
<1>2. QED
  BY <1>1 DEF Init, IInv, TypeInv, LaneInv, ReplyInv, AllSteps, Before, FallbackIsDeclared,
              Answered, Replied, NoReply

\* Up to generation nothing is called, and what is called is decided.
LEMMA BeforeInv ==
  ASSUME IInv, Receive \/ RouteQuery \/ Retrieve \/ PlanHops \/ ReducePassage \/ Reduce \/ Generate
  PROVE  IInv'
<1> USE DEF At, Goto
<1>1. calls' = <<>> /\ attempts' = 0 /\ UNCHANGED environment /\ "vertex" \in Models
  BY DEF Receive, RouteQuery, Retrieve, PlanHops, ReducePassage, Reduce, Generate, given, model, IInv, LaneInv, Before,
         Models
<1>2. reply' = NoReply
  BY DEF Receive, RouteQuery, Retrieve, PlanHops, ReducePassage, Reduce, Generate, IInv, ReplyInv
<1>3. CASE Generate
  <2>1. backend' = environment.order /\ pc' \in {"digest", "provider", "load"}
        /\ (pc' = "provider" => ~ environment.light /\ environment.provider # "none")
        /\ (pc' = "load" => ~ environment.light /\ environment.provider = "none")
    BY <1>3, Environment DEF Generate, IInv
  <2>2. QED
    BY <1>1, <1>2, <2>1, Environment
    DEF IInv, TypeInv, LaneInv, ReplyInv, AllSteps, Before
<1>4. CASE Receive \/ RouteQuery \/ Retrieve \/ PlanHops \/ ReducePassage \/ Reduce
  <2>1. pc' \in {"route", "retrieve", "plan", "reduce", "conflicts"}
    BY <1>4 DEF Receive, RouteQuery, Retrieve, PlanHops, ReducePassage, Reduce
  <2>2. QED
    BY <1>1, <1>2, <2>1 DEF IInv, TypeInv, LaneInv, ReplyInv, AllSteps, Before
<1>5. QED
  BY <1>3, <1>4

\* The request ends: with an error, without an answer, or with a text.
LEMMA EndInv ==
  ASSUME IInv, UNCHANGED <<environment, attempts, calls>>, pc' = "idle",
         FallbackIsDeclared'
  PROVE  IInv'
BY DEF IInv, TypeInv, LaneInv, ReplyInv, AllSteps, Before

LEMMA ReplyStepInv ==
  ASSUME IInv, RouteFails \/ RetrieveFails \/ Block \/ Digest \/ Text
  PROVE  IInv'
<1> USE DEF At, Goto
<1>1. UNCHANGED <<environment, attempts, calls>> /\ pc' = "idle"
  BY DEF RouteFails, RetrieveFails, Fails, Block, Digest, Text, Reply, given, model
<1>2. CASE RouteFails \/ RetrieveFails
  <2>1. reply'.text = "error"
    BY <1>2 DEF RouteFails, RetrieveFails, Fails, NoReply
  <2>2. QED
    BY <1>1, <2>1, EndInv DEF FallbackIsDeclared, Answered
<1>3. CASE Block
  BY <1>1, <1>3, EndInv DEF Block, FallbackIsDeclared
<1>4. CASE Digest
  <2>1. PICK text \in {"digest", "no_evidence", "provider_note"} : Reply(text)
    BY <1>4 DEF Digest
  <2>2. reply'.evidenceOnly = TRUE /\ reply'.reason # "none"
    BY <2>1 DEF Reply, IsFallback
  <2>3. QED
    BY <1>1, <2>2, EndInv DEF FallbackIsDeclared
<1>5. CASE Text
  <2>1. PICK text \in {"model_text", "model_echo"} : Reply(text)
    BY <1>5 DEF Text
  <2>2. calls' # <<>>
    BY <1>1, <1>5 DEF Text, IInv, ReplyInv
  <2>3. reply'.text = text /\ reply'.evidenceOnly = (text = "model_echo")
    BY <2>1 DEF Reply, IsFallback
  <2>4. QED
    BY <1>1, <2>2, <2>3, EndInv DEF FallbackIsDeclared
<1>6. QED
  BY <1>2, <1>3, <1>4, <1>5

\* The provider is called once, if at all.
LEMMA ProviderInv ==
  ASSUME IInv, ProviderAnswers \/ ProviderCallFails
  PROVE  IInv'
<1> USE DEF At, Goto
<1>1. /\ pc = "provider" /\ calls = <<>> /\ "vertex" \in Models
      /\ ~ environment.light /\ environment.provider # "none"
  BY DEF ProviderAnswers, ProviderCallFails, IInv, LaneInv, Before, Models
<1>2. UNCHANGED <<environment, attempts, reply>>
  BY DEF ProviderAnswers, ProviderCallFails, Called, given, model
<1>3. \/ pc' \in {"text", "note"} /\ calls' = Append(calls, "vertex")
      \/ pc' = "note" /\ calls' = <<>>
  BY <1>1 DEF ProviderAnswers, ProviderCallFails, Called, model
<1>4. /\ calls' \in Seq(Models) /\ Len(calls') <= 1
      /\ \A i \in DOMAIN calls' : calls'[i] = "vertex"
      /\ pc' = "text" => calls' # <<>>
  <2>1. calls \in Seq(Models) /\ Len(calls) = 0
    BY <1>1 DEF IInv, TypeInv
  <2>2. CASE calls' = Append(calls, "vertex")
    BY <1>1, <2>1, <2>2
  <2>3. CASE pc' = "note" /\ calls' = <<>>
    BY <2>3
  <2>4. QED
    BY <1>3, <2>2, <2>3
<1>5. QED
  BY <1>1, <1>2, <1>3, <1>4 DEF IInv, TypeInv, LaneInv, ReplyInv, AllSteps, Before

\* A backend is chosen without a call.
LEMMA LoadInv ==
  ASSUME IInv, BackendUnavailable \/ NoBackend \/ BackendLoaded
  PROVE  IInv'
<1> USE DEF At, Goto
<1>1. /\ pc = "load" /\ calls = <<>> /\ attempts = 0 /\ backend \in Seq(Backends)
      /\ ~ environment.light /\ environment.provider = "none"
  BY DEF BackendUnavailable, NoBackend, BackendLoaded, IInv, LaneInv, Before
<1>2. UNCHANGED <<environment, attempts, calls, reply>>
  BY DEF BackendUnavailable, NoBackend, BackendLoaded, given, model
<1>3. \/ pc' = "load" /\ backend' \in Seq(Backends)
      \/ pc' = "digest"
      \/ pc' = "attempt" /\ backend' \in Seq(Backends) /\ backend' # <<>>
  <2>1. CASE BackendUnavailable
    <3>1. pc' = "load" /\ backend # <<>> /\ backend' = Tail(backend)
      BY <1>1, <2>1 DEF BackendUnavailable
    <3>2. QED
      BY <1>1, <3>1
  <2>2. CASE NoBackend
    BY <2>2 DEF NoBackend
  <2>3. CASE BackendLoaded
    BY <1>1, <2>3 DEF BackendLoaded, model
  <2>4. QED
    BY <2>1, <2>2, <2>3
<1>4. QED
  BY <1>1, <1>2, <1>3 DEF IInv, TypeInv, LaneInv, ReplyInv, AllSteps, Before

\* The backend is called again only after its first reply was rejected.
LEMMA AttemptInv ==
  ASSUME IInv, AttemptSucceeds \/ AttemptRejected \/ AttemptRaises
  PROVE  IInv'
<1> USE DEF At, Goto
<1> DEFINE b == Head(backend)
<1>1. /\ pc = "attempt" /\ backend \in Seq(Backends) /\ backend # <<>>
      /\ attempts = Len(calls) /\ attempts \in 0..1 /\ calls \in Seq(Models)
      /\ \A i \in DOMAIN calls : calls[i] = b
      /\ ~ environment.light /\ environment.provider = "none"
  BY DEF AttemptSucceeds, AttemptRejected, AttemptRaises, IInv, LaneInv, TypeInv
<1>2. b \in Models
  BY <1>1 DEF Models
<1>3. /\ UNCHANGED <<environment, backend, reply>>
      /\ attempts' = attempts + 1 /\ calls' = Append(calls, b)
  BY DEF AttemptSucceeds, AttemptRejected, AttemptRaises, Called, given
<1>4. /\ calls' \in Seq(Models) /\ Len(calls') = attempts' /\ calls' # <<>>
      /\ \A i \in DOMAIN calls' : calls'[i] = b
  BY <1>1, <1>2, <1>3
<1>5. pc' \in {"text", "digest", "attempt"} /\ (pc' = "attempt" => attempts = 0)
  BY <1>1 DEF AttemptSucceeds, AttemptRejected, AttemptRaises, Called, LastAttempt
<1>6. QED
  BY <1>1, <1>2, <1>3, <1>4, <1>5 DEF IInv, TypeInv, LaneInv, ReplyInv, AllSteps, Before

LEMMA NextInv == IInv /\ [Next]_vars => IInv'
<1> SUFFICES ASSUME IInv, [Next]_vars
             PROVE  IInv'
  OBVIOUS
<1>1. CASE Next
  BY <1>1, BeforeInv, ReplyStepInv, ProviderInv, LoadInv, AttemptInv DEF Next, Step
<1>2. CASE UNCHANGED vars
  BY <1>2 DEF vars, given, evidence, model, IInv, TypeInv, LaneInv, ReplyInv,
              FallbackIsDeclared, Answered, Replied
<1>3. QED
  BY <1>1, <1>2

THEOREM Invariance == Spec => []IInv
BY InitInv, NextInv, PTL DEF Spec

\* Light mode calls no model; a named provider is called once at most and never
\* replaced by a backend; a backend is called twice at most, and only one
\* (generate.py 200-309).
THEOREM OneModelAtMost == Spec => []CallsStayInTheirLane
<1>1. ASSUME IInv
      PROVE  CallsStayInTheirLane
  <2>1. PICK m \in Models : \A i \in DOMAIN calls : calls[i] = m
    BY <1>1 DEF IInv, LaneInv
  <2>2. ToSet(calls) = {} \/ ToSet(calls) = {m}
    BY <2>1 DEF ToSet
  <2>3. Cardinality(ToSet(calls)) <= 1
    <3>1. CASE ToSet(calls) = {}
      BY <3>1, FS_EmptySet
    <3>2. CASE ToSet(calls) = {m}
      BY <3>2, FS_Singleton
    <3>3. QED
      BY <2>2, <3>1, <3>2
  <2>4. QED
    BY <1>1, <2>3 DEF ToSet, IInv, LaneInv, CallsStayInTheirLane
<1>2. QED
  BY <1>1, Invariance, PTL

\* A reply that is not marked as evidence only has the text of a model that was
\* called; a digest, a note and a blocked reply are marked (answer_service.py
\* 135-150, generate.py 200-309).
THEOREM FallbackIsAlwaysDeclared == Spec => []FallbackIsDeclared
<1>1. IInv => FallbackIsDeclared
  BY DEF IInv, ReplyInv, FallbackIsDeclared, Answered, Replied, NoReply
<1>2. QED
  BY <1>1, Invariance, PTL

----------------------------------------------------------------------------
(* The years of a query.                                                   *)

\* A set of numbers has a least one.
LEMMA NatMin ==
  ASSUME NEW T, T \subseteq Nat, T # {}
  PROVE  \E x \in T : \A y \in T : x <= y
<1> DEFINE R == OpToRel(<, Nat)
<1>1. IsWellFoundedOn(R, Nat)
  BY NatLessThanWellFounded
<1>2. \A x, y \in Nat : y < x => <<y, x>> \in R
  BY DEF OpToRel
<1> HIDE DEF R
<1>3. \E x \in T : \A y \in T : ~ (<<y, x>> \in R)
  BY <1>1, WFMin
<1>4. PICK x \in T : \A y \in T : ~ (<<y, x>> \in R)
  BY <1>3, Zenon
<1>5. \A y \in T : ~ (y < x)
  BY <1>2, <1>4
<1>6. QED
  BY <1>5

\* Years have a first and a last.
LEMMA YearBounds ==
  ASSUME NEW years, years \subseteq Instants, years # {}
  PROVE  /\ Min(years) \in years /\ Max(years) \in years
         /\ \A y \in years : Min(years) <= y /\ y <= Max(years)
<1>0. \A y \in years : y \in Nat /\ Horizon - y \in Nat
  BY HorizonAssumption DEF Instants
<1>1. \E x \in years : \A y \in years : x <= y
  <2>1. years \subseteq Nat
    BY <1>0
  <2>2. QED
    BY <2>1, NatMin
<1>2. Min(years) \in years /\ \A y \in years : Min(years) <= y
  BY <1>1 DEF Min
<1> DEFINE back == {Horizon - x : x \in years}
<1>3. back \subseteq Nat /\ back # {}
  BY <1>0
<1>4. \A y \in years : Horizon - y \in back
  OBVIOUS
<1>5. \A b \in back : \E x \in years : b = Horizon - x
  OBVIOUS
<1> HIDE DEF back
<1>6. PICK b \in back : \A d \in back : b <= d
  BY <1>3, NatMin
<1>7. PICK x \in years : b = Horizon - x
  BY <1>5
<1>8. \A y \in years : x >= y
  BY <1>0, <1>4, <1>6, <1>7, HorizonAssumption
<1>9. Max(years) \in years /\ \A y \in years : Max(years) >= y
  BY <1>8 DEF Max
<1>10. QED
  BY <1>2, <1>9

\* The window of one year or several reaches from the first to the end of the last.
LEMMA YearWindowCovers ==
  ASSUME NEW years, years \subseteq Instants, years # {}, NEW y \in years
  PROVE  YearWindow(years)[1].start <= y /\ y + 1 <= YearWindow(years)[1].end
<1> DEFINE a == Min(years)
           z == Max(years)
           w == YearWindow(years)[1]
<1>1. a \in Nat /\ z \in Nat /\ y \in Nat /\ a <= y /\ y <= z
  <2>1. a \in years /\ z \in years /\ a <= y /\ y <= z
    BY YearBounds
  <2>2. \A x \in years : x \in Nat
    BY HorizonAssumption DEF Instants
  <2>3. QED
    BY <2>1, <2>2
<1>2. YearPad \in Nat
  BY RoutingAssumption
<1>3. CASE a = z
  <2>1. w = MakeWindow(Later(0, a - YearPad), z + YearPad + 1)
    BY <1>3 DEF YearWindow
  <2>2. w.start = Earlier(Later(0, a - YearPad), z + YearPad + 1)
        /\ w.end = Later(Later(0, a - YearPad), z + YearPad + 1)
    BY <2>1 DEF MakeWindow, Span
  <2>3. QED
    BY <1>1, <1>2, <2>2 DEF Earlier, Later
<1>4. CASE a # z
  <2>1. w = MakeWindow(a, z + 1)
    BY <1>4 DEF YearWindow
  <2>2. w.start = Earlier(a, z + 1) /\ w.end = Later(a, z + 1)
    BY <2>1 DEF MakeWindow, Span
  <2>3. QED
    BY <1>1, <2>2 DEF Earlier, Later
<1>5. QED
  BY <1>3, <1>4

\* Only years give these kinds of windows.
LEMMA YearKinds ==
  ASSUME NEW q \in Query, Route(q).kind \in {"decade", "year_range"}, NEW y \in q.years
  PROVE  Route(q).window.start <= y /\ y + 1 <= Route(q).window.end
<1>1. Route(q).kind = InferWindow(q)[2] /\ Route(q).window = InferWindow(q)[1]
  BY DEF Route
<1>2. q.hint = NoHint /\ q.periods = {} /\ q.centuries = {}
  BY <1>1 DEF InferWindow, CenturyWindow
<1>3. InferWindow(q) = YearWindow(q.years)
  BY <1>2 DEF InferWindow
<1>4. q.years \subseteq Instants
  BY DEF Query
<1>5. QED
  BY <1>1, <1>3, <1>4, YearWindowCovers

\* Whatever is asked in whatever mode, a query that names nothing but years is
\* searched in a window that covers each of them (temporal_router.py 102-114).
THEOREM YearsAreSearched == Spec => []NamedYearsAreSearched
<1> DEFINE Inv == query \in Queries /\ NamedYearsAreSearched
<1>1. Init => Inv
  BY DEF Init, NamedYearsAreSearched, NoRoute
<1>2. Inv /\ [Next]_vars => Inv'
  <2> SUFFICES ASSUME Inv, [Next]_vars
               PROVE  Inv'
    OBVIOUS
  <2>1. CASE Receive
    BY <2>1 DEF Receive, NamedYearsAreSearched, NoRoute
  <2>2. CASE RouteQuery
    <3>1. UNCHANGED query /\ query \in Query
      BY <2>2, AnsweringAssumption DEF RouteQuery, given
    <3>2. routed'.kind = Route(query).kind /\ routed'.window = Route(query).window
      BY <2>2 DEF RouteQuery, Route
    <3>3. QED
      BY <3>1, <3>2, YearKinds DEF NamedYearsAreSearched
  <2>3. CASE UNCHANGED <<query, routed>>
    BY <2>3 DEF NamedYearsAreSearched
  <2>4. Receive \/ RouteQuery \/ UNCHANGED <<query, routed>>
    BY DEF Next, Step, vars, given, evidence, RouteFails, Retrieve, RetrieveFails, Fails,
           PlanHops, ReducePassage, Reduce, Block, Generate, ProviderAnswers,
           ProviderCallFails, BackendUnavailable, NoBackend, BackendLoaded,
           AttemptSucceeds, AttemptRejected, AttemptRaises, Called, Digest, Text, Reply
  <2>5. QED
    BY <2>1, <2>2, <2>3, <2>4
<1>3. QED
  BY <1>1, <1>2, PTL DEF Spec

----------------------------------------------------------------------------
(* The reduction of passages.                                              *)

LEMMA PassageType ==
  ASSUME NEW p \in Passage
  PROVE  /\ p.authority \in Nat /\ p.score \in Nat /\ p.window \in Window
         /\ p.window.start \in Nat /\ p.window.end \in Nat /\ p.window.start <= p.window.end
<1>1. p.authority \in Nat /\ p.score \in Nat /\ p.window \in Window
  BY DEF Passage
<1>2. \A x \in Instants : x \in Nat
  BY HorizonAssumption DEF Instants
<1> HIDE DEF Instants
<1>3. QED
  BY <1>1, <1>2 DEF Window, RawWindow

\* The order of the card is strict and total on the places of a bucket.
LEMMA PrecedesOrders ==
  ASSUME NEW s \in Seq(Passage)
  PROVE  \A i, j, k \in DOMAIN s :
           /\ ~ Precedes(s, i, i)
           /\ i # j => Precedes(s, i, j) \/ Precedes(s, j, i)
           /\ Precedes(s, i, j) /\ Precedes(s, j, k) => Precedes(s, i, k)
<1> SUFFICES ASSUME NEW i \in DOMAIN s, NEW j \in DOMAIN s, NEW k \in DOMAIN s
             PROVE  /\ ~ Precedes(s, i, i)
                    /\ i # j => Precedes(s, i, j) \/ Precedes(s, j, i)
                    /\ Precedes(s, i, j) /\ Precedes(s, j, k) => Precedes(s, i, k)
  OBVIOUS
<1> DEFINE score(x) == s[x].score
           start(x) == s[x].window.start
           authority(x) == s[x].authority
<1>1. \A x \in {i, j, k} : score(x) \in Nat /\ start(x) \in Nat /\ authority(x) \in Nat /\ x \in Nat
  <2>1. \A x \in {i, j, k} : s[x] \in Passage /\ x \in Nat
    OBVIOUS
  <2>2. QED
    BY <2>1, PassageType
<1>2. \A x, y \in {i, j, k} :
        Precedes(s, x, y) <=>
          \/ score(x) > score(y)
          \/ score(x) = score(y) /\ start(x) < start(y)
          \/ score(x) = score(y) /\ start(x) = start(y) /\ authority(x) > authority(y)
          \/ score(x) = score(y) /\ start(x) = start(y) /\ authority(x) = authority(y) /\ x < y
  <2> SUFFICES ASSUME NEW x \in {i, j, k}, NEW y \in {i, j, k}
               PROVE  Precedes(s, x, y) <=>
                        \/ score(x) > score(y)
                        \/ score(x) = score(y) /\ start(x) < start(y)
                        \/ score(x) = score(y) /\ start(x) = start(y) /\ authority(x) > authority(y)
                        \/ score(x) = score(y) /\ start(x) = start(y) /\ authority(x) = authority(y) /\ x < y
    OBVIOUS
  <2>1. /\ s[x].score \in Nat /\ s[x].window.start \in Nat /\ s[x].authority \in Nat
        /\ s[y].score \in Nat /\ s[y].window.start \in Nat /\ s[y].authority \in Nat
    BY <1>1
  <2>2. QED
    BY <2>1 DEF Precedes, ReducesBefore
<1> HIDE DEF score, start, authority
<1>3. ~ Precedes(s, i, i)
  BY <1>1, <1>2
<1>4. i # j => Precedes(s, i, j) \/ Precedes(s, j, i)
  BY <1>1, <1>2
<1>5. Precedes(s, i, j) /\ Precedes(s, j, k) => Precedes(s, i, k)
  BY <1>1, <1>2
<1>6. QED
  BY <1>3, <1>4, <1>5

\* Each place of a bucket has one place of its own in the card.
LEMMA PlaceIsOnto ==
  ASSUME NEW s \in Seq(Passage)
  PROVE  /\ \A i \in DOMAIN s : Place(s, i) \in DOMAIN s
         /\ \A i, j \in DOMAIN s : Place(s, i) = Place(s, j) => i = j
         /\ \A n \in DOMAIN s : \E i \in DOMAIN s : Place(s, i) = n
<1> DEFINE D == DOMAIN s
           first(i) == {j \in D : Precedes(s, j, i)}
<1>1. IsFiniteSet(D) /\ Cardinality(D) \in Nat /\ D = 1..Cardinality(D)
  <2>1. Len(s) \in Nat /\ D = 1..Len(s)
    OBVIOUS
  <2>2. 1 \in Int /\ Len(s) \in Int
    BY <2>1
  <2>3. IsFiniteSet(1..Len(s)) /\ Cardinality(1..Len(s)) = Len(s)
    BY <2>1, <2>2, FS_Interval
  <2>4. QED
    BY <2>1, <2>3
<1>2. \A i \in D : IsFiniteSet(first(i)) /\ Cardinality(first(i)) \in Nat
  <2> SUFFICES ASSUME NEW i \in D
               PROVE  IsFiniteSet(first(i)) /\ Cardinality(first(i)) \in Nat
    OBVIOUS
  <2>1. IsFiniteSet(first(i))
    BY <1>1, FS_Subset
  <2>2. QED
    BY <2>1, FS_CardinalityType
<1>3. \A i \in D : Cardinality(first(i)) < Cardinality(D)
  <2> SUFFICES ASSUME NEW i \in D
               PROVE  Cardinality(first(i)) < Cardinality(D)
    OBVIOUS
  <2>1. first(i) \subseteq D /\ i \notin first(i)
    BY PrecedesOrders
  <2>2. Cardinality(first(i)) <= Cardinality(D) /\ Cardinality(first(i)) # Cardinality(D)
    BY <1>1, <2>1, FS_Subset
  <2>3. Cardinality(first(i)) \in Nat
    BY <1>2
  <2> HIDE DEF first, D
  <2>4. QED
    BY <1>1, <2>2, <2>3
<1>4. \A i, k \in D : Precedes(s, i, k) => Cardinality(first(i)) < Cardinality(first(k))
  <2> SUFFICES ASSUME NEW i \in D, NEW k \in D, Precedes(s, i, k)
               PROVE  Cardinality(first(i)) < Cardinality(first(k))
    OBVIOUS
  <2>1. first(i) \subseteq first(k)
    BY PrecedesOrders
  <2>2. i \in first(k) /\ i \notin first(i)
    BY PrecedesOrders
  <2>3. Cardinality(first(i)) <= Cardinality(first(k))
        /\ Cardinality(first(i)) # Cardinality(first(k))
    BY <1>2, <2>1, <2>2, FS_Subset
  <2>4. Cardinality(first(i)) \in Nat /\ Cardinality(first(k)) \in Nat
    BY <1>2
  <2> HIDE DEF first
  <2>5. QED
    BY <2>3, <2>4
<1>5. \A i \in D : Place(s, i) = Cardinality(first(i)) + 1
  BY DEF Place
<1> HIDE DEF D, first
<1>6. \A i \in D : Place(s, i) \in D
  <2> SUFFICES ASSUME NEW i \in D
               PROVE  Place(s, i) \in D
    OBVIOUS
  <2>1. Cardinality(first(i)) \in Nat /\ Cardinality(first(i)) < Cardinality(D)
    BY <1>2, <1>3
  <2>2. Place(s, i) \in 1..Cardinality(D)
    BY <1>1, <1>5, <2>1
  <2>3. QED
    BY <1>1, <2>2
<1>7. \A i, j \in D : Place(s, i) = Place(s, j) => i = j
  <2> SUFFICES ASSUME NEW i \in D, NEW j \in D, Place(s, i) = Place(s, j), i # j
               PROVE  FALSE
    OBVIOUS
  <2>1. Precedes(s, i, j) \/ Precedes(s, j, i)
    BY PrecedesOrders DEF D
  <2>2. Cardinality(first(i)) = Cardinality(first(j))
    BY <1>2, <1>5
  <2>3. QED
    BY <1>2, <1>4, <2>1, <2>2
<1> DEFINE f == [i \in D |-> Place(s, i)]
<1>8. f \in [D -> D] /\ \A i, j \in D : f[i] = f[j] => i = j
  BY <1>6, <1>7
<1>9. f \in Injection(D, D)
  BY <1>8 DEF Injection, IsInjective
<1>10. f \in Surjection(D, D)
  BY <1>1, <1>9, FS_Injection
<1>11. \A n \in D : \E i \in D : f[i] = n
  BY <1>10 DEF Surjection
<1>12. \A n \in D : \E i \in D : Place(s, i) = n
  BY <1>11
<1>13. QED
  BY <1>6, <1>7, <1>12 DEF D

\* Sorting keeps the passages and adds none.
LEMMA SortedKeeps ==
  ASSUME NEW s \in Seq(Passage)
  PROVE  /\ Sorted(s) \in Seq(Passage) /\ DOMAIN Sorted(s) = DOMAIN s
         /\ \A i \in DOMAIN s : \E n \in DOMAIN s : Sorted(s)[n] = s[i]
<1> DEFINE at(n) == CHOOSE i \in DOMAIN s : Place(s, i) = n
<1>1. \A n \in DOMAIN s : at(n) \in DOMAIN s /\ Place(s, at(n)) = n
  BY PlaceIsOnto
<1>2. \A i \in DOMAIN s : at(Place(s, i)) = i
  BY <1>1, PlaceIsOnto
<1>3. Sorted(s) = [n \in DOMAIN s |-> s[at(n)]]
  BY DEF Sorted
<1> HIDE DEF at
<1>4. \A n \in DOMAIN s : Sorted(s)[n] = s[at(n)] /\ s[at(n)] \in Passage
  BY <1>1, <1>3
<1>5. Sorted(s) \in [1..Len(s) -> Passage] /\ Len(s) \in Nat
  BY <1>3, <1>4
<1>6. Sorted(s) \in Seq(Passage)
  BY <1>5
<1>7. \A i \in DOMAIN s : Place(s, i) \in DOMAIN s /\ Sorted(s)[Place(s, i)] = s[i]
  BY <1>2, <1>4, PlaceIsOnto
<1>8. QED
  BY <1>3, <1>6, <1>7

\* q says the same as p, from the same moment, with at least its authority.
StandsFor(q, p) ==
  /\ KeyOf(q) = KeyOf(p)
  /\ q.authority > p.authority \/ (q.authority = p.authority /\ q.score >= p.score)

\* A passage that scores no higher than the bucket replaces nothing that is better.
LEMMA BucketedKeeps ==
  ASSUME NEW s \in Seq(Passage), NEW p \in Passage, \A j \in DOMAIN s : s[j].score >= p.score
  PROVE  /\ Bucketed(s, p) \in Seq(Passage)
         /\ \A j \in DOMAIN Bucketed(s, p) : Bucketed(s, p)[j] = p \/ \E k \in DOMAIN s : Bucketed(s, p)[j] = s[k]
         /\ \E j \in DOMAIN Bucketed(s, p) : StandsFor(Bucketed(s, p)[j], p)
         /\ \A r \in Passage :
              (\E k \in DOMAIN s : StandsFor(s[k], r)) =>
                \E j \in DOMAIN Bucketed(s, p) : StandsFor(Bucketed(s, p)[j], r)
<1> DEFINE b == Bucketed(s, p)
<1>1. CASE \E i \in DOMAIN s : KeyOf(s[i]) = KeyOf(p)
  <2>1. b = [i \in DOMAIN s |-> IF KeyOf(s[i]) = KeyOf(p) THEN Better(s[i], p) ELSE s[i]]
    BY <1>1 DEF Bucketed
  <2>2. \A i \in DOMAIN s : s[i] \in Passage
    OBVIOUS
  <2>3. \A i \in DOMAIN s : /\ Better(s[i], p) \in {s[i], p}
                            /\ Better(s[i], p) = p => p.authority > s[i].authority \/ p = s[i]
                            /\ Better(s[i], p) = s[i] => s[i].authority >= p.authority
    <3> SUFFICES ASSUME NEW i \in DOMAIN s
                 PROVE  /\ Better(s[i], p) \in {s[i], p}
                        /\ Better(s[i], p) = p => p.authority > s[i].authority \/ p = s[i]
                        /\ Better(s[i], p) = s[i] => s[i].authority >= p.authority
      OBVIOUS
    <3>1. /\ s[i].authority \in Nat /\ p.authority \in Nat
          /\ s[i].score \in Nat /\ p.score \in Nat /\ s[i].score >= p.score
      BY <2>2, PassageType
    <3>2. QED
      BY <3>1 DEF Better
  <2>4. \A i \in DOMAIN s : b[i] \in {s[i], p} /\ b[i] \in Passage
    BY <2>1, <2>2, <2>3
  <2>5. b \in Seq(Passage) /\ DOMAIN b = DOMAIN s
    <3>1. b \in [1..Len(s) -> Passage] /\ Len(s) \in Nat
      BY <2>1, <2>4
    <3>2. QED
      BY <3>1
  <2>6. \A i \in DOMAIN s : \A r \in Passage : StandsFor(s[i], r) => StandsFor(b[i], r)
    <3> SUFFICES ASSUME NEW i \in DOMAIN s, NEW r \in Passage, StandsFor(s[i], r)
                 PROVE  StandsFor(b[i], r)
      OBVIOUS
    <3>1. CASE b[i] = s[i]
      BY <3>1
    <3>2. CASE b[i] # s[i]
      <4>1. KeyOf(s[i]) = KeyOf(p) /\ b[i] = p /\ p.authority > s[i].authority
        BY <2>1, <2>3, <3>2
      <4>2. s[i].authority \in Nat /\ p.authority \in Nat /\ r.authority \in Nat
        BY <2>2, PassageType
      <4>3. QED
        BY <4>1, <4>2 DEF StandsFor
    <3>3. QED
      BY <3>1, <3>2
  <2>7. \E j \in DOMAIN b : StandsFor(b[j], p)
    <3>1. PICK i \in DOMAIN s : KeyOf(s[i]) = KeyOf(p)
      BY <1>1
    <3>2. b[i] = Better(s[i], p)
      BY <2>1, <3>1
    <3>3. /\ s[i].authority \in Nat /\ p.authority \in Nat
          /\ s[i].score \in Nat /\ p.score \in Nat /\ s[i].score >= p.score
      BY <2>2, PassageType
    <3>4. CASE b[i] = p
      BY <2>5, <3>3, <3>4 DEF StandsFor
    <3>5. CASE b[i] = s[i]
      <4>1. s[i].authority >= p.authority
        BY <2>3, <3>2, <3>5
      <4>2. StandsFor(s[i], p)
        BY <3>1, <3>3, <4>1 DEF StandsFor
      <4>3. QED
        BY <2>5, <3>5, <4>2
    <3>6. QED
      BY <2>4, <3>4, <3>5
  <2> HIDE DEF b
  <2>8. QED
    BY <2>4, <2>5, <2>6, <2>7 DEF b
<1>2. CASE ~ \E i \in DOMAIN s : KeyOf(s[i]) = KeyOf(p)
  <2>1. b = Append(s, p)
    BY <1>2 DEF Bucketed
  <2>2. /\ b \in Seq(Passage) /\ Len(b) = Len(s) + 1 /\ Len(s) \in Nat
        /\ b[Len(s) + 1] = p
        /\ \A k \in DOMAIN s : k \in DOMAIN b /\ b[k] = s[k]
        /\ \A j \in DOMAIN b : j \in DOMAIN s \/ j = Len(s) + 1
    BY <2>1
  <2>3. StandsFor(p, p)
    BY PassageType DEF StandsFor
  <2> HIDE DEF b
  <2>4. Len(s) + 1 \in DOMAIN b
    BY <2>2
  <2>5. QED
    BY <2>2, <2>3, <2>4 DEF b
<1>3. QED
  BY <1>1, <1>2

----------------------------------------------------------------------------
(* Conflicts.                                                              *)

LEMMA OverlapIsMutual ==
  ASSUME NEW p \in Passage, NEW q \in Passage, OverlapAtLeast(p.window, q.window, Overlap)
  PROVE  OverlapAtLeast(q.window, p.window, Overlap)
<1> DEFINE v == p.window
           w == q.window
<1>1. v.start \in Nat /\ v.end \in Nat /\ w.start \in Nat /\ w.end \in Nat
  BY PassageType
<1>2. Shared(v, w) = Shared(w, v) /\ Shared(v, w) \in Int
  BY <1>1 DEF Shared, Intersects, Earlier, Later
<1>3. Duration(v) \in Int /\ Duration(w) \in Int
  BY <1>1 DEF Duration
<1> HIDE DEF v, w
<1>4. Duration(v) + Duration(w) - Shared(v, w) = Duration(w) + Duration(v) - Shared(w, v)
  BY <1>2, <1>3
<1>5. QED
  BY <1>2, <1>4 DEF OverlapAtLeast, v, w

LEMMA OverlapIsDetected ==
  ASSUME NEW s \in Seq(Passage), NEW i \in DOMAIN s, NEW j \in DOMAIN s, i # j,
         OverlapAtLeast(s[i].window, s[j].window, Overlap)
  PROVE  DetectConflicts(s) # {}
<1>1. i \in Nat /\ j \in Nat /\ s[i] \in Passage /\ s[j] \in Passage
  OBVIOUS
<1>2. OverlapAtLeast(s[j].window, s[i].window, Overlap)
  BY <1>1, OverlapIsMutual
<1>3. CASE i < j
  <2>1. <<i, j>> \in DetectConflicts(s)
    BY <1>3 DEF DetectConflicts
  <2>2. QED
    BY <2>1
<1>4. CASE j < i
  <2>1. <<j, i>> \in DetectConflicts(s)
    BY <1>2, <1>4 DEF DetectConflicts
  <2>2. QED
    BY <2>1
<1>5. QED
  BY <1>1, <1>3, <1>4

----------------------------------------------------------------------------
(* The evidence of a request, from its results to its reply.               *)

\* The steps after the reduction.
After == {"conflicts", "provider", "load", "attempt", "digest", "note", "text"}

ResultsInv ==
  /\ retrieved.results \in Seq(Passage) /\ InScoreOrder(retrieved.results)
  /\ read \in Nat /\ read <= Len(retrieved.results)
  /\ reduced \in Seq(Passage)

\* What was read is in the bucket, and what was not scores no higher.
KeptInv ==
  /\ pc \in {"route", "retrieve", "plan"} => read = 0 /\ reduced = <<>>
  /\ pc \in {"plan", "reduce"} \cup After =>
       \A i \in DOMAIN retrieved.results : i <= read =>
         \E j \in DOMAIN reduced : StandsFor(reduced[j], retrieved.results[i])
  /\ pc = "reduce" => \A i \in DOMAIN retrieved.results, j \in DOMAIN reduced :
       i > read => reduced[j].score >= retrieved.results[i].score
  /\ pc \in After => read = Len(retrieved.results)
  /\ pc = "idle" => KeptIsBest

\* No text is written over a conflict outside the world economy.
ConflictInv ==
  /\ pc \in After => conflicts = DetectConflicts(reduced)
  /\ pc \in After \ {"conflicts"} => conflicts = {} \/ query.domain = "world-economy"
  /\ pc = "idle" => ConflictIsNeverSilent

EvidenceInv == ResultsInv /\ KeptInv /\ ConflictInv

LEMMA EvidenceInit == Init => EvidenceInv
<1> SUFFICES ASSUME Init
             PROVE  EvidenceInv
  OBVIOUS
<1>1. /\ pc = "idle" /\ read = 0 /\ reduced = <<>> /\ retrieved.results = <<>>
      /\ ~ Answered
  BY DEF Init, NothingRetrieved, NoReply, Answered, Replied
<1>2. <<>> \in Seq(Passage) /\ Len(<<>>) = 0
  OBVIOUS
<1>3. InScoreOrder(<<>>)
  BY DEF InScoreOrder
<1>4. ResultsInv
  BY <1>1, <1>2, <1>3 DEF ResultsInv
<1>5. QED
  BY <1>1, <1>4 DEF EvidenceInv, KeptInv, ConflictInv, After, KeptIsBest, ConflictIsNeverSilent

LEMMA ReceiveKeeps ==
  ASSUME EvidenceInv, Receive
  PROVE  EvidenceInv'
<1>1. pc' = "route" /\ read' = 0 /\ reduced' = <<>> /\ retrieved'.results = <<>>
  BY DEF Receive, Goto, NothingRetrieved
<1>2. <<>> \in Seq(Passage) /\ Len(<<>>) = 0
  OBVIOUS
<1>3. InScoreOrder(<<>>)
  BY DEF InScoreOrder
<1>4. ResultsInv'
  BY <1>1, <1>2, <1>3 DEF ResultsInv
<1>5. QED
  BY <1>1, <1>4 DEF EvidenceInv, KeptInv, ConflictInv, After

LEMMA RetrieveKeeps ==
  ASSUME EvidenceInv, Retrieve
  PROVE  EvidenceInv'
<1>1. PICK r \in Retrievals : retrieved' = r
  BY DEF Retrieve
<1>2. r.results \in Seq(Passage) /\ InScoreOrder(r.results)
  BY AnsweringAssumption
<1>3. pc' = "plan" /\ UNCHANGED <<read, reduced>> /\ read = 0 /\ reduced = <<>>
  BY DEF Retrieve, At, Goto, EvidenceInv, KeptInv
<1>4. \A i \in DOMAIN r.results : ~ (i <= 0)
  BY <1>2
<1>5. ResultsInv'
  BY <1>1, <1>2, <1>3 DEF EvidenceInv, ResultsInv
<1>6. KeptInv'
  BY <1>1, <1>3, <1>4 DEF KeptInv, After
<1>7. QED
  BY <1>3, <1>5, <1>6 DEF EvidenceInv, ConflictInv, After

\* A turn of the loop: what was in the bucket for a result, or is better, stays.
LEMMA ReducePassageKeeps ==
  ASSUME EvidenceInv, ReducePassage
  PROVE  EvidenceInv'
<1> DEFINE results == retrieved.results
           p == results[read + 1]
<1>1. /\ pc = "reduce" /\ pc' = "reduce" /\ read < Len(results) /\ read' = read + 1
      /\ reduced' = Bucketed(reduced, p) /\ UNCHANGED retrieved
  BY DEF ReducePassage, At
<1>2. /\ results \in Seq(Passage) /\ InScoreOrder(results) /\ reduced \in Seq(Passage)
      /\ read \in Nat
      /\ \A i \in DOMAIN results : i <= read =>
           \E j \in DOMAIN reduced : StandsFor(reduced[j], results[i])
      /\ \A i \in DOMAIN results, j \in DOMAIN reduced :
           i > read => reduced[j].score >= results[i].score
  BY <1>1 DEF EvidenceInv, ResultsInv, KeptInv
<1>3. /\ read + 1 \in DOMAIN results /\ p \in Passage
      /\ \A i \in DOMAIN results : results[i] \in Passage /\ i \in Nat
  BY <1>1, <1>2
<1>4. \A j \in DOMAIN reduced : reduced[j].score >= p.score
  BY <1>2, <1>3
<1> HIDE DEF results, p
<1>5. /\ reduced' \in Seq(Passage)
      /\ \A j \in DOMAIN reduced' : reduced'[j] = p \/ \E k \in DOMAIN reduced : reduced'[j] = reduced[k]
      /\ \E j \in DOMAIN reduced' : StandsFor(reduced'[j], p)
      /\ \A r \in Passage : (\E k \in DOMAIN reduced : StandsFor(reduced[k], r)) =>
           \E j \in DOMAIN reduced' : StandsFor(reduced'[j], r)
  BY <1>1, <1>2, <1>3, <1>4, BucketedKeeps
<1>6. ResultsInv'
  <2>1. read' \in Nat /\ read' <= Len(results)
    BY <1>1, <1>2
  <2>2. QED
    BY <1>1, <1>2, <1>5, <2>1 DEF ResultsInv, results
<1>7. \A i \in DOMAIN results : i <= read + 1 =>
        \E j \in DOMAIN reduced' : StandsFor(reduced'[j], results[i])
  <2> SUFFICES ASSUME NEW i \in DOMAIN results, i <= read + 1
               PROVE  \E j \in DOMAIN reduced' : StandsFor(reduced'[j], results[i])
    OBVIOUS
  <2>1. CASE i = read + 1
    BY <1>5, <2>1 DEF p
  <2>2. CASE i <= read
    BY <1>2, <1>3, <1>5, <2>2
  <2>3. QED
    BY <1>2, <1>3, <2>1, <2>2
<1>8. \A i \in DOMAIN results, j \in DOMAIN reduced' :
        i > read + 1 => reduced'[j].score >= results[i].score
  <2> SUFFICES ASSUME NEW i \in DOMAIN results, NEW j \in DOMAIN reduced', i > read + 1
               PROVE  reduced'[j].score >= results[i].score
    OBVIOUS
  <2>1. p.score >= results[i].score
    BY <1>2, <1>3 DEF InScoreOrder, p
  <2>2. i > read
    BY <1>2, <1>3
  <2>3. QED
    BY <1>2, <1>5, <2>1, <2>2
<1>9. KeptInv'
  BY <1>1, <1>7, <1>8 DEF KeptInv, After, results
<1>10. QED
  BY <1>1, <1>6, <1>9 DEF EvidenceInv, ConflictInv, After

LEMMA ReduceKeeps ==
  ASSUME EvidenceInv, Reduce
  PROVE  EvidenceInv'
<1> DEFINE results == retrieved.results
<1>1. /\ pc = "reduce" /\ pc' = "conflicts" /\ read = Len(results) /\ UNCHANGED <<read, retrieved>>
      /\ reduced' = Sorted(reduced) /\ conflicts' = DetectConflicts(reduced')
  BY DEF Reduce, At, Goto
<1>2. /\ reduced \in Seq(Passage)
      /\ \A i \in DOMAIN results : i <= read =>
           \E j \in DOMAIN reduced : StandsFor(reduced[j], results[i])
  BY <1>1 DEF EvidenceInv, ResultsInv, KeptInv
<1> HIDE DEF results
<1>3. /\ reduced' \in Seq(Passage) /\ DOMAIN reduced' = DOMAIN reduced
      /\ \A i \in DOMAIN reduced : \E n \in DOMAIN reduced : reduced'[n] = reduced[i]
  BY <1>1, <1>2, SortedKeeps
<1>4. \A i \in DOMAIN results : i <= read =>
        \E j \in DOMAIN reduced' : StandsFor(reduced'[j], results[i])
  BY <1>2, <1>3
<1>5. ResultsInv'
  BY <1>1, <1>3 DEF EvidenceInv, ResultsInv
<1>6. KeptInv'
  BY <1>1, <1>4 DEF KeptInv, After, results
<1>7. QED
  BY <1>1, <1>5, <1>6 DEF EvidenceInv, ConflictInv, After

\* While the text is generated the evidence stays.
LEMMA GenerationKeeps ==
  ASSUME EvidenceInv, UNCHANGED <<query, retrieved, read, reduced, conflicts>>, pc \in After,
         pc' \in After \ {"conflicts"},
         pc = "conflicts" => conflicts = {} \/ query.domain = "world-economy"
  PROVE  EvidenceInv'
<1>1. pc' # "idle" /\ pc' # "reduce" /\ pc' \notin {"route", "retrieve", "plan"}
  BY DEF After
<1>2. ResultsInv'
  BY DEF EvidenceInv, ResultsInv
<1>3. KeptInv'
  BY <1>1 DEF EvidenceInv, KeptInv
<1>4. ConflictInv'
  BY <1>1 DEF EvidenceInv, ConflictInv
<1>5. QED
  BY <1>2, <1>3, <1>4 DEF EvidenceInv

\* A reply gives the evidence as it is, and says of a conflict what it must.
LEMMA ReplyKeeps ==
  ASSUME EvidenceInv, UNCHANGED <<query, retrieved, read, reduced, conflicts>>, pc \in After,
         pc' = "idle", reply'.sources = reduced,
         conflicts # {} =>
           /\ reply'.events = 1 /\ reply'.level \in {"LOW", "MEDIUM"}
           /\ \/ reply'.text = "withheld" /\ reply'.evidenceOnly
              \/ query.domain = "world-economy" /\ "CHRONO_SANITY_WARN" \in reply'.degraded
  PROVE  EvidenceInv'
<1>1. /\ retrieved.results \in Seq(Passage) /\ reduced \in Seq(Passage)
      /\ read = Len(retrieved.results)
      /\ \A i \in DOMAIN retrieved.results : i <= read =>
           \E j \in DOMAIN reduced : StandsFor(reduced[j], retrieved.results[i])
      /\ conflicts = DetectConflicts(reduced)
  BY DEF EvidenceInv, ResultsInv, KeptInv, ConflictInv
<1>2. KeptIsBest'
  <2> SUFFICES ASSUME NEW p \in ToSet(retrieved.results)
               PROVE  \E q \in ToSet(reduced) : StandsFor(q, p)
    BY DEF KeptIsBest, StandsFor
  <2>1. PICK i \in DOMAIN retrieved.results : p = retrieved.results[i]
    BY DEF ToSet
  <2>2. i <= read
    BY <1>1
  <2>3. PICK j \in DOMAIN reduced : StandsFor(reduced[j], p)
    BY <1>1, <2>1, <2>2
  <2>4. QED
    BY <2>3 DEF ToSet
<1>3. ConflictIsNeverSilent'
  <2> SUFFICES ASSUME NEW p \in ToSet(reduced), NEW q \in ToSet(reduced), p # q,
                      OverlapAtLeast(p.window, q.window, Overlap)
               PROVE  conflicts # {}
    BY DEF ConflictIsNeverSilent
  <2>1. PICK i \in DOMAIN reduced : p = reduced[i]
    BY DEF ToSet
  <2>2. PICK j \in DOMAIN reduced : q = reduced[j]
    BY DEF ToSet
  <2>3. i # j
    BY <2>1, <2>2
  <2>4. QED
    BY <1>1, <2>1, <2>2, <2>3, OverlapIsDetected
<1>4. ResultsInv'
  BY DEF EvidenceInv, ResultsInv
<1>5. QED
  BY <1>2, <1>3, <1>4 DEF EvidenceInv, KeptInv, ConflictInv, After

LEMMA EvidenceNext == EvidenceInv /\ [Next]_vars => EvidenceInv'
<1> SUFFICES ASSUME EvidenceInv, [Next]_vars
             PROVE  EvidenceInv'
  OBVIOUS
<1> USE DEF At, Goto, given, evidence
<1>1. CASE RouteQuery \/ PlanHops
  <2>1. /\ UNCHANGED <<query, retrieved, read, reduced, conflicts>>
        /\ pc \in {"route", "plan"} /\ pc' \in {"retrieve", "reduce"}
        /\ pc' = "reduce" => pc = "plan"
    BY <1>1 DEF RouteQuery, PlanHops
  <2>2. read = 0 /\ reduced = <<>>
    BY <2>1 DEF EvidenceInv, KeptInv
  <2>3. QED
    BY <2>1, <2>2 DEF EvidenceInv, ResultsInv, KeptInv, ConflictInv, After
<1>2. CASE RouteFails \/ RetrieveFails
  <2>1. reply'.text = "error" /\ pc' = "idle" /\ UNCHANGED evidence
    BY <1>2 DEF RouteFails, RetrieveFails, Fails, NoReply
  <2>2. ~ Answered'
    BY <2>1 DEF Answered
  <2>3. QED
    BY <2>1, <2>2 DEF EvidenceInv, ResultsInv, KeptInv, ConflictInv, After, KeptIsBest,
                      ConflictIsNeverSilent
<1>3. CASE Generate
  <2>1. /\ UNCHANGED <<query, retrieved, read, reduced, conflicts>>
        /\ pc = "conflicts" /\ pc' \in {"digest", "provider", "load"}
        /\ conflicts = {} \/ query.domain = "world-economy"
    BY <1>3 DEF Generate
  <2>2. QED
    BY <2>1, GenerationKeeps DEF After
<1>4. CASE \/ ProviderAnswers \/ ProviderCallFails \/ BackendUnavailable \/ NoBackend
           \/ BackendLoaded \/ AttemptSucceeds \/ AttemptRejected \/ AttemptRaises
  <2>1. /\ UNCHANGED <<query, retrieved, read, reduced, conflicts>>
        /\ pc \in {"provider", "load", "attempt"}
        /\ pc' \in {"text", "note", "load", "digest", "attempt"}
    BY <1>4 DEF ProviderAnswers, ProviderCallFails, BackendUnavailable, NoBackend,
                BackendLoaded, AttemptSucceeds, AttemptRejected, AttemptRaises, Called
  <2>2. QED
    BY <2>1, GenerationKeeps DEF After
<1>5. CASE Block
  BY <1>5, ReplyKeeps DEF Block, After
<1>6. CASE Digest \/ Text
  <2>1. PICK text : Reply(text)
    BY <1>6 DEF Digest, Text
  <2>2. pc \in {"digest", "note", "text"}
    BY <1>6 DEF Digest, Text
  <2>3. /\ UNCHANGED <<query, retrieved, read, reduced, conflicts>>
        /\ pc' = "idle" /\ reply'.sources = reduced
    BY <2>1 DEF Reply
  <2>4. conflicts # {} =>
          /\ reply'.events = 1 /\ reply'.level \in {"LOW", "MEDIUM"}
          /\ query.domain = "world-economy" /\ "CHRONO_SANITY_WARN" \in reply'.degraded
    BY <2>1, <2>2 DEF Reply, Level, EvidenceInv, ConflictInv, After
  <2>5. QED
    BY <2>2, <2>3, <2>4, ReplyKeeps DEF After
<1>7. CASE UNCHANGED vars
  BY <1>7 DEF vars, EvidenceInv, ResultsInv, KeptInv, ConflictInv, KeptIsBest,
              ConflictIsNeverSilent, Answered, Replied
<1>8. QED
  BY <1>1, <1>2, <1>3, <1>4, <1>5, <1>6, <1>7, ReceiveKeeps, RetrieveKeeps, ReducePassageKeeps,
     ReduceKeeps
  DEF Next, Step

LEMMA Evidence == Spec => []EvidenceInv
BY EvidenceInit, EvidenceNext, PTL DEF Spec

\* For any lists of results in the order of their scores: every result stands in
\* the card, by itself or by a passage of the same text and start that has at least
\* its authority, and among those of its authority one of the best score
\* (chrono_reducer.py 35-44).
THEOREM NoResultIsLost == Spec => []KeptIsBest
<1>1. IInv /\ EvidenceInv => KeptIsBest
  BY DEF IInv, ReplyInv, EvidenceInv, KeptInv, KeptIsBest, Answered, Replied, NoReply
<1>2. QED
  BY <1>1, Invariance, Evidence, PTL

\* Two sources of a reply whose windows overlap by the threshold leave it without
\* a text, or marked and below high confidence (answer_service.py 95-166).
THEOREM ConflictsAreDeclared == Spec => []ConflictIsNeverSilent
<1>1. IInv /\ EvidenceInv => ConflictIsNeverSilent
  BY DEF IInv, ReplyInv, EvidenceInv, ConflictInv, ConflictIsNeverSilent, Answered, Replied,
         NoReply
<1>2. QED
  BY <1>1, Invariance, Evidence, PTL

=============================================================================
