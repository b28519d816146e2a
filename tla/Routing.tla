------------------------------ MODULE Routing ------------------------------
(***************************************************************************)
(* The temporal router (core/router/temporal_router.py) and the hop        *)
(* controller (core/dhqc/controller.py): pure functions of the query, of   *)
(* the policy they were built with and of a coverage.  Instants are years. *)
(*                                                                         *)
(* A query is what the regular expressions and keywords find in its text.  *)
(***************************************************************************)
EXTENDS TimeWindows, Sequences, FiniteSetsExt

CONSTANTS
  YearPad, CenturyPad, Century,  \* decade_padding_years, century_padding_years, 100
  PeriodWindows,   \* fuzzy_period_map, a sequence of windows in its order
  Policies,        \* policy_sets: domain to [axis, mode, hard]
  Tau, Delta,      \* hundredths
  HopsMax, HopsHard,
  BroadEnd,        \* where the window of a query without a time ends
  NoHint

ASSUME RoutingAssumption ==
  /\ {YearPad, CenturyPad, HopsMax, HopsHard} \subseteq Nat
  /\ BroadEnd \in Instants /\ Century \in Nat \ {0} /\ Tau \in 1..100 /\ Delta \in Nat
  /\ \A i \in DOMAIN PeriodWindows : PeriodWindows[i] \in Window
  /\ "generic" \in DOMAIN Policies

\* years, centuries, periods: what _detect_time_signals finds; filing: one of
\* the words for the transaction axis.
Query ==
  [hint : [operator : {"AS_OF", "BETWEEN"}, from : Instants, to : Instants] \cup {NoHint},
   years : SUBSET Instants, centuries : SUBSET Instants,
   periods : SUBSET DOMAIN PeriodWindows, filing : BOOLEAN, domain : STRING]

PolicyFor(domain) ==
  IF domain \in DOMAIN Policies THEN Policies[domain] ELSE Policies["generic"]

PickAxis(q) ==
  IF q.filing \/ q.domain = "finance" THEN "transaction" ELSE PolicyFor(q.domain).axis

\* answer and retrieve pass no signals, so what the window is decides.
PickMode(domain, kind) ==
  LET hard == PolicyFor(domain).hard IN
  IF \/ kind \in {"year", "decade"} /\ "explicit_year" \in hard
     \/ kind = "century" /\ "explicit_century" \in hard
     \/ kind = "period" /\ "explicit_period" \in hard
  THEN "HARD" ELSE PolicyFor(domain).mode

\* One day after the last the calendar has cannot be computed.
HintOverflows(hint) == hint.operator = "AS_OF" /\ hint.from = Horizon

HintWindow(hint) ==
  IF hint.operator = "AS_OF" THEN MakeWindow(hint.from, hint.from + 1)
                             ELSE MakeWindow(hint.from, hint.to)

\* Mutant: the window of several years ends where the last begins.
YearWindowShort(years) ==
  IF Min(years) = Max(years)
  THEN <<MakeWindow(Later(0, Min(years) - YearPad), Max(years) + YearPad + 1), "decade">>
  ELSE <<MakeWindow(Min(years), Max(years)), "year_range">>

YearWindow(years) ==
  IF Min(years) = Max(years)
  THEN <<MakeWindow(Later(0, Min(years) - YearPad), Max(years) + YearPad + 1), "decade">>
  ELSE <<MakeWindow(Min(years), Max(years) + 1), "year_range">>

\* Only the earliest century counts.
CenturyWindow(centuries) ==
  LET c == Min(centuries) IN
  <<MakeWindow(Later(0, (c - 1) * Century + 1 - CenturyPad), c * Century + CenturyPad + 1),
    "century">>

InferWindow(q) ==
  IF q.hint # NoHint     THEN <<HintWindow(q.hint), "hint">> ELSE
  IF q.periods # {}      THEN <<PeriodWindows[Min(q.periods)], "period">> ELSE
  IF q.centuries # {}    THEN CenturyWindow(q.centuries) ELSE
  IF q.years # {}        THEN YearWindow(q.years)
  ELSE <<MakeWindow(0, BroadEnd), "broad">>

Route(q) ==
  LET inferred == InferWindow(q) IN
  [window |-> inferred[1], kind |-> inferred[2],
   axis |-> PickAxis(q), mode |-> PickMode(q.domain, inferred[2])]

----------------------------------------------------------------------------
(* DHQCController.plan.                                                    *)

\* The gain over tau is below delta.
Stalls(coverage) == 100 * Later(0, coverage - Tau) < Delta * Tau

Plan(mode, coverage) ==
  LET wanted == IF coverage < Tau
                THEN Earlier(IF mode = "HARD" THEN HopsHard ELSE HopsMax, 3) ELSE 1
  IN  IF Stalls(coverage)
      THEN [hops |-> Later(1, wanted - 1), reason |-> "marginal_gain_low"]
      ELSE [hops |-> wanted, reason |-> IF coverage < Tau THEN "low_coverage" ELSE "baseline"]

============================================================================
