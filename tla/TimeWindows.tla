---------------------------- MODULE TimeWindows ----------------------------
(***************************************************************************)
(* The interval algebra of app/utils/time_windows.py.  An instant is an    *)
(* integer (a day, in the code a datetime) and a window is a record of its *)
(* start and its end, closed on the left and open on the right.            *)
(***************************************************************************)
EXTENDS Integers

CONSTANT Horizon     \* the last instant, 9999-12-31 in the code

ASSUME HorizonAssumption == Horizon \in Nat

Instants == 0..Horizon

\* Everything the dataclass can hold, inverted pairs included.
RawWindow == [start : Instants, end : Instants]

\* What make_window returns: the pair put in order.
Window == {w \in RawWindow : w.start <= w.end}

Span(s, e) == [start |-> s, end |-> e]

Earlier(a, b) == IF a <= b THEN a ELSE b
Later(a, b)   == IF a <= b THEN b ELSE a

MakeWindow(s, e) == Span(Earlier(s, e), Later(s, e))

AllTime == Span(0, Horizon)

Intersects(v, w) == ~ (v.end <= w.start \/ w.end <= v.start)

HardModePreMask(candidate, query) == Intersects(candidate, query)

Distance(a, b) == Later(a - b, b - a)

\* The number of days intelligent_decay counts between two windows; the weight
\* it returns is 1 / (1 + Gap), so a smaller gap is a larger weight.
Gap(candidate, query) ==
  IF Intersects(candidate, query)
  THEN 0
  ELSE Earlier(Distance(candidate.start, query.end),
               Distance(query.start, candidate.end))

============================================================================
