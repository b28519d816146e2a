------------------------------- MODULE MCPVDB -------------------------------
(* Instances of PVDB for TLC.  The rows are the cases ingestion tells apart:  *)
(* tx windows that open, that are closed by the row itself, that come early   *)
(* and late, and that are missing; rows with and without external and version *)
(* ids.                                                                       *)
EXTENDS PVDB

CONSTANTS d1, d2, e1, e2, v1, v2

RowOf(d, e, valid, tx, v) ==
  [doc |-> d, ext |-> e, valid |-> valid, tx |-> tx, version |-> v]

MCRows == {
  RowOf(d1, e1, Span(1, 3), Span(0, 1),       NoId),
  RowOf(d1, e1, Span(1, 3), Span(1, Horizon), v1),
  RowOf(d1, e1, AllTime,    Span(3, Horizon), v2),
  RowOf(d2, e1, Span(2, 3), NoWindow,         NoId),
  RowOf(d1, e2, Span(2, 3), Span(2, Horizon), v1),
  RowOf(d1, NoId, AllTime,  Span(1, 2),       NoId) }

=============================================================================
