--------------------------- MODULE MCPVDBThreads ---------------------------
(* An instance of PVDBThreads for TLC: two threads with an external id each,   *)
(* a request of two rows, a row without tx window and a request for the id of *)
(* the other thread.                                                          *)
EXTENDS PVDBThreads

CONSTANTS t1, t2, e1, e2

Dated(e)   == [ext |-> e, dated |-> TRUE]
Undated(e) == [ext |-> e, dated |-> FALSE]

MCRequests ==
  [t \in Threads |-> IF t = t1 THEN {<<Dated(e1)>>, <<Undated(e1), Dated(e1)>>}
                     ELSE {<<Dated(e2)>>, <<Dated(e1)>>}]

============================================================================
