CONSTANTS
  t1 = t1  t2 = t2  e1 = e1  e2 = e2  None = None
  Threads = {t1, t2}
  ExternalIds = {e1, e2}
  Requests <- MCRequests
  MaxChunks = 3
SPECIFICATION FairSpec
INVARIANTS
  ReadersFindChunks
  LineageHoldsUnlessRaced
  SnapshotIsPast
  SerialRequestsAreSaved
PROPERTY RequestsEnd
CHECK_DEADLOCK FALSE
