CONSTANTS
  Horizon = 4
  d1 = d1  d2 = d2  e1 = e1  e2 = e2  v1 = v1  v2 = v2
  NoId = NoId  NoWindow = NoWindow  NoChunk = NoChunk
  DocIds = {d1, d2}
  ExternalIds = {e1, e2}
  Versions = {v1, v2}
  Embeddings = {small, base}
  Rows <- MCRows
  MaxChunks = 4
SPECIFICATION Spec
INVARIANTS
  TypeOK
  IndexNamesTheTip
  SupersededIsClosed
  VersionsAreDisjoint
  CleanMeansSaved
  ChunksAreSearchable
PROPERTIES
  HistoryIsKept
  ImplementsVersionLog
