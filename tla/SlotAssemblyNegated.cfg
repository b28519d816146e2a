CONSTANTS
  Rows <- MCRows
  Corpora <- MCCorpora
  SourceFamilies <- MCSourceFamilies
  MetricTerms = {"yield", "close", "filing", "release", "rate", "index"}
  PoolSize = 3
  Queries <- MCQueries
  Relevances = {0, 100}
  Ablations <- MCAblations
  TopKs = {0, 1, 3}
SPECIFICATION Spec
INVARIANT NegatedIsNeverATarget
CHECK_DEADLOCK FALSE
