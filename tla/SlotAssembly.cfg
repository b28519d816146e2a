CONSTANTS
  Rows <- MCRows
  Corpora <- MCCorpora
  SourceFamilies <- MCSourceFamilies
  MetricTerms = {"yield", "close", "filing", "release", "rate", "index"}
  PoolSize = 3
  Queries <- MCQueries
  Relevances = {0, 100}
  Ablations <- MCAblations
  TopKs = {0, 2, 3}
SPECIFICATION Spec
INVARIANTS
  TypeOK
  BothSidesAreKept
  WrongEvidenceStandsAlone
  FilingsNeverStandIn
  ExactBeatsItsNeighbours
CHECK_DEADLOCK FALSE
