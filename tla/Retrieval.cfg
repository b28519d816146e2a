CONSTANTS
  Readers = {r1}
  Writers = {w1, w2}
  r1 = r1
  w1 = w1
  w2 = w2
  Corpus <- MCCorpus
  Regions = {"a", "b"}
  None = None
  Stored = {1, 2, 3, 4}
  Weights <- MCWeights
  TopKs = {1, 2, 3}
  MinFanout = 3
  MaxRerank = 5
  JudgeModes = {"off", "light", "backend"}
  JudgeScores = {0, 100}
  MaxRequests = 1
SPECIFICATION Spec
INVARIANTS
  TypeOK
  NothingIsLostWithinTheFanout
  WeakNeverOutranksConsistent
PROPERTY RetrievalsEnd
CHECK_DEADLOCK FALSE
