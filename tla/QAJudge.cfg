CONSTANTS
  NCases = 2
  Expected <- MCExpected
  Retrieved <- MCRetrieved
  Corpus = {"a", "b", "c"}
  TopK = 1
  MaxTopK = 2
  Citations = {{"a"}}
  RetryAttempts = 2
  QAArgs <- MCQAArgs
  Fields = {"overall"}
  JudgeRuns = 1
  ProviderLimit = 2
  JSONLimit = 2
  JudgeArgs <- MCJudgeArgs
  MaxSessions = 2
SPECIFICATION Spec
INVARIANTS
  TypeOK
  CompletedOnce
  FinishedSessionsAreComplete
  PassesRestOnAnswers
PROPERTIES
  ImplementsLedgers
  SessionsEnd
CHECK_DEADLOCK FALSE
