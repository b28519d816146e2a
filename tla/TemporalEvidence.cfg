CONSTANTS
  Horizon = 8
  YearLength = 3
  Epoch = 3
  None = None
  ClockTime = ClockTime
  Texts <- MCTexts
  Payloads <- MCPayloads
  Queries <- MCQueries
  MaxChunks = 2
SPECIFICATION Spec
INVARIANTS
  TypeOK
  ValidTimeHasItsSource
  HardIsWithinIntelligent
  WeakSourcesRankLast
