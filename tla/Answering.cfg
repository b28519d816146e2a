CONSTANTS
  Horizon = 20
  YearPad = 2
  CenturyPad = 2
  Century = 5
  PeriodWindows <- MCPeriods
  Policies <- MCPolicies
  Tau = 78
  Delta = 20
  HopsMax = 3
  HopsHard = 6
  BroadEnd = 15
  NoHint = NoHint
  Subjects = {"s"}
  Texts = {"x", "y", "z"}
  Overlap = 6
  Queries <- MCQueries
  Retrievals <- MCRetrievals
  Environments <- MCEnvironments
  RetryPassages = 1
  MaxRequests = 2
SPECIFICATION Spec
INVARIANTS
  ConflictIsNeverSilent
  KeptIsBest
  FallbackIsDeclared
  CallsStayInTheirLane
  NamedYearsAreSearched
CHECK_DEADLOCK FALSE
