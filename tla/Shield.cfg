SPECIFICATION Spec
CONSTANTS
  None = None
  Torn = Torn
  MaxRequests = 4
  Scenarios <- MCScenarios
  Rate = 3
  Burst = 2
  Window = 3
  Span = 1
  MaxStale = 1
  MaxRestarts = 1
INVARIANTS LimitsHold SavedIsKept
PROPERTIES LimitedForCause RequestsAnswered
CHECK_DEADLOCK FALSE
