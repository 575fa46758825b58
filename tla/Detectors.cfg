\* Every detector, against every site its probes can tell apart.
SPECIFICATION ProbesSpec
CONSTANTS
  Codes = {200, 401, 404, 429, 500, 503}
  Times = {1, 5}
  Waits = {0, 4}
  Longest = 5
  Failed = Failed
INVARIANTS OnePageIsQuiet FailureAddsNothing FailureHidesLittle UnchangedIsNotResolved StillPresentIsFound
CHECK_DEADLOCK FALSE
