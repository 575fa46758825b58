\* Three commands, in sequence or side by side, killed anywhere; no symmetry,
\* it is not sound for liveness.
CONSTANTS
  Ids = {c1}
  Runs = {r1, r2, r3}
  BaselineGiven = TRUE
  HistoryGiven = TRUE
  FailOn = TRUE
SPECIFICATION Spec
INVARIANTS RowsFollowScans LastScanIsOpen
PROPERTIES PassIsBacked CommandsEnd
