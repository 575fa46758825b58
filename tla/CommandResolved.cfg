\* The exposure history says what is genuinely resolved.
CONSTANTS
  Ids = {c1}
  Runs = {r1, r2}
  BaselineGiven = FALSE
  HistoryGiven = TRUE
  FailOn = FALSE
SPECIFICATION Spec
INVARIANTS ResolvedByCompleteScan
