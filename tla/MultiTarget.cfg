\* Three targets, on one thread and on two.
SPECIFICATION TargetsSpec
CONSTANTS
  N = 3
  Workers = {1, 2}
  Files <- MCFiles
  Invalid = "invalid"
  MaxLines = 1
INVARIANTS PassMeansAllPassed FailureIsLocal
PROPERTY MainEnds
CHECK_DEADLOCK FALSE
