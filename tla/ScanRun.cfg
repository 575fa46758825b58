CONSTANTS
  UrlJobs = {u1}
  ParamJobs = {p1, p2}
  FormJobs = {f1}
  ApiJobs = {a1}
  Concurrency = 2
  MaxRequests = 4
SPECIFICATION Spec
INVARIANTS LedgerMatchesProgress CompletedIsComplete ReportKeepsFindings
PROPERTIES RunEnds
