CONSTANTS
  UrlJobs = {u1}
  ParamJobs = {p1}
  FormJobs = {}
  ApiJobs = {}
  Concurrency = 1
  MaxRequests = 3
SPECIFICATION Spec
INVARIANTS EmittedReachesReport
