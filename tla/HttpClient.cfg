\* Two threads, a manifest with a testing window, redirects between hosts, POST
\* opted in, a busy answer with and without Retry-After, and liveness, for
\* which symmetry is not sound.
CONSTANTS
  w1 = w1  w2 = w2  page = page  admin = admin  outside = outside
  Workers = {w1, w2}
  Methods = {"GET", "POST"}
  Urls = {page, outside}
  SafeMethods = {"GET"}
  AllowedMethods = {"GET", "POST"}
  InScope = {page}
  OptIn = TRUE
  HasManifest = TRUE
  Authorized <- MCAuthorized
  ManifestPrivate = FALSE
  WindowEnd = 2
  AllowPrivate = FALSE
  MaxRequests = 2
  MaxRedirects = 1
  Interval = 2
  RetryAfters = {3}
  MaxCalls = 3
  MaxTime = 3
SPECIFICATION Spec
INVARIANTS SlotsSpaced ContactsAreCleared BackoffHolds
PROPERTIES ImplementsBudget CallsReturn
CHECK_DEADLOCK FALSE
