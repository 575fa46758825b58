SPECIFICATION Spec
CONSTANTS
  owner = owner
  guest = guest
  Identities = {owner, guest}
  Anonymous = guest
  Allowed = {owner}
  Fields = {"id", "secret"}
  Required <- MCRequired
  Forbidden <- MCForbidden
  Invariants <- MCInvariants
  None = None
  Torn = Torn
  MaxRedirects = 2
  MaxRounds = 2
  MaxApprovals = 2
INVARIANTS StaysInScope ReportsAreEarned RemediationIsProven GateIsJust
CHECK_DEADLOCK FALSE
