SPECIFICATION Spec
CONSTANTS
  Emails = {m1}
  MaxRetries = 2
  MaxKills = 0
INVARIANTS
  NilMeansAccepted
CHECK_DEADLOCK FALSE
