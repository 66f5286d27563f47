SPECIFICATION FairSpec
CONSTANTS
  Emails = {m1, m2}
  MaxRetries = 2
  MaxKills = 1
INVARIANTS
  TypeOK
  AcceptedOnce
PROPERTIES
  EveryEmailEnds
CHECK_DEADLOCK FALSE
