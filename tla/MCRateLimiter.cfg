SPECIFICATION FairSpec
CONSTANTS
  Clients = {c1, c2}
  Requests = {r1, r2, r3}
  MaxRequests = 2
  Windows = {0, 2}
  MaxCount = 3
  MaxFaults = 1
  NoClient = NoClient
INVARIANTS
  TypeOK
  LimitKept
  RefusedOnlyWhenFull
  WindowCloses
PROPERTY
  LimitLifted
