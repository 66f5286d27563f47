SPECIFICATION Spec
CONSTANTS
  Clients = {c1}
  Requests = {r1}
  MaxRequests = 1
  Windows = {1}
  MaxCount = 2
  MaxFaults = 1
  NoClient = NoClient
INVARIANT
  EveryWindowEnds
