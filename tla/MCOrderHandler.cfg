SPECIFICATION FairSpec
CONSTANTS
  Orders = {o1, o2}
  GrpcOrders = {o1}
  Readers = {r1}
  TTL = 1
  MaxFaults = 1
  NoOrder = NoOrder
INVARIANTS
  TypeOK
  CacheNeverAhead
  StaleExplained
  ReplyMatchesRow
PROPERTIES
  FreshInTheEnd
  CallsEnd
