SPECIFICATION FairSpec
CONSTANTS
  Orders = {o1}
  GrpcOrders = {o1}
  NoOrder = NoOrder
  MaxOrderFaults = 0
  MaxPaymentFaults = 1
  MaxBroken = 0
  Workers = {w1}
  MaxRetries = 1
  MaxForgets = 1
  MaxBreaks = 0
  NoEvent = NoEvent
INVARIANTS
  TypeOK
  CompletedReachesCustomer
  ChargeReachesCustomer
PROPERTIES
  PipelineSpec
  ChargesFollowedUp
