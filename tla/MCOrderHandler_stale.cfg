SPECIFICATION Spec
CONSTANTS
  Orders = {o1}
  GrpcOrders = {}
  Readers = {r1}
  TTL = 1
  MaxFaults = 0
  NoOrder = NoOrder
INVARIANT
  NoPendingAfterPayment
