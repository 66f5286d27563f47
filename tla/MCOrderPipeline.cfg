SPECIFICATION FairSpec
CONSTANTS
  Orders = {o1}
  GrpcOrders = {o1}
  NoOrder = NoOrder
  MaxOrderFaults = 1
  MaxPaymentFaults = 2
  MaxBroken = 1
  MaxForgets = 1
INVARIANTS
  TypeOK
  ChargedOrderExplained
PROPERTIES
  PurchaseSpec
  CallsComeBack
