SPECIFICATION FairSpec
CONSTANTS
  Requests = {p1, p2, p3}
  MaxFaults = 2
INVARIANTS
  TypeOK
  SaidMeansPaid
  NoOpenTransaction
  PublishedWithoutFaults
PROPERTIES
  RequestsEnd
