SPECIFICATION FairSpec
CONSTANTS
  Events = {e1, e2, e3}
  Malformed = {e3}
  Workers = {w1, w2}
  MaxRetries = 2
  MaxForgets = 1
  MaxBreaks = 1
  NoEvent = NoEvent
INVARIANTS
  TypeOK
  OneHolder
  NoLeakedDelivery
  WorkerForDelivery
  DeadLettersUnsent
  AckedMeansNotified
  DuplicatesAccounted
PROPERTIES
  NeverSentAfterMark
  DeliverySpec
  EventuallySettled
  DrainCompletes
