SPECIFICATION FairSpec
CONSTANTS
  Requests = {p1}
  MaxFaults = 1
PROPERTY
  UnroutedReported
