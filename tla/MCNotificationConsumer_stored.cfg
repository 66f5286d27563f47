SPECIFICATION Spec
CONSTANTS
  Events = {e1}
  Malformed = {}
  Workers = {w1}
  MaxRetries = 1
  MaxForgets = 1
  MaxBreaks = 1
  NoEvent = NoEvent
PROPERTY
  NeverSentWhenStored
