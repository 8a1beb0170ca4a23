SPECIFICATION FairSpec
CONSTANTS
  Services = {a}
  Size = 2
  MaxId = 2
  MaxCalls = 3
  MaxSend = 0
  None = None
PROPERTIES
  CloseAnswered
CHECK_DEADLOCK FALSE
