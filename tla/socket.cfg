SPECIFICATION Spec
CONSTANTS
  Services = {a}
  Size = 3
  MaxId = 5
  MaxCalls = 3
  MaxSend = 2
  None = None
INVARIANTS
  AssertionsHold
  EventsAreFresh
  Conserved
  Counted
  NothingAfterTheEnd
PROPERTIES
  ClosedIsSilent
CHECK_DEADLOCK FALSE
