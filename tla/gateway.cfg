SPECIFICATION Spec
CONSTANTS
  LastId = 4
  Limit = 2
  TagFrom = 4
  MaxExtra = 1
INVARIANTS
  AcceptFindsListener
  NoneForgotten
  ConnectedIsOpen
  ShutdownsAreDue
PROPERTIES
  ImplementsSessions
  EndsReported
CHECK_DEADLOCK FALSE
