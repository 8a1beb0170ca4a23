SPECIFICATION PSpec
CONSTANTS
  Events = {b1, b2, b3}
  Kinds <- AllKinds
  None = None
  Junk = Junk
  DefaultSize = 1
  EqOverload = 1
  MaxLength = 3
INVARIANTS
  OneOwner
  BuffersFreed
  WarningsGrow
PROPERTIES
  ImplementsFifo
  EventuallyFreed
CHECK_DEADLOCK FALSE
