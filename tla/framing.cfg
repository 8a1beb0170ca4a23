SPECIFICATION FairSpec
CONSTANTS
  Units = {0, 1, 2, 6, 7}
  Junk = {0, 6}
  Wrap = 8
  BufferMax = 5
  PackMax = 3
  SizeOf <- TwoCommands
  MaxFed = 6
INVARIANTS
  Conserved
  RoomForPacket
  AsSent
PROPERTIES
  HandlerReturns
CHECK_DEADLOCK FALSE
