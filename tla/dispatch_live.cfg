SPECIFICATION FairSpec
CONSTANTS
  Workers = {w1, w2}
  Timer = tm
  Externals = {tm, sk}
  Ctx = {lg, bs}
  Logger = lg
  Bootstrap = bs
  None = None
  MaxSend = 1
  MaxFail = 0
  MaxCalls = 3
  CountMod = 16
PROPERTIES
  EventsServed
  DestructorEnds
  WorkersReturn
CHECK_DEADLOCK FALSE
