SPECIFICATION Spec
CONSTANTS
  Workers = {w1, w2}
  Timer = tm
  Externals = {tm}
  Ctx = {lg, bs, s1, s2}
  Logger = lg
  Bootstrap = bs
  None = None
  MaxSend = 1
  MaxFail = 1
  MaxCalls = 4
  CountMod = 16
SYMMETRY Symmetry
INVARIANTS
  IInv
  NoneStranded
  HangsOnlyInLaunch
  TotalExact
PROPERTIES
  ImplementsMailbox
  DeadStaysDead
CHECK_DEADLOCK FALSE
