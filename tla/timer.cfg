SPECIFICATION Spec
CONSTANTS
  NS = 4
  LS = 2
  Requests = {r1, r2}
  Waits = {0, 1, 5, 9, 40}
  MaxDiff = 2
  MaxTicks = 66
  None = None
SYMMETRY Symmetry
INVARIANTS
  KeptOnce
  TicksCounted
  HangsOnlyWhenDue
CHECK_DEADLOCK FALSE
