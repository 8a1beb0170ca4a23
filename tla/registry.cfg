SPECIFICATION FairSpec
CONSTANTS
  Launchers = {t1, t2}
  Names = {n1, n2}
  None = None
  Unset = Unset
  FirstCaps = {1, 2}
  IdMark = 3
  MaxServices = 4
  MaxCap = 4
  MaxLabels = 2
INVARIANTS
  LookupExact
  KilledAreFreed
  NamesLead
PROPERTIES
  RegisterReturns
CHECK_DEADLOCK FALSE
