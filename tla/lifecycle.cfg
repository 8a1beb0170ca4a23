SPECIFICATION LSpec
CONSTANTS
  Services = {bs, s1, s2}
  Keys = {k1}
  Settings = {k1}
  Values = {a}
  Nil = Nil
  Boot = bs
  Modules = {script, cxx, bad}
  Script = script
  Broken = {bad}
  MaxSends = 1
INVARIANTS
  OpenedOnce
  StartNeedsLoad
PROPERTIES
  LoadedStarts
CHECK_DEADLOCK FALSE
