SPECIFICATION Spec
CONSTANTS
  Services = {s1, s2, s3}
  Keys = {k1, k2, k3}
  Settings = {k1}
  Values = {a, b}
  Nil = Nil
SYMMETRY Symmetry
INVARIANTS
  AssertionHolds
CHECK_DEADLOCK FALSE
