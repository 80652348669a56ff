SPECIFICATION Spec
CONSTANTS
  g1 = g1
  g2 = g2
  Gets <- TwoGets
  MaxMain = 3
INVARIANTS
  UnknownIsTimed
CHECK_DEADLOCK FALSE
