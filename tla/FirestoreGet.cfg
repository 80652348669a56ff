SPECIFICATION Spec
CONSTANTS
  g1 = g1
  g2 = g2
  Gets <- TwoGets
  MaxMain = 3
INVARIANTS
  TypeOK
  AssertionsHold
  ResponsesCounted
  SyncedIsCurrent
  WaitersServed
  CallsAccounted
PROPERTIES
  ImplementsOneAnswer
CHECK_DEADLOCK FALSE
