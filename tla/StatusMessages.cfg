SPECIFICATION Spec
CONSTANTS
  l1 = l1
  l2 = l2
  LimitedStates <- MCLimitedStates
  EscalationDelay = 6
  FocusDelay = 10
  PlaneDelay = 15
  ContentDelay = 15
  DisplayDuration = 12
  MaxBlocks = 1
SYMMETRY StateSymmetry
INVARIANTS
  TypeOK
  HideTimerOfCurrent
  EscalationNotStale
  SurfaceHintNeeded
  ClosedIsQuiet
