SPECIFICATION Spec
CONSTANTS
  a1 = a1
  a2 = a2
  NoAnchor = NoAnchor
  Gestures = {}
  AnchorIds <- MCAnchorIds
  MaxQueue = 1
  MaxCooldowns = 1
CHECK_DEADLOCK FALSE
PROPERTIES
  LoadingUIEnds
  RestartComesBack
  ImplementsObjectSlot
