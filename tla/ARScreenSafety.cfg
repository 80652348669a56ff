SPECIFICATION Spec
CONSTANTS
  a1 = a1
  a2 = a2
  NoAnchor = NoAnchor
  Gestures = {"pan", "twist"}
  AnchorIds <- MCAnchorIds
  MaxQueue = 2
  MaxCooldowns = 1
SYMMETRY AnchorSymmetry
CHECK_DEADLOCK FALSE
INVARIANTS
  TypeOK
  OneLoadInFlight
  LoadingObjectKept
  AnchorUnique
  AnchoredOrQueued
  RestartLockOwned
  ViewHolds
