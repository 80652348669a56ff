SPECIFICATION FairSpec
CONSTANTS
  UpdateInterval = 3
  MaxQueue = 2
INVARIANTS
  TypeOK
  AnimationOwned
  SegmentsExact
  PulseWhenOpen
PROPERTIES
  SettlesClosed
  HiddenWithObject
