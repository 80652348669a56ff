SPECIFICATION Spec
CONSTANTS
  p1 = p1
  p2 = p2
  p3 = p3
  i1 = i1
  i2 = i2
  i3 = i3
  NoPlace = NoPlace
  NoId = NoId
  Places <- MCPlaces
  Ids <- MCIds
  MaxQueue = 2
PROPERTY
  DropKept
