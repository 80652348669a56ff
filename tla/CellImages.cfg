SPECIFICATION Spec
CONSTANTS
  f1 = f1
  f2 = f2
  f3 = f3
  u1 = u1
  u2 = u2
  c1 = c1
  Furnitures <- MCFurnitures
  Urls <- MCUrls
  ImageUrl <- MCImageUrl
  Cells <- MCCells
  Details = details
  None = None
  MaxDownloads = 2
INVARIANT TypeOK
PROPERTIES
  ImplementsImageSlot
  ImageArrives
