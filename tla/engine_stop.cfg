SPECIFICATION Spec
CONSTANTS
  a = a
  b = b
  c = c
  d = d
  x1 = x1
  x2 = x2
  y1 = y1
  z1 = z1
  z2 = z2
  Provider <- Providers
  Enabled <- Providers
  Offline = {}
  Silent <- OnlyD
  Rating <- Ratings
  Item <- Items
  From <- Finds
  PageSum <- Addresses
  PictureSum <- Images
  Pictures = TRUE
  Number = 2
  DefaultParallel = 2
  QsRatio = 85
  Response <- AllAnswers
  MaxCalls = 1
PROPERTIES StopIsFinal
