SPECIFICATION Spec
CONSTANTS
  t1 = t1
  t2 = t2
  a = a
  b = b
  p = p
  none = none
  s = s
  Absent = Absent
  Thread <- TwoThreads
  Query <- TextQueries
  Item <- TextItems
  EditList <- TextLists
  Fields <- ArtistAlbum
  Required <- Artist
  Optional <- Album
  ImageType = FALSE
  Name <- Names
  Provider <- Providers
  NoProvider = none
  Sum <- Sums
  Source <- Sources
  OtherProcess = FALSE
  MaxCalls = 4
CHECK_DEADLOCK FALSE
INVARIANTS TypeOK RowsResolve Durable NothingOpen
PROPERTIES DeleteIsComplete
