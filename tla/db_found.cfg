SPECIFICATION Spec
CONSTANTS
  t1 = t1
  t2 = t2
  a = a
  b = b
  p = p
  none = none
  s = s
  Absent = Absent
  Thread <- OneThread
  Query <- PhotoQueries
  Item <- PhotoItems
  EditList <- NoLists
  Fields <- ArtistAlbum
  Required <- Artist
  Optional <- Nothing
  ImageType = TRUE
  Name <- Names
  Provider <- Providers
  NoProvider = none
  Sum <- Sums
  Source <- Sources
  OtherProcess = FALSE
  MaxCalls = 3
CHECK_DEADLOCK FALSE
INVARIANTS InsertedIsFound
