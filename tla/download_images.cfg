SPECIFICATION StalledSpec
CONSTANTS
  u1 = u1
  u2 = u2
  u3 = u3
  u4 = u4
  i1 = i1
  i2 = i2
  i3 = i3
  Url <- Urls
  Item <- Items
  Page <- Pages
  Blacklisted <- OneBlacklisted
  Marked <- OneMarked
  Receiver = "image"
  Timeout = 1
  Parallel = 2
  Number = 3
INVARIANTS FreedAtMostOnce NothingLeaks
PROPERTIES ExitEndsIt
