\* glyrc and libglyr from the first call to the last, with SIGINT at any time.
SPECIFICATION Spec

CONSTANTS
  Fetcher <- MCFetcher
  Source <- MCSource
  Command <- MCCommand
  G_MAXINT = 100000
  INT_MAX = 100000
  MaxFinds = 2

INVARIANTS
  NothingKept
  WantedAreAsked

PROPERTIES
  FollowsProtocol
  EveryCommandEnds

\* The process ends.
CHECK_DEADLOCK FALSE
