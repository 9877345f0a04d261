\* Every registered provider with every page of its server, for five queries.
SPECIFICATION Spec

CONSTANTS
  Site <- MCSite
  Query <- MCQuery
  Sum <- Sums

INVARIANTS
  TypeOK
  NotBeyondLimit
  NoneTwice
  OnlyAsked
  AddressesOwned
  ChecksAreExact
  ThreadsHaveTheirItem

PROPERTIES
  StopsAdding
  Returns

\* A stray pointer may be the end of the process.
CHECK_DEADLOCK FALSE
