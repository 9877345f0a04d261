SPECIFICATION Spec
CONSTANTS
  Rating <- Ratings
  Time <- Times
  Number = 4
CHECK_DEADLOCK FALSE
INVARIANTS LookupSorted UnratedSorted AnswerReversed
