SPECIFICATION Spec
CONSTANTS
  Texts <- RunsOfWhiteSpace
  MaxLength = 11
INVARIANTS IndexWithinPage
CHECK_DEADLOCK FALSE
