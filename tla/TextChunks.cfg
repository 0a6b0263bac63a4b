SPECIFICATION FairSpec
CONSTANTS
  Texts <- RunsOfWhiteSpace
  MaxLength = 11
INVARIANTS IInv EveryLetterOnce ContentFits ReadingOrder CutsOnlyLongWords
PROPERTIES Terminates
CHECK_DEADLOCK FALSE
