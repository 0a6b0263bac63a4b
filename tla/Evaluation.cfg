SPECIFICATION FairSpec
CONSTANTS
  answer = answer
  s1 = s1
  s2 = s2
  NoJob = NoJob
  NoSlot = NoSlot
  Jobs = {answer}
  WithFile = {answer}
  Slots = {s1, s2}
  MaxAttempts = 3
  MaxStalled = 1
INVARIANTS IInv VersionsInOrder GradingsBounded CompletedHasResult
PROPERTIES ShownMovesForward GradedOneByOne AcceptedIsAnswered
CHECK_DEADLOCK FALSE
