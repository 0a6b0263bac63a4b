SPECIFICATION Spec
CONSTANTS
  answer = answer
  s1 = s1
  s2 = s2
  NoJob = NoJob
  NoSlot = NoSlot
  Jobs = {answer}
  WithFile = {}
  Slots = {s1, s2}
  MaxAttempts = 3
  MaxStalled = 1
CHECK_DEADLOCK FALSE
INVARIANT VersionsUnique
