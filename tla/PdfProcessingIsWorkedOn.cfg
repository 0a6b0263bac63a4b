SPECIFICATION Spec
CONSTANTS
  text = text
  s1 = s1
  s2 = s2
  NoJob = NoJob
  NoSlot = NoSlot
  Jobs = {text}
  Slots = {s1, s2}
  MaxAttempts = 2
  MaxStalled = 1
  NumChunks <- TwoChunks
INVARIANTS ProcessingIsWorkedOn
CHECK_DEADLOCK FALSE
