SPECIFICATION Spec
CONSTANTS
  pdf = pdf
  g1 = g1
  s1 = s1
  s2 = s2
  NoJob = NoJob
  NoSlot = NoSlot
  Jobs = {g1}
  Slots = {s1, s2}
  MaxAttempts = 2
  MaxStalled = 1
  Pdfs = {pdf}
  Source <- FromIt
  Retries <- TwoPasses
  MaxChars <- TwoPassesChars
  CallsFrom <- TwoPassesCalls
INVARIANTS CalmTestsAreOfTheText TestsBounded
CHECK_DEADLOCK FALSE
