SPECIFICATION FairSpec
CONSTANTS
  pdf = pdf
  g1 = g1
  s1 = s1
  s2 = s2
  NoJob = NoJob
  NoSlot = NoSlot
  Jobs = {g1}
  Slots = {s1}
  MaxAttempts = 2
  MaxStalled = 1
  Pdfs = {pdf}
  Source <- FromIt
  Retries <- FallbackRetries
  MaxChars <- OneCut
  CallsFrom <- FallbackCalls
INVARIANTS IInv CallsBounded GeneratedHasTest
PROPERTIES GenerationSettles
CHECK_DEADLOCK FALSE
