SPECIFICATION FairSpec
CONSTANTS
  text = text
  s1 = s1
  s2 = s2
  NoJob = NoJob
  NoSlot = NoSlot
  Jobs = {text}
  Slots = {s1, s2}
  MaxAttempts = 3
  MaxStalled = 1
  NumChunks <- TwoChunks
INVARIANTS IInv ReadyIsExact CompletedIsReady QueuedIsStored RunBudget DuplicationBound
PROPERTIES SettledIsFinal KeepsPromise SettlesUnlessHung
CHECK_DEADLOCK FALSE
