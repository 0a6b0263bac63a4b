SPECIFICATION FairSpec
CONSTANTS
  Garbled = Garbled
  Blank = Blank
  Skip = Skip
  Empty = Empty
  Yes = Yes
  NoPdf = NoPdf
  NoOrder = NoOrder
  NoTest = NoTest
  NoRequest = NoRequest
  Pdfs = {pdf, other}
  Counts = {1, 2}
  Picks = {0}
  Replies <- MCReplies
  Limit = 2
  MaxQuestions = 3
  MaxTests = 3
  MaxFailures = 1
INVARIANTS IInv ScoreIsShare
PROPERTIES WaitEnds ExpiredIsGraded
