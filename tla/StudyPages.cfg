SPECIFICATION FairSpec
CONSTANTS
  Pdfs = {old, new}
  Owned = {old}
  NoList = NoList
  MaxLosses = 1
  NoAnswer = NoAnswer
  NoCall = NoCall
  AnswerLength = 1
  MaxQuestions = 2
  Tests = {test}
  NoCard = NoCard
  MaxFiles = 1
  MaxSheets = 2
  MaxVersions = 2
INVARIANTS IInv
PROPERTIES ListCatchesUp AnswersArrive
