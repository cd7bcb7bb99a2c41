CONSTANTS
  Threads = 2
  BatchSize = 2
  Files <- HarmlessFiles
  All = All
  NoBatch = NoBatch
  Workers = {w1, w2, w3}
  MaxRequests = 4
  QueueLength = 2
  Poison = Poison
  NoRequest = NoRequest
  Texts <- TextsDef
  NGrams <- NGramsDef
  Options <- OptionsDef
  Tags <- TagsDef
  EndSentence = "</s>"
SPECIFICATION FilterSpec
INVARIANTS BatchOwnedOnce SectionsComplete EntireInputFiltered DestroyedMeansHandled RequestsConserved SentencesRight
PROPERTIES BatchesComeBack DestructorReturns
CHECK_DEADLOCK FALSE
