CONSTANTS
  Threads = 2
  BatchSize = 2
  Files <- SameLength
  All = All
  NoBatch = NoBatch
  Workers = {w1, w2, w3}
  MaxRequests = 1
  QueueLength = 2
  Poison = Poison
  NoRequest = NoRequest
  Texts <- TextsDef
  NGrams <- NGramsDef
  Options <- OptionsDef
  Tags <- TagsDef
  EndSentence = "</s>"
SPECIFICATION FilterSpec
INVARIANTS EntireInputFiltered
CHECK_DEADLOCK FALSE
