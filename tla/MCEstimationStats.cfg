SPECIFICATION FairSpec
CONSTANTS
  CountBlock = 2
  EntrySize = 2
  AdjustBlock = 3
  Thresholds <- SomeThresholds
  PruneWords = {4}
  Memories <- SomeMemories
  Orders = {1, 2, 3}
  Corpora <- SomeCorpora
INVARIANTS CountsOfCounts
