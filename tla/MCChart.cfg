CONSTANTS
  Order = 4
  Vocab = {1, 2, 3}
  BOS = 1
  Files <- SomeFiles
  ProbOf <- SomeProb
  BackoffOf <- SomeBackoff
  MaxWords = 4
  MaxRules = 3
SPECIFICATION Spec
INVARIANTS ScoreRight RightStateRight LeftStateRight ForgottenStateFound
CHECK_DEADLOCK FALSE
