CONSTANTS
  BlockCount = 3
  BlockSize = 2
  Records = {a, b}
  Keep = {a}
  a = a
  b = b
  Inputs <- SomeInputs
  MaxWorkers = 4
  Rounds = 2
  Layouts <- AllLayouts
  StreamOutlivesChain = FALSE
SPECIFICATION FairSpec
INVARIANTS BlockOwnedOnce OnlyInputIsAwaited
PROPERTIES ImplementsCopy WaitComesBack
CHECK_DEADLOCK FALSE
