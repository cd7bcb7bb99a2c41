CONSTANTS
  Producers = {p1, p2}
  Consumers = {c1, c2}
  Values = {a, b}
  Capacity = 2
  Torn = Torn
  NoValue = NoValue
  NoOwner = NoOwner
SPECIFICATION FairSpec
INVARIANTS NoSlotRace
PROPERTIES ImplementsFIFO ProducersProgress
