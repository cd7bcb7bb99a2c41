CONSTANTS
  c1 = c1
  c2 = c2
  Handlers = {h1, h2}
  ConnRequests = {q1, q2}
  Requests = {r1}
  Decoders = {d1}
  OutputQueueSize = 1
  Clients <- TwoClients
  Configs = {v1, v2}
  DefaultConfig = v1
  Flushing = {v2}
  MaxMatched <- OneEach
  MaxOther <- OneAndNone
  Fickle = {c2}
  SocketSize = 1
  None = None
SPECIFICATION FairSpec
PROPERTIES EverySentenceAnswered HandlerReturns
CHECK_DEADLOCK FALSE
