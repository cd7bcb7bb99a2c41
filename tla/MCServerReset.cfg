CONSTANTS
  c1 = c1
  c2 = c2
  Handlers = {h1}
  ConnRequests = {q1}
  Requests = {r1}
  Decoders = {d1}
  OutputQueueSize = 1
  Clients <- TwoClients
  Configs = {v1}
  DefaultConfig = v1
  Flushing = {}
  MaxMatched <- OneEach
  MaxOther <- OneEach
  Fickle = {}
  SocketSize = 1
  None = None
SPECIFICATION Spec
PROPERTY ResetIsThreadsafe
CHECK_DEADLOCK FALSE
