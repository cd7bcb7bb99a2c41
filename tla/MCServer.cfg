CONSTANTS
  c1 = c1
  c2 = c2
  Handlers = {h1, h2}
  ConnRequests = {q1, q2}
  Requests = {r1, r2}
  Decoders = {d1, d2}
  OutputQueueSize = 1
  Clients <- TwoClients
  Configs = {v1, v2}
  DefaultConfig = v1
  Flushing = {v2}
  MaxMatched <- TwoAndOne
  MaxOther <- OneEach
  Fickle = {}
  SocketSize = 1
  None = None
SPECIFICATION Spec
SYMMETRY PoolSymmetry
INVARIANTS RequestsConserved RepliesInOrder AnsweredBeforeClose BackendClean
CHECK_DEADLOCK FALSE
