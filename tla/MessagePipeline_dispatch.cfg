SPECIFICATION Spec
CONSTANTS
  c1 = c1
  t1 = t1
  t2 = t2
  h1 = h1
  h2 = h2
  Callers <- MCCallers
  Ops = {"Subscribe", "Unsubscribe"}
  Topics <- MCTopics1
  Handlers <- MCHandlers2
  NoHandler = NoHandler
  PoolSize = 1
  QueueSize = 1
  MaxSessions = 2
  MaxMessages = 1
  MaxCalls = 2
PROPERTIES
  ImplementsDispatch
  ImplementsHandlerMap
SYMMETRY MCSymmetry
