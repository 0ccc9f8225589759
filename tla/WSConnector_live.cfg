SPECIFICATION FairSpec
CONSTANTS
  c1 = c1
  c2 = c2
  Callers <- MCCallers2
  NoThread = NoThread
  Ops = {"Connect", "Close", "Send"}
  MaxSessions = 1
  MaxCalls = 1
  FaultKinds = {"dial", "break", "cancel"}
  MaxFaults = 1
  MaxRetries = 1
INVARIANTS
  ReconnectOwnership
  OneWriter
PROPERTIES
  CloseReturns
  FlagCleared
  LossNoticed
