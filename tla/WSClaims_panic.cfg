SPECIFICATION Spec
CONSTANTS
  c1 = c1
  c2 = c2
  Callers <- MCCallers2
  NoThread = NoThread
  Ops = {"Connect", "Close"}
  MaxSessions = 1
  MaxCalls = 1
  FaultKinds = {}
  MaxFaults = 0
  MaxRetries = 1
INVARIANTS
  NeverPanics
