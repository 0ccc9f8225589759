SPECIFICATION FairSpec
CONSTANTS
  c1 = c1
  c2 = c2
  Callers <- MCCallers1
  NoThread = NoThread
  Ops = {"Connect", "Close"}
  MaxSessions = 2
  MaxCalls = 3
  FaultKinds = {}
  MaxFaults = 0
  MaxRetries = 1
PROPERTIES
  SessionStops
