SPECIFICATION FairSpec
CONSTANTS
  c1 = c1
  c2 = c2
  Callers <- MCCallers1
  NoThread = NoThread
  Ops = {"Connect"}
  MaxSessions = 2
  MaxCalls = 1
  FaultKinds = {"break"}
  MaxFaults = 1
  MaxRetries = 1
PROPERTIES
  AutoReconnect
