SPECIFICATION Spec
CONSTANTS
  c1 = c1
  c2 = c2
  Callers <- MCCallers1
  NoThread = NoThread
  Ops = {"Connect", "Close"}
  MaxSessions = 2
  MaxCalls = 2
  FaultKinds = {"dial", "break", "cancel"}
  MaxFaults = 1
  MaxRetries = 1
INVARIANTS
  TypeOK
  OneOwner
  DoneDiscipline
  Watched
PROPERTIES
  ImplementsGuard
  ImplementsSignal
