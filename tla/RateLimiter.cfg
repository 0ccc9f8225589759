SPECIFICATION FairSpec
CONSTANTS
  c1 = c1
  c2 = c2
  Callers <- MCCallers
  Rates <- MCRates
  InitialRate <- MCInitial
  Second = 2
  Slack = 1
  MaxClock = 5
  MaxLimiters = 2
  MaxCalls = 2
  Cancelling <- MCCancelling
INVARIANTS
  TypeOK
  SlotsSpaced
  WindowKept
PROPERTIES
  WaitReturns
  OldLimiterDrains
