SPECIFICATION HTTPFairSpec
CONSTANTS
  c1 = c1
  c2 = c2
  Callers <- MCCallers
  Cancelling <- MCCallers
  Rates <- MCRates
  InitialRate <- MCInitial
  Second = 2
  Slack = 1
  MaxClock = 1
  MaxLimiters = 2
  MaxCalls = 1
  Attempts = {0, 1, 3}
INVARIANTS
  HTTPTypeOK
  SameBody
  DoOutcome
  RequestsPermitted
PROPERTIES
  CancelledReturns
