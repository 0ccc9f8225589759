SPECIFICATION Spec
CONSTANTS
  c1 = c1
  c2 = c2
  s1 = s1
  s2 = s2
  Callers <- MCCallers
  Reconnector = Reconnector
  Symbols <- MCSymbols
  Long <- MCLong
  Intervals = {"1m", "1M", "7m"}
  Uses <- MCUses
  MaxCalls = 4
  MaxLosses = 1
INVARIANTS
  BybitTypeOK
  TableServed
  TableTells
PROPERTIES
  OthersKept
