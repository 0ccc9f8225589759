SPECIFICATION FairSpec
CONSTANTS
  g1 = g1
  g2 = g2
  f1 = f1
  f2 = f2
  t1 = t1
  t2 = t2
  Goroutines <- MCGoroutines2
  Fields <- MCFields
  Lists <- MCLists
  Traces <- MCTraces
  Blank = Blank
  NoTrace = NoTrace
  Free = Free
  Nobody = Nobody
  Levels = {1, 2}
  Info = 1
  MaxLoggers <- MCMax
INVARIANTS
  LoggersTypeOK
  FieldsKept
PROPERTIES
  LogReturns
CHECK_DEADLOCK FALSE
