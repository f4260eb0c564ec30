SPECIFICATION FfiSpec
CONSTANTS
  t1 = t1
  t2 = t2
  Byte = 2
  Long = 4
  HostSymbols <- MCHostSymbols
  Symbols <- MCSymbols
  Thread = {t1, t2}
  Sessions <- MCSessions
INVARIANTS
  AcceptsExactly
  AbortsExplained
  DataExact
  SwitchesDispatch
PROPERTY RefusedChangesNothing
CHECK_DEADLOCK FALSE
