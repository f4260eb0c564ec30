\* Consumers that go on pulling, under weak fairness.
SPECIFICATION FairSpec
CONSTANTS
  n1 = n1
  n2 = n2
  r1 = r1
  r2 = r2
  r3 = r3
  x = x
  y = y
  nilv = nilv
  NilValue = nilv
  Node = {n1}
  Reader <- Consumers3
  Value <- Values
  MaxGen = 1
  MaxCalls = 3
  MaxErrors = 1
  Out <- OutLong
  Scalar = FALSE
  Reentrant = TRUE
INVARIANTS
  PullersExact
PROPERTIES
  ReadersFinish
CHECK_DEADLOCK FALSE
