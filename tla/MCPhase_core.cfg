\* Two nodes, two consumers, one reset, one error; no reentrant iteration.
SPECIFICATION Spec
CONSTANTS
  n1 = n1
  n2 = n2
  r1 = r1
  r2 = r2
  r3 = r3
  x = x
  y = y
  nilv = nilv
  NilValue = nilv
  Node <- Nodes
  Reader <- Consumers2
  Value = {x, y}
  MaxGen = 2
  MaxCalls = 3
  MaxErrors = 1
  Out <- OutTwoNodes
  Scalar = FALSE
  Reentrant = FALSE
SYMMETRY ConsumerSymmetry
INVARIANTS
  TypeOK
  Filed
  CommitWhole
  ReadersExact
  FinishedIsCached
  StatsAccount
PROPERTIES
  CommitsStable
  OldTablesClosed
  ImplementsContract
CHECK_DEADLOCK FALSE
