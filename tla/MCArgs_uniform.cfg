\* Every call passes two arguments, one of them possibly nil; all three modes.
SPECIFICATION Spec
CONSTANTS
  n1 = n1
  n2 = n2
  a = a
  b = b
  nilarg = nilarg
  Node = {n1, n2}
  Arg = {a, b, nilarg}
  Tuples <- Pairs
  Modes = {"full", "last", "none"}
  MaxCalls = 4
  MaxResets = 1
  SelfCalls = FALSE
INVARIANTS
  AnswersMatch
  FullHistory
CHECK_DEADLOCK FALSE
