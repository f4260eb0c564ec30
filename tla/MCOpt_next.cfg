\* A phi loop whose next values are meant to be simultaneous.
SPECIFICATION OptSpec
CONSTANTS
  Narrow = 4
  Word = 5
  Fuel = 10
  Functions <- Fibonacci
  Inputs <- Pairs
  Memory <- Contents
  Elements <- Array
INVARIANTS
  SameMeaning
CHECK_DEADLOCK FALSE
