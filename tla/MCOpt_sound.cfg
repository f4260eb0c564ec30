\* Loops, folds and checks, without those the optimizer is known to change.
SPECIFICATION OptSpec
CONSTANTS
  Narrow = 4
  Word = 5
  Fuel = 10
  Functions <- Sound
  Inputs <- Pairs
  Memory <- Contents
  Elements <- Array
INVARIANTS
  SameMeaning
  TrapsKept
  InsideArray
CHECK_DEADLOCK FALSE
