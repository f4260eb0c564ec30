\* Every production, with one token wrong, and the operators of every level.
SPECIFICATION ParseSpec
CONSTANT Sources <- MCSources
INVARIANTS
  AcceptsGrammar
  TreesGroup
CHECK_DEADLOCK FALSE
