SPECIFICATION PlanSpec
CONSTANTS
  Spec <- MCSpec
  NameOf <- MCName
  Arity <- MCArity
  Calls <- MCCalls
  Unit <- MCUnit
INVARIANTS ComponentsExact CalleesFirst StackSound ClosureExact
PROPERTY PlanEnds
CHECK_DEADLOCK FALSE
