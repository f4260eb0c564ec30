\* Shared children, two consumers, errors anywhere but in a handler that a pull runs.
SPECIFICATION FairSpec
CONSTANTS
  a = a
  b = b
  m = m
  r = r
  p = p
  q = q
  Node = {a, b, m, r}
  Kids <- SharedKids
  Rank <- Height
  Root = {r, m}
  Consumer = {p, q}
  MaxErrors = 2
  CallFails = FALSE
INVARIANTS
  CommitFlat
  HeldExact
  InnerFirst
  OncePerNode
PROPERTIES
  Returns
CHECK_DEADLOCK FALSE
