SPECIFICATION Spec
CONSTANTS
  r1 = r1
  r2 = r2
  h1 = h1
  b1 = b1
  Humans = {h1}
  Robots = {b1}
  Requests = {r1, r2}
  MaxRuns = 2
  MaxRemovals = 1
SYMMETRY Symmetry
INVARIANTS
  UniqueOnceIndexed
  GivenOnlyVerified
  
  AnsweredGiven
CHECK_DEADLOCK FALSE
