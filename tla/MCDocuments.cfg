SPECIFICATION DocFairSpec
CONSTANTS
  None = None
  c1 = c1
  c2 = c2
  c3 = c3
  a = a
  b = b
  id = id
  Callers = {c1, c2, c3}
  Names = {a, b}
  GivenIds = {id}
  Programs <- MCPrograms
  MaxFaults = 2
INVARIANTS
  SingleFlight
  NoLostCaller
  ReplayedOnlyByClose
  CreatedByInserts
PROPERTIES
  ResumedUnlessErrored
  EventuallyTold
CHECK_DEADLOCK FALSE
