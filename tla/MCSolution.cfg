SPECIFICATION FairSpec
CONSTANTS
  e1 = e1
  e2 = e2
  None = None
  Errors = {e1, e2}
  MaxReuses = 1
  MaxLen = 4
  Programs <- AllPrograms
INVARIANTS
  Conserved
  
PROPERTIES
  
  EventuallyCalledBack
CHECK_DEADLOCK FALSE
