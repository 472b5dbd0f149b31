SPECIFICATION Spec
CONSTANTS
  e1 = e1
  e2 = e2
  h1 = h1
  h2 = h2
  Events = {e1, e2}
  Hosts = {h1, h2}
  Unparseable = {e2}
  Codes = {200}
  MaxCrashes = 1
  MaxCloses = 0
  MaxErrors = 1
  MaxChannels = 1
  MaxTag = 3
SYMMETRY Symmetry
INVARIANTS
  AckedIsDone
  ParkedByErrors
  
  
CHECK_DEADLOCK FALSE
