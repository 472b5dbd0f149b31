SPECIFICATION Spec
CONSTANTS
  e1 = e1
  e2 = e2
  h1 = h1
  Events = {e1, e2}
  Hosts = {h1}
  Unparseable = {}
  Codes = {200}
  MaxCrashes = 0
  MaxCloses = 1
  MaxErrors = 0
  MaxChannels = 1
  MaxTag = 2
INVARIANTS
  AckedIsDone
CHECK_DEADLOCK FALSE
