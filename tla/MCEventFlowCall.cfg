SPECIFICATION FairSpec
CONSTANTS
  e1 = e1
  h1 = h1
  Events = {e1}
  Hosts = {h1}
  Unparseable = {}
  Codes = {200, 400}
  MaxCrashes = 1
  MaxCloses = 1
  MaxErrors = 1
  MaxChannels = 3
  MaxTag = 3
INVARIANTS
  
  ExecutedUnlessClosed
PROPERTIES
  
  EventuallyAnswered
CHECK_DEADLOCK FALSE
