SPECIFICATION Spec
CONSTANTS
  c1 = c1
  c2 = c2
  Callers = {c1, c2}
  MaxFaults = 1
SYMMETRY Symmetry
PROPERTY ResumedWithEstablished
CHECK_DEADLOCK FALSE
