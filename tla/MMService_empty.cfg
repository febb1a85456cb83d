SPECIFICATION Spec
CONSTANTS
  Clients = {c1, c2}
  Engines = {e1}
  Stores = {s1}
  Nobody = nobody
  NoCall = none
  Leftover = 0
  MaxFaults = 0
  MaxStarts = 0
SYMMETRY Alike
INVARIANT ReportsHaveFrames
CHECK_DEADLOCK FALSE
