SPECIFICATION LiveSpec
CONSTANTS
  Clients = {c1}
  Engines = {e1}
  Stores = {s1}
  Nobody = nobody
  NoCall = none
  Leftover = 0
  MaxFaults = 1
  MaxStarts = 0
PROPERTY ResultsReturned
CHECK_DEADLOCK FALSE
