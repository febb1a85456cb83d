SPECIFICATION LiveSpec
CONSTANTS
  Clients = {c1}
  Engines = {e1, e2}
  Stores = {s1, s2}
  Nobody = nobody
  NoCall = none
  Leftover = 1
  MaxFaults = 2
  MaxStarts = 1
INVARIANTS TypeOK AnswersInStep RepliesInStep
PROPERTIES ReportsAreTrue OrderIsKept ClientsFinish CallsEnd
CHECK_DEADLOCK FALSE
