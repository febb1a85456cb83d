SPECIFICATION SpecLoops
CONSTANTS
  Workers = {w1, w2, w3}
  ReservedSenders = {}
  Clients = {c1, c2}
  Services = {s1, s2}
  MMI = {}
  Offered = {s1}
  NoService = none
  Commands = {k1}
  INTERVAL = 1
  LIVENESS = 1
  MaxRequests = 4
  ForeignPeers = TRUE
INVARIANTS LoopsComputeDispatch
CHECK_DEADLOCK FALSE
