SPECIFICATION Spec
CONSTANTS
  Workers = {w1}
  ReservedSenders = {}
  Clients = {c1}
  Services = {s1}
  MMI = {"mmi.filter"}
  Offered = {s1}
  NoService = none
  Commands = {k1}
  INTERVAL = 1
  LIVENESS = 3
  MaxRequests = 1
  ForeignPeers = FALSE
INVARIANTS NeverAborted
