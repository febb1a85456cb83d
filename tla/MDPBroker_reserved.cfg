SPECIFICATION Spec
CONSTANTS
  Workers = {w1}
  ReservedSenders = {}
  Clients = {c1}
  Services = {s1}
  MMI = {"mmi.service"}
  Offered = {s1, "mmi.service"}
  NoService = none
  Commands = {k1}
  INTERVAL = 1
  LIVENESS = 3
  MaxRequests = 1
  ForeignPeers = FALSE
INVARIANTS ReservedNamesRefused
