SPECIFICATION LiveSpec
CONSTANTS
  Workers = {w1, w2, mmi_w}
  ReservedSenders = {mmi_w}
  Clients = {c1}
  Services = {s1}
  MMI = {"mmi.service", "mmi.filter"}
  Offered = {s1, "mmi.service"}
  NoService = none
  Commands = {k1}
  INTERVAL = 1
  LIVENESS = 2
  MaxRequests = 1
  ForeignPeers = TRUE
INVARIANTS TypeOK Registry SendsMatchRegistry
PROPERTIES OnlyExpiredAreDropped ExpiredAreDropped
