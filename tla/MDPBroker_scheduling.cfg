SPECIFICATION Spec
CONSTANTS
  Workers = {w1, w2, w3}
  ReservedSenders = {}
  Clients = {c1, c2}
  Services = {s1, s2}
  MMI = {}
  Offered = {s1, s2}
  NoService = none
  Commands = {k1}
  INTERVAL = 1
  LIVENESS = 3
  MaxRequests = 3
  ForeignPeers = FALSE
SYMMETRY Symmetry
INVARIANTS NoStrandedRequest OldestFirst KnownHaveService
PROPERTIES RoundRobin KeepsPromise
