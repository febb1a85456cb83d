SPECIFICATION System
CONSTANTS
  Workers = {a1, a2, a3}
  ReservedSenders = {}
  Clients = {c1}
  Services = {s1}
  MMI = {}
  Offered = {s1}
  NoService = none
  Commands = {k1, k2}
  INTERVAL = 1
  LIVENESS = 3
  MaxRequests = 2
  ForeignPeers = FALSE
  Processes = {p1}
  Serves <- OneService
  Asker <- OneClient
  NoAddress = nowhere
  Idle = idle
  TIMEOUT = 1
  RECONNECT = 1
  MaxFaults = 1
  MaxLost = 2
  MaxLag = 2
INVARIANTS SystemTypeOK CallsAreNotDoubled CallsAreNotLost AnswersFitCalls
PROPERTIES ExecutedOnce WaitingIsNotPurged WorkersComeBack NoRequestStays
