SPECIFICATION Spec
CONSTANTS
  Callers = {"window", "relay"}
  Relay = "relay"
  Ids = {1, 2, 3}
  MaxOps = 3
  Workers = {w1, w2}
  Versions = {1, 2}
  Current = 1
  Blocks = 2
  Inodes = {1, 2, 3}
  MaxChecks = 3
  Requests = {r1, r2, r3}
  MaxChildren = 3
  MaxFaults = 2
  Clients = {q1, q2}
  MaxSockets = 3
  MaxAsked = 4
INVARIANTS
  TypeOK
  SettledAsShown
  StrayOnlyWhenCrossed
  HubToldTheState
  OfferedFileIsWhole
  PhaseHasItsWorker
  OneChildServes
  ConnectionIsOwned
PROPERTIES
  LateFailureSparesNewer
  
  RequestsAreAnswered
CHECK_DEADLOCK FALSE
