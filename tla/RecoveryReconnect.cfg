SPECIFICATION Spec
CONSTANTS
  Msgs = {m1, m2}
  MaxServers = 1
  MaxLinks = 2
  MaxBacklog = 2
  Faults = {"snapshots", "live"}
  NoMsg = NoMsg
INVARIANT
  ExecutedOnce
CHECK_DEADLOCK FALSE
