SPECIFICATION Spec
CONSTANTS
  Msgs = {m1, m2}
  MaxServers = 3
  MaxLinks = 1
  MaxBacklog = 2
  Faults = {"snapshots"}
  NoMsg = NoMsg
INVARIANT
  ExecutedOnce
CHECK_DEADLOCK FALSE
