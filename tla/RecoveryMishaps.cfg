SPECIFICATION Spec
CONSTANTS
  Msgs = {m1, m2}
  MaxServers = 2
  MaxLinks = 1
  MaxBacklog = 1
  Faults = {"startError", "crash", "overlap", "snapshots", "early", "live", "linkLoss"}
  NoMsg = NoMsg
INVARIANT
  TypeOK
PROPERTIES
  
  DurableStays
CHECK_DEADLOCK FALSE
