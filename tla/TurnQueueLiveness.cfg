SPECIFICATION FairSpec
CONSTANTS
  Threads = {d, c}
  Listed = {}
  Drafts = {d}
  Msgs = {m1, m2}
  WithFiles = {m1}
  MaxQueued = 2
  MaxTurn = 2
  MaxEdits = 0
  MaxAsks = 0
  Faults = {"startError", "noteLoss"}
  NoThread = NoThread
  NoMsg = NoMsg
PROPERTIES
  QueuedIsServed
  TurnEndIsNoticed
CHECK_DEADLOCK FALSE
