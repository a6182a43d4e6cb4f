SPECIFICATION Spec
CONSTANTS
  Threads = {t1}
  Listed = {t1}
  Drafts = {}
  Msgs = {m1, m2}
  WithFiles = {m1}
  MaxQueued = 2
  MaxTurn = 2
  MaxEdits = 1
  MaxAsks = 1
  Faults = {"noteLoss", "ackLoss", "staleAnswer", "steerError"}
  NoThread = NoThread
  NoMsg = NoMsg
INVARIANTS
  DispatchInv
  RetriedOnlyAfterEdit
CHECK_DEADLOCK FALSE
