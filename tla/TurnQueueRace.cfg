SPECIFICATION Spec
CONSTANTS
  Threads = {t1}
  Listed = {t1}
  Drafts = {}
  Msgs = {m1, m2}
  WithFiles = {m1}
  MaxQueued = 2
  MaxTurn = 2
  MaxEdits = 0
  MaxAsks = 0
  Faults = {"official"}
  NoThread = NoThread
  NoMsg = NoMsg
PROPERTY
  SentOnlyWhenIdle
CHECK_DEADLOCK FALSE
