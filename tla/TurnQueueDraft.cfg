SPECIFICATION Spec
CONSTANTS
  Threads = {d, c}
  Listed = {}
  Drafts = {d}
  Msgs = {m1, m2}
  WithFiles = {m1}
  MaxQueued = 2
  MaxTurn = 2
  MaxEdits = 1
  MaxAsks = 1
  Faults = {"startError", "remove"}
  NoThread = NoThread
  NoMsg = NoMsg
INVARIANTS
  LiveQueuesArePolled
PROPERTY
  KeepsThePromise
CHECK_DEADLOCK FALSE
