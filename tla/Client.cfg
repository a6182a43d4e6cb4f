SPECIFICATION Spec
CONSTANTS
  Keys = {k1, k2}
  MaxCalls = 5
  MaxKept = 1
  Uploads = {u1, u2}
  MaxFiles = 1
  MaxChunks = 2
  MaxBytes = 2
  MaxAsked = 3
  MaxStarts = 2
  Models = {m1, m2}
  Speeds = {slow, fast}
  MaxCallers = 2
  NoCopy = none
  Unreadable = unreadable
  MaxOutside = 2
  Setters = {s1, s2}
  Renamers = {r1, r2}
  MaxNames = 2
  MaxRecords = 4
  Block = 1
  Limits = {1, 2}
  MaxReads = 2
  MaxTurns = 2
  MaxUsers = 2
  MaxText = 2
  MaxPrimes = 2
  Contents <- Followed
  MaxOps = 2
  Tasks = {t1, t2}
  NewTask = new
  Inputs <- Requested
  MaxUpdates = 1
  Listed = {l1}
  Fresh = made
  Canonical = canonical
  Nothing = nothing
  Texts = {"hi"}
  MaxGrowth = 1
  MaxSends = 2
  MaxEvents = 3
INVARIANTS
  TypeOK
  
  
  ReadsTheTail
  
  
  
CHECK_DEADLOCK FALSE
