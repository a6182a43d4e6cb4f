SPECIFICATION Spec
CONSTANTS
  Instances = {i1, i2}
  Conns = {1, 2, 3}
  Browsers = {b1}
  MaxMessages = 2
  MaxEvents = 5
  Users = {u1, u2}
  Devices = {d1, d2}
  Secrets = {s1, s2}
  Transactions = {t1, t2}
  MaxDevices = 1
  MaxRequests = 5
SYMMETRY Interchangeable
INVARIANTS
  TypeOK
  StreamsArePrefixes
  BrowserHasItsLocal
  HubShowsTheInstance
  OneInstanceStays
  RevokedIsCutOff
  StoreKeepsItsRules
CHECK_DEADLOCK FALSE
