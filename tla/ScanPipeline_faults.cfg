SPECIFICATION FairSpec
CONSTANTS
  Policies = {p1}
  Trawlers = {t1}
  Hashes = {h1}
  NoHash = NoHash
  TmpHash = TmpHash
  Absent = Absent
  Idle = Idle
  MaxImages = 3
  MaxJobs = 2
  PolicyChanges = TRUE
  SlowClient = TRUE
  Faults = TRUE
CHECK_DEADLOCK FALSE
INVARIANTS OneDelivery QueuedIsOwed VerdictHasRows SomeRowIsLatest
PROPERTIES ImplementsScanJobs JobsEnd
