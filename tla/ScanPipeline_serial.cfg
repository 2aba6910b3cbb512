SPECIFICATION FairSpec
CONSTANTS
  Policies = {p1, p2}
  Trawlers = {t1}
  Hashes = {h1, h2}
  NoHash = NoHash
  TmpHash = TmpHash
  Absent = Absent
  Idle = Idle
  MaxImages = 3
  MaxJobs = 2
  PolicyChanges = FALSE
  SlowClient = FALSE
  Faults = FALSE
CHECK_DEADLOCK FALSE
INVARIANTS LatestIsUnique
PROPERTIES HashIsKept JobsAreSaved
