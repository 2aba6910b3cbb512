SPECIFICATION FairSpec
CONSTANTS
  Refs = {"app"}
  Digests = {d1, d2}
  NoHash = NoHash
  TmpHash = TmpHash
  Requests = {e1, e2}
  PodSpecs <- OnePods
  DefaultAllow = FALSE
  Changes = {"tags", "api", "sync"}
  MaxAdded = 2
  Faults = FALSE
CHECK_DEADLOCK FALSE
PROPERTIES FirstScanComes ReadyPodsGetIn
