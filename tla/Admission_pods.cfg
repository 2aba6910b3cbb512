SPECIFICATION Spec
CONSTANTS
  Refs = {"app", "proxy"}
  Digests = {d1}
  NoHash = NoHash
  TmpHash = TmpHash
  Requests = {e1}
  PodSpecs <- TwoPods
  DefaultAllow = TRUE
  Changes = {"enforcement", "exceptions", "policies", "verdicts", "api", "sync"}
  MaxAdded = 2
  Faults = TRUE
SYMMETRY Symmetry
CHECK_DEADLOCK FALSE
INVARIANTS NoContainerIsLost AdmittedIsScanned
