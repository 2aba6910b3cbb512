SPECIFICATION FairSpec
CONSTANTS
  Cves = {c1, c2}
  Scopes = {n1, Everywhere}
  Everywhere = Everywhere
  Evaluators = {e1}
  Grace = 1
  MaxDay = 2
  MaxRows = 2
  AdminExtends = TRUE
  AdminDeletes = TRUE
  Faults = TRUE
CHECK_DEADLOCK FALSE
INVARIANTS GraceOnce ExcusedIsStored GraceEnds
PROPERTIES OnlyExpiredGoInactive ExpiredGoInactive
