SPECIFICATION Spec
CONSTANTS
  Clusters = {c1, c2}
  n1 = n1
  n2 = n2
  k1 = k1
  k2 = k2
  Keep = Keep
  Names = {n1, n2}
  Kubes = {k1, k2}
  Bodies <- MCBodies
  Requests = {r1, r2}
  MaxRequests = 4
  MaxFaults = 1
CHECK_DEADLOCK FALSE
SYMMETRY Symmetry
INVARIANTS EnforcedHasWebhook ChangesAreKept DeletedHasNoWebhook
PROPERTIES DeletedStaysDeleted
