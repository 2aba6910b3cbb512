SPECIFICATION FairSpec
CONSTANTS
  Clusters = {c1}
  Templates = {t1}
  n1 = n1
  n2 = n2
  Namespaces <- MCNamespaces
  Known <- MCKnown
  Patterns = {AnyImage, NoPattern}
  NoPattern = NoPattern
  AnyImage = AnyImage
  Everyone = Everyone
  Names = {k1}
  Syncs = {p1, p2}
  Ids = {1}
  Written <- MCWritten
  MaxEdits = 3
  MaxFaults = 1
CHECK_DEADLOCK FALSE
PROPERTIES ConstraintsGoFirst TemplatesFollowExceptions
