SPECIFICATION FairFromA
CONSTANTS
  a = a
  b = b
  i = i
  n = n
  x = x
  Spaces = {n}
  Pods = {a, b}
  SpaceOf <- OneSpace
  NameOf <- OneName
  Images = {i, j}
  ImagesOf <- OwnImage
  Syncs = {p1, p2}
  Ids = {1, 2, 3, 4}
  MaxChanges = 1
  MaxFaults = 1
CHECK_DEADLOCK FALSE
INVARIANTS PodTypeOK SuccessMirrorsThePods
PROPERTIES PodsConverge SpacesConverge
