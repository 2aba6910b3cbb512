SPECIFICATION FairImageSpec
CONSTANTS
  Hash = Hash
  Images = {i1}
  HashOf <- OneHash
  Up <- InitEnded
  Spaces = {n}
  Syncs = {p1, p2}
  Ids = {1, 2, 3, 4}
  MaxChanges = 2
  MaxFaults = 1
CHECK_DEADLOCK FALSE
INVARIANTS ImageTypeOK SuccessMirrorsTheCluster FewRowsPerImage
PROPERTIES TablesAreMended
