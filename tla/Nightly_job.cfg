SPECIFICATION FairSpec
CONSTANTS
  Clusters = {c1}
  Images = {i, j}
  Home <- MCHome
  Policies = {p1}
  MaxGrace = 2
  Pods = {a, b}
  Spaces = {n}
  Space <- MCSpace
  MaxChanges = 1
  MaxFaults = 2
INVARIANTS VerdictsAgree
PROPERTIES RescansGoOn
