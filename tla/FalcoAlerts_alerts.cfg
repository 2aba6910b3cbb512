SPECIFICATION FairSpec
CONSTANTS
  Clusters = {c1, c2}
  Signatures = {s1}
  Home <- MCHome
  Recipients = {r1, r2}
  Handlers = {h1, h2}
  RuleIds = {1, 2}
  MaxEdits = 2
  Frequency = 1
  CacheTTL = 1
  Kept = {1}
  MaxFaults = 1
INVARIANTS FirstRuleHolds
PROPERTIES RulesTakeEffect EveryRecipientHears
