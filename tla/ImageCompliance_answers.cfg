CONSTANTS
  Policies = {"base", "extra"}
  Scanners = {"trivy", "lint", "kics"}
  Owner <- SmallOwner
  Issues <- SmallIssues
  Exceptions <- SmallExceptions
  Limit <- SmallLimit
  All = "any"
SPECIFICATION RuleSpec
INVARIANTS MapNeverMoreLenient
PROPERTIES ExceptionsNeverHurt LooseningNeverBlocks
