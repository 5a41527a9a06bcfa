\* Two processings for two schema versions, and a crash; fair requests.
CONSTANTS
  Targets = {}
  NoTarget = NoTarget
  Requests = {p1, p2}
  Reanalyses = {}
  Earlier = earlier
  None = None
  Schemas = {v1, v2}
  MaxFixAttempts = 1
  MaxExpiries = 0
  MaxCrashes = 1

SPECIFICATION FairSpec
CHECK_DEADLOCK FALSE

INVARIANTS
  TypeOK
  ResultsMatchStatus
PROPERTIES
  DocumentSettles
