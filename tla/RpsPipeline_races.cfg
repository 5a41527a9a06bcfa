\* A processing and two reanalyses of one document, and a lease that runs out.
CONSTANTS
  Targets = {}
  NoTarget = NoTarget
  Requests = {p1, r1, r2}
  Reanalyses = {r1, r2}
  Earlier = earlier
  None = None
  Schemas = {v1}
  MaxFixAttempts = 0
  MaxExpiries = 1
  MaxCrashes = 0

SPECIFICATION Spec
SYMMETRY Symmetry
CHECK_DEADLOCK FALSE

INVARIANTS
  ResultsMatchStatus
  RestingMeansDone
  MarkedMeansServed
