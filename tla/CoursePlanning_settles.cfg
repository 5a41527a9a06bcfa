\* Every planning run comes to its end, and the planning keeps its promise.
CONSTANTS
  Targets = {t1}
  NoTarget = NoTarget
  Workflows = {w1}
  Planners = {p1, p2}
  Reviews = {r1, r2}
  Updates = {}
  MaxFixAttempts = 1
  MaxCrashes = 1

SPECIFICATION FairSpec
CHECK_DEADLOCK FALSE

PROPERTIES
  PlanningSettles
  ImplementsLedger
