\* A reanalysis beside two planning requests and a review.
CONSTANTS
  Targets = {}
  NoTarget = NoTarget
  Requests = {r1}
  Reanalyses = {r1}
  Earlier = earlier
  None = None
  Schemas = {v1}
  MaxFixAttempts = 0
  MaxExpiries = 0
  MaxCrashes = 1
  Planners = {c1, c2}
  Reviews = {d1}
  PlanFixAttempts = 0

SPECIFICATION BackendFairSpec
CHECK_DEADLOCK FALSE

INVARIANTS
  WorkflowsComeToRest
  PlansSound

PROPERTIES
  WorkflowsSettle
