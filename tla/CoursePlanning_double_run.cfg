\* A change of the Moodle target lets a second run in.
CONSTANTS
  Targets = {t1}
  NoTarget = NoTarget
  Workflows = {w1}
  Planners = {p1, p2}
  Reviews = {r1}
  Updates = {u1}
  MaxFixAttempts = 0
  MaxCrashes = 0

SPECIFICATION Spec
SYMMETRY Symmetry
CHECK_DEADLOCK FALSE

INVARIANT
  PlanningExclusive
