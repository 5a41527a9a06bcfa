\* The versions, with a change of the Moodle target that breaks the claim.
CONSTANTS
  Targets = {t1}
  NoTarget = NoTarget
  Workflows = {w1}
  Planners = {p1, p2}
  Reviews = {r1, r2}
  Updates = {u1}
  MaxFixAttempts = 0
  MaxCrashes = 0

SPECIFICATION Spec
SYMMETRY Symmetry
CHECK_DEADLOCK FALSE

INVARIANTS
  VersionsNumbered
  OneApproved
  OnlyPassedApproved

PROPERTY
  HistoryKept
