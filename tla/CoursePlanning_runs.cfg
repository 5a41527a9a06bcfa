\* Planning runs, reviews and crashes, without changes of the Moodle target.
CONSTANTS
  Targets = {t1}
  NoTarget = NoTarget
  Workflows = {w1}
  Planners = {p1, p2, p3}
  Reviews = {r1, r2}
  Updates = {}
  MaxFixAttempts = 1
  MaxCrashes = 1

SPECIFICATION Spec
SYMMETRY Symmetry
CHECK_DEADLOCK FALSE

INVARIANTS
  TypeOK
  PlanningExclusive
  HeldMeansRunning
  CopyCurrent
  RunningMeansHeld
  WaitingMeansDone
