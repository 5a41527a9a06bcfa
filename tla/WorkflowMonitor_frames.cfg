SPECIFICATION MonitorSpec
CONSTANTS
  None = None
  Targets = {}
  NoTarget = NoTarget
  Kinds <- AnalysisAndPlanning
  MaxAttempts = 2
  QueueSize = 2
  MaxRuns = 1
  MaxFaults = 1
  MaxDelay = 1
INVARIANTS HistoryTells RestIsTold
PROPERTIES NeverBackwards
CHECK_DEADLOCK FALSE
