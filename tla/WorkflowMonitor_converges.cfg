SPECIFICATION MonitorFairSpec
CONSTANTS
  None = None
  Targets = {}
  NoTarget = NoTarget
  Kinds <- AnalysisOnly
  MaxAttempts = 1
  QueueSize = 1
  MaxRuns = 1
  MaxFaults = 1
  MaxDelay = 2
PROPERTIES MonitorConverges
CHECK_DEADLOCK FALSE
