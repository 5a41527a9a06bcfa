SPECIFICATION ContentSpec
CONSTANTS
  Consoles = {c1, c2}
  lecture1 = lecture1
  lecture2 = lecture2
  exam = exam
  Weeks <- ThreeWeeks
  Regular <- Lectures
  MaxFixAttempts = 1
  Concurrency = 1
  None = None
  MaxTexts = 2
  MaxFailures = 1
INVARIANTS ApprovedAfterReview ReportsAreSaved
CHECK_DEADLOCK FALSE
SYMMETRY Symmetry
