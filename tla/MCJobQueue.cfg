SPECIFICATION FairSpec
CONSTANTS
  Jobs = {j1, j2, j3}
  MaxAttempts = 2
  MaxCrashes = 1
  Requests = {r1, r2}
  None = None
CHECK_DEADLOCK FALSE
INVARIANTS
  ToldFailureIsRecorded
  RetriedOnce
PROPERTIES
  JobConcludes
