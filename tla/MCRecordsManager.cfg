SPECIFICATION FairSpec
CHECK_DEADLOCK FALSE
CONSTANTS
  None = None
  NumPhases = 2
  MaxRequests = 2
  MaxLag = 2
  GraceFloor = 1
  MaxFailed = 50
  Runs <- MCRuns
INVARIANTS CompleteMeansAll
PROPERTIES OneResult ResultArrives CompleteIfUndisturbed
