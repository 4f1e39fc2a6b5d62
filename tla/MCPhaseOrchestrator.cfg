SPECIFICATION FairSpec
CHECK_DEADLOCK FALSE
CONSTANTS
  NumPhases = 3
  Plans <- MCPlans
INVARIANTS NodeFailureFailsRun ProfilerMatchesOwners
PROPERTIES KeepsContract RunEnds
