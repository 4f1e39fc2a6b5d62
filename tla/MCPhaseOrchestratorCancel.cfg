SPECIFICATION Spec
CHECK_DEADLOCK FALSE
CONSTANTS
  NumPhases = 3
  Plans <- MCPlans
INVARIANTS CancelIsNoFailure
