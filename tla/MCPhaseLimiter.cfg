SPECIFICATION Spec
SYMMETRY Symmetry
CHECK_DEADLOCK FALSE
CONSTANTS
  a = a
  b = b
  c = c
  d = d
  Tasks <- MCTasks
  NumPhases = 3
  Unlimited = Unlimited
  Setups <- MCSetups
INVARIANTS Conservation PhaseLimitIsHard NoSlotMadeUp
