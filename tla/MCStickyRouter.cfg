SPECIFICATION Spec
SYMMETRY Symmetry
CHECK_DEADLOCK FALSE
CONSTANTS
  None = None
  root = root
  child = child
  sibling = sibling
  helper = helper
  other = other
  w1 = w1
  w2 = w2
  w3 = w3
  Workers <- ThreeWorkers
  Parent <- MCParent
  Spawned <- MCSpawned
  MaxTurns <- MCTurns
  Sessions <- MCFamilies
  Faults <- Crashes
INVARIANTS TablesAgree EntryHasUse
PROPERTIES SessionsStayHome
