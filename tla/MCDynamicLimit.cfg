SPECIFICATION LimitFairSpec
CONSTANTS
  t1 = t1
  t2 = t2
  t3 = t3
  t4 = t4
  Callers <- MCTasks
  MaxLimit = 3
INVARIANTS SlotConservation NoLostWakeUp
PROPERTIES NoBarging WaitersServed
