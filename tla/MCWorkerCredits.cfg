SPECIFICATION FairSpec
CHECK_DEADLOCK FALSE
CONSTANTS
  c1 = c1
  c2 = c2
  c3 = c3
  Credits <- MCCredits
  MaxRetries = 1
  MaxOutages = 1
INVARIANTS ReturnedOnce CompletedHasRecord FirstTokenComesFirst
PROPERTIES EveryCreditReturns
