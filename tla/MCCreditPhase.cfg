SPECIFICATION FairSpec
CHECK_DEADLOCK FALSE
CONSTANTS
  None = None
  Plans <- MCPlans
  SessionSlots = 2
  PrefillSlots = 1
  MaxTurns = 2
  MaxSessions = 4
INVARIANTS BooksMatchWork
PROPERTIES CompletesDrained KeepsContract PhaseCompletes
