SPECIFICATION Spec
CONSTANTS
  Unknown = Unknown
  a = a  b = b  c = c
  Root = root  None = None
  Sessions = {root, a, b, c}
  MaxTurns = 3
  Plans <- AllTrees
CHECK_DEADLOCK FALSE
INVARIANTS DispatchedOnceInOrder NeverTooEarly NobodyWaitsInVain BooksBalance SlotCoversWork
PROPERTIES KeepsRegistry BranchWorkDrains
