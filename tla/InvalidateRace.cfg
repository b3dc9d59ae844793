SPECIFICATION Spec
CONSTANTS
  LastEdge = 2
  Threads = {t1, t2}
  MaxCalls = 4
INVARIANTS
  ListedAreMarked
