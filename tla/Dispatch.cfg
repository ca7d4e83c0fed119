CONSTANTS
  t1 = t1
  t2 = t2
  Threads = {t1, t2}
  Core = Core
  None = None
  Player = Player
  MaxDepth = 2
  MaxRequests = 2
  CallsOf <- MCCallsOf
SPECIFICATION FairSpec
INVARIANTS
  ExclusiveAccess
  StackItems
  Inductive
PROPERTIES
  CallsServed
  CoreReturns
  ImplementsCoreAccess
