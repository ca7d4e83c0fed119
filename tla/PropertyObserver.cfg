SPECIFICATION FairSpec
CONSTANTS
  Names = {a}
  MaxObservers = 2
  MaxChanges = 2
INVARIANTS
  UpdatesCounted
  MasksFresh
PROPERTIES
  ChangesArrive
