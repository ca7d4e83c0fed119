SPECIFICATION FairSpec
CONSTANTS
  Names = {a}
  MaxObservers = 1
  MaxChanges = 2
PROPERTIES
  LastValueArrives
