SPECIFICATION FairSpec
CONSTANTS
  MaxFinals = 1
  MaxPartials = 0
  MaxTools = 0
  Chunks = 1
  MayFail = {}
PROPERTY EveryFinalPersisted
CHECK_DEADLOCK FALSE
