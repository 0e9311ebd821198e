SPECIFICATION FairSpec
CONSTANTS
  MaxFinals = 2
  MaxPartials = 0
  MaxTools = 0
  Chunks = 1
  MayFail = {"llm"}
PROPERTY NextFinalDrivesATurn
CHECK_DEADLOCK FALSE
