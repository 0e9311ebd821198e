SPECIFICATION Spec
CONSTANTS
  MaxFinals = 1
  MaxPartials = 1
  MaxTools = 1
  Chunks = 1
  MayFail = {}
PROPERTY SpeakingAgainStopsTheTurn
CHECK_DEADLOCK FALSE
