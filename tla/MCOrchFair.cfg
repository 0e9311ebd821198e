SPECIFICATION FairSpec
CONSTANTS
  MaxFinals = 2
  MaxPartials = 1
  MaxTools = 0
  Chunks = 1
  MayFail = {"tts"}
INVARIANT GreetingSavedUnlessCut
PROPERTIES
  SessionEnds
  FinalAnswered
  PlaybackEnds
CHECK_DEADLOCK FALSE
