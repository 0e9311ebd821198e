SPECIFICATION FairSpec
CONSTANTS
  Texts = {partial, final}
  QueueBound = 3
INVARIANTS
  NothingLeftBehind
PROPERTIES
  OneMoreAfterClose
  TranscriptsEnd
CHECK_DEADLOCK FALSE
