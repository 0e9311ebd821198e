SPECIFICATION Spec
CONSTANTS
  MaxFinals = 2
  MaxPartials = 1
  MaxTools = 1
  Chunks = 1
  MayFail = {"stt", "db", "llm", "tts"}
INVARIANTS
  TypeOK
  TurnsInOrder
  SpokenIsSaved
  NothingOutlivesStop
  OneVoice
PROPERTIES
  NothingStartsAfterStop
  RowsBelongToTheCall
  NoTalkOver
  SilentOnceCancelled
  ImplementsStream
  ImplementsPlayback
  ImplementsCallLife
CHECK_DEADLOCK FALSE
