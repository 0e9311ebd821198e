SPECIFICATION FairSpec
CONSTANTS
  Sockets = {k1, k2}
  Sids = {s1, s2}
  NoSid = NoSid
  MaxCalls = 2
  MaxRows = 1
  MaxBoots = 2
  MaxFaults = 1
INVARIANTS
  TranscriptHasOneAuthor
  EndedEarlyOnlyByNamesake
  OpenOnlyWhileServed
  EndedAnswerIsComplete
PROPERTY LeavingEndsTheSession
CHECK_DEADLOCK FALSE
