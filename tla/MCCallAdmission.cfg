SPECIFICATION FairSpec
CONSTANTS
  Callers = {p1, p2, p3}
  Browsers = {b1}
  MaxCalls = 2
INVARIANT QuietMeansEmpty
PROPERTIES
  ImplementsGate
  TurnedAwayOnlyWhenFull
  GhostsLeave
