SPECIFICATION FairSpec
CONSTANTS
  Handlers = {h1, h2, h3, h4, h5}
  MaxCalls = 3
INVARIANTS
  TypeOK
  PermitsConserved
  CapRespected
  NoLostWakeup
PROPERTIES
  WaiterServed
  ImplementsCallSlots
