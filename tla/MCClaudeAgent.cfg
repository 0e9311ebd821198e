SPECIFICATION ToolSpec
CONSTANTS
  MaxMessages = 7
  MaxUses = 2
  Dates = {4, 18, 19}
  Durations = {120, 121, 541}
INVARIANTS
  TypeOK
  RolesAlternate
  EveryUseAnswered
  TurnRecordsItsTools
  OffersMatchCalendar
  SentAgreesWithRecords
CHECK_DEADLOCK FALSE
