SPECIFICATION ToolSpec
CONSTANTS
  MaxMessages = 3
  MaxUses = 1
  Dates = {4, 17, 18, 19}
  Durations = {120}
INVARIANT WindowWithinFourteenDays
CHECK_DEADLOCK FALSE
