CONSTANTS
  Limit = 8
  BaseSize = 1
  TagSize = 1
  StyleCap = 1
  Sizes = {1, 2}
  MaxDays = 2
  MaxMemories = 1
  MaxCalls = 1
SPECIFICATION Spec
CHECK_DEADLOCK FALSE
INVARIANT LatestDaysKept
