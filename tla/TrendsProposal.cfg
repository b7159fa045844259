CONSTANTS
  TimeoutTurns = 0
  MaxTurns = 2
  MaxLines = 2
  MaxEntries = 2
  MaxFaults = 1
SPECIFICATION EditSpec
CHECK_DEADLOCK FALSE
INVARIANTS SettledOnce ApprovedInTime Filed InOrder NextSessionKnows ApprovedIsFiled
