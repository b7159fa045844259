CONSTANTS
  TrayIcon = FALSE
  ConsoleEvents = TRUE
  KillOnTimeout = FALSE
  MaxInputs = 2
SPECIFICATION Spec
INVARIANT SummaryNotCutShort
