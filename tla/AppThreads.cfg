CONSTANTS
  TrayIcon = TRUE
  ConsoleEvents = TRUE
  KillOnTimeout = TRUE
  MaxInputs = 2
SPECIFICATION FairSpec
INVARIANTS AnswersInOrder ShutdownOnce ExitAfterShutdown
PROPERTIES EveryInputAnswered MenuEndsProcess
