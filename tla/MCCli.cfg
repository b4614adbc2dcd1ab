SPECIFICATION FairSpec
CONSTANTS
  NULL = NULL
  Client = {"c1", "c2"}
  EarlyCommands <- MCEarlyCommands
  MainCommands <- MCMainCommands
  CliCommands <- MCCliCommands
  Line <- MCLine
  MaxFd = 2
  MaxLines = 2
INVARIANTS
  RightHandler
  OwnThread
PROPERTIES
  LinesRead
CHECK_DEADLOCK FALSE
