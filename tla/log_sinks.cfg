SPECIFICATION SinksSpec
CONSTANTS
  MaxTaken = 3
  MaxArguments = 2
  VIEWER_BUFFER_SIZE = 2
INVARIANTS
  FileIsComplete
  WindowFollowsLog
PROPERTIES
  CrashEnds
CHECK_DEADLOCK FALSE
