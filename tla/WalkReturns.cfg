CONSTANTS
  Thread = {t1}
  Fid = {1}
  Name <- MCName
  HostName <- MCHostName
  MaxSize = 1
  MaxTaken = 1
  MaxCalls = 2
SPECIFICATION Spec
PROPERTY WalkReturns
CHECK_DEADLOCK FALSE
