CONSTANTS
  Thread = {t1, t2}
  Fid = {1}
  Name <- MCName
  HostName <- MCHostName
  MaxSize = 1
  MaxTaken = 1
  MaxCalls = 4
SPECIFICATION Spec
INVARIANTS
  TypeOK
  NoPanicAtNumbering
  NoWaitCycle
PROPERTIES
  InodesNeverReused
  OperationsReturn
CHECK_DEADLOCK FALSE
