SPECIFICATION Spec
CONSTANTS
  Sender = {s1, s2}
  Listener = {l1}
  Pieces = 2
  MaxPurges = 0
PROPERTY AcceptedCommandsRun
CHECK_DEADLOCK FALSE
