SPECIFICATION Spec
CONSTANTS
  Client = {c1, c2}
  Id = {i1}
  Pid = {p1, p2, p3}
  MaxCommands = 2
PROPERTY KillTerminates
CHECK_DEADLOCK FALSE
