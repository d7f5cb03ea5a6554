SPECIFICATION Spec
CONSTANTS
  Client = {c1, c2}
  Id = {i1, i2}
  Pid = {p1, p2, p3}
  MaxCommands = 3
INVARIANTS TypeOK EmptyOnlyWhileWritten
PROPERTIES RegisteredUntilReplaced PurgeClearsOrphans
CHECK_DEADLOCK FALSE
