CONSTANTS
  dir = dir
  s = s
  r = r
  t = t
  u = u
  Source <- MCSource
  Target <- MCTarget
  Node = {dir}
  Canon <- MCAliases
  Direct = {"Mount", "Bind", "Unmount"}
  MaxCalls = 2
  MaxCommands = 1
SPECIFICATION Spec
SYMMETRY MCSymmetry
INVARIANTS
  TypeOK
  QuietFileIsState
  AttachedIsListed
CHECK_DEADLOCK FALSE
