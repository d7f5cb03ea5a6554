CONSTANTS
  dir = dir
  s = s
  r = r
  t = t
  u = u
  Source = {s}
  Target = {t}
  Node = {dir}
  Canon <- MCAliases
  Direct = {}
  MaxCalls = 1
  MaxCommands = 1
SPECIFICATION Spec
INVARIANT ListedMountsAreActive
CHECK_DEADLOCK FALSE
