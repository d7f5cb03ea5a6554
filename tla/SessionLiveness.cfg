CONSTANTS
  dir = dir
  s = s
  r = r
  t = t
  u = u
  Source = {s}
  Target = {t}
  Node = {dir}
  Canon <- MCAliases
  Direct = {"Mount", "Bind", "Unmount"}
  MaxCalls = 1
  MaxCommands = 1
SPECIFICATION Spec
PROPERTIES
  FileConverges
  ShutdownStopsHandler
CHECK_DEADLOCK FALSE
