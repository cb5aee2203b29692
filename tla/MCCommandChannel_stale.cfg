SPECIFICATION ChannelSpec
CONSTANTS
  a = a
  b = b
  t1 = t1
  t2 = t2
  Entity = {a, b}
  CloudModes <- MCModes
  CloudLists <- MCLists
  Tasks = {t1, t2}
  MaxCommands = 2
  MaxReloads = 0
INVARIANTS ModeConverges
CHECK_DEADLOCK FALSE
