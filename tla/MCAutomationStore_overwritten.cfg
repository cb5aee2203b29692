SPECIFICATION StoreSpec
CONSTANTS
  lamp = lamp
  pump = pump
  c1 = c1
  c2 = c2
  k1 = k1
  t1 = t1
  t2 = t2
  Id = {lamp, pump}
  Config = {c1}
  Token = {k1}
  Tasks = {t1, t2}
  Debounce = 1
  SuppressWindow = 2
  MaxCommands = 2
  MaxEdits = 1
  MaxReloads = 0
PROPERTIES OnlyItsEntry
CHECK_DEADLOCK FALSE
