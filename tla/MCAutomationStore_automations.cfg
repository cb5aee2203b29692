SPECIFICATION StoreSpec
CONSTANTS
  lamp = lamp
  pump = pump
  c1 = c1
  c2 = c2
  k1 = k1
  t1 = t1
  t2 = t2
  Id = {lamp}
  Config = {c1, c2}
  Token = {k1}
  Tasks = {t1, t2}
  Debounce = 1
  SuppressWindow = 2
  MaxCommands = 2
  MaxEdits = 2
  MaxReloads = 1
INVARIANTS StoreTypeOK CardIsTrue
PROPERTIES OnlyWritesUseTokens
CHECK_DEADLOCK FALSE
