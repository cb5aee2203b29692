SPECIFICATION ConnSpec
CONSTANTS
  t1 = t1
  t2 = t2
  Tasks = {t1, t2}
  Objects = 3
  Attempts = 2
  MaxExchanges = 2
  MaxPosted = 1
INVARIANTS ConnTypeOK CurrentIsLive RefreshGetsNewCredentials
PROPERTIES OnlyTeardownHangs
