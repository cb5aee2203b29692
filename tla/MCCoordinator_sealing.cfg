SPECIFICATION Spec
CONSTANTS
  pv = pv
  soc = soc
  Entity = {pv}
  Bucket <- MCBucket
  StatesOf <- NumericStates
  Attr <- NoAttrs
  Threshold = 2
  MaxRowsPerEntity = 2
  ChunkSize = 1
  Messages <- MCModes
  ClockMayStepBack = TRUE
  MaxMinute = 2
  MaxSamples = 1
  MaxPending = 2
  MaxReloads = 1
INVARIANTS TypeOK NoDoubleShip SealedStaysSealed
PROPERTIES ChronologicalRows
