SPECIFICATION CloudSpec
CONSTANTS
  soc = soc
  fault = fault
  Entity = {soc, fault}
  Bucket <- MCBucket
  StatesOf <- MCStates
  Attr <- Words
  Threshold = 2
  MaxRowsPerEntity = 1
  ChunkSize = 1
  Messages <- MCActivate
  ClockMayStepBack = FALSE
  MaxMinute = 2
  MaxSamples = 1
  MaxPending = 2
  MaxReloads = 1
INVARIANTS CloudTypeOK HoldLastTracks RecoverySurfaces TransitionsConverge
CONSTRAINTS OneReports NothingLost
