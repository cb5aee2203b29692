SPECIFICATION ShippingSpec
CONSTANTS
  a = a
  b = b
  batch = batch
  recovery = recovery
  beat = beat
  command = command
  Entity = {a, b}
  Messages <- MCMessages
  MaxGateChanges = 2
  Senders = {batch}
  BatchLoop = batch
  Heartbeats = {beat}
  HeartbeatLoop = beat
  MaxQueueDepth = 2
  MayRaise = TRUE
  MaxBatches = 3
  MaxChunks = 2
INVARIANTS CloudShowsNewest
