SPECIFICATION ShippingSpec
CONSTANTS
  a = a
  b = b
  batch = batch
  recovery = recovery
  beat = beat
  command = command
  Entity = {a, b}
  Messages <- MCMessages
  MaxGateChanges = 2
  Senders = {batch, recovery}
  BatchLoop = batch
  Heartbeats = {beat, command}
  HeartbeatLoop = beat
  MaxQueueDepth = 2
  MayRaise = TRUE
  MaxBatches = 3
  MaxChunks = 2
INVARIANTS ShippingTypeOK OnlyConfirmedLeaves QueueAscends Accounted
