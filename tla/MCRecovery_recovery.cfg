SPECIFICATION RecoverySpec
CONSTANTS
  w = w
  batch = batch
  rec1 = rec1
  rec2 = rec2
  loop = loop
  ack1 = ack1
  ack2 = ack2
  Windows = {w}
  MaxCommands = 2
  CommandBeat <- MCCommandBeat
  Senders = {batch, rec1, rec2}
  BatchLoop = batch
  Heartbeats = {loop, ack1, ack2}
  HeartbeatLoop = loop
  MaxQueueDepth = 2
  MayRaise = TRUE
  MaxBatches = 2
  MaxChunks = 2
INVARIANTS RecoveryTypeOK AckIsHonest InOneHand
PROPERTIES ImplementsChannel EveryWindowIsAnswered NothingDroppedBelowCapacity BacklogDrains
