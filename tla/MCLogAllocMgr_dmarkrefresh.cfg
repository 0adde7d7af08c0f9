\* With the log idle, the on-disk durable mark is never refreshed to the watermark.
CONSTANTS
  p1 = p1
  p2 = p2
  p3 = p3
  Producers <- MCProducers
  Daemon = Daemon
  BlockSizes = {2, 3}
  SegSize = 5
  MIN_LOG_BLOCK_SIZE = 2
  WindowSize = 3
  WordBits = 5
  MaxLsn = 5
  MaxKickLag = 2
  LateAlloc = FALSE
  ClientWaits = FALSE
  ShortWrites = FALSE
  MaxRestarts = 0
  RecoveryKeepsSegments = FALSE
SPECIFICATION Spec
PROPERTY DurableMarkRefreshed
CHECK_DEADLOCK FALSE
