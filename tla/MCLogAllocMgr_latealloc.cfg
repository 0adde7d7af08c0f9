\* A producer racing the final sentinel never leaves it in the block list.
CONSTANTS
  p1 = p1
  p2 = p2
  p3 = p3
  Producers <- MCProducers
  Daemon = Daemon
  BlockSizes = {2, 3}
  SegSize = 5
  MIN_LOG_BLOCK_SIZE = 2
  WindowSize = 3
  WordBits = 5
  MaxLsn = 8
  MaxKickLag = 2
  LateAlloc = TRUE
  ClientWaits = TRUE
  ShortWrites = FALSE
  MaxRestarts = 0
  RecoveryKeepsSegments = FALSE
SPECIFICATION Spec
SYMMETRY MCSymmetry
INVARIANT SentinelOnlyWhileKilling
CHECK_DEADLOCK FALSE
