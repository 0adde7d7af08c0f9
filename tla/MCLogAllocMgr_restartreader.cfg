\* A restart after the durable mark has moved into the second segment:
\* the constructor's ring-buffer start and the daemon's durable_byte.
CONSTANTS
  p1 = p1
  p2 = p2
  p3 = p3
  Producers <- MCProducers
  Daemon = Daemon
  BlockSizes = {2, 3}
  SegSize = 5
  MIN_LOG_BLOCK_SIZE = 2
  WindowSize = 3
  WordBits = 5
  MaxLsn = 8
  MaxKickLag = 1
  LateAlloc = FALSE
  ClientWaits = FALSE
  ShortWrites = FALSE
  MaxRestarts = 1
  RecoveryKeepsSegments = FALSE
SPECIFICATION Spec
INVARIANT ReaderAtDurable
SYMMETRY MCSymmetry
CHECK_DEADLOCK FALSE
