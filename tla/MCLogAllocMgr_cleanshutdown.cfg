\* A contract-respecting shutdown never DIEs for past-end waiters.
CONSTANTS
  p1 = p1
  p2 = p2
  p3 = p3
  Producers <- MCProducers
  Daemon = Daemon
  BlockSizes = {2, 3}
  SegSize = 5
  MIN_LOG_BLOCK_SIZE = 2
  WindowSize = 3
  WordBits = 5
  MaxLsn = 8
  MaxKickLag = 2
  LateAlloc = FALSE
  ClientWaits = TRUE
  ShortWrites = FALSE
  MaxRestarts = 0
  RecoveryKeepsSegments = FALSE
SPECIFICATION Spec
SYMMETRY MCSymmetry
INVARIANT CleanShutdown
CHECK_DEADLOCK FALSE
