\* The allocator, the daemon and shutdown implement DurableLog under the
\* refinement mapping of LogAllocMgr.  No symmetry: a temporal property.
CONSTANTS
  p1 = p1
  p2 = p2
  p3 = p3
  Producers <- MCProducers
  Daemon = Daemon
  BlockSizes = {2, 3}
  SegSize = 5
  MIN_LOG_BLOCK_SIZE = 2
  WindowSize = 3
  WordBits = 5
  MaxLsn = 8
  MaxKickLag = 2
  LateAlloc = FALSE
  ClientWaits = TRUE
  ShortWrites = TRUE
  MaxRestarts = 0
  RecoveryKeepsSegments = FALSE
SPECIFICATION Spec
PROPERTY DurableLogSpec
CHECK_DEADLOCK FALSE
