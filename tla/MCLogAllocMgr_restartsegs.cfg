\* A restart after which recovery kept a segment installed past the
\* durable mark's segment, with the frontier rewound to the mark.
CONSTANTS
  p1 = p1
  p2 = p2
  p3 = p3
  Producers <- MCProducers
  Daemon = Daemon
  BlockSizes = {2, 3}
  SegSize = 5
  MIN_LOG_BLOCK_SIZE = 2
  WindowSize = 3
  WordBits = 5
  MaxLsn = 8
  MaxKickLag = 1
  LateAlloc = FALSE
  ClientWaits = FALSE
  ShortWrites = FALSE
  MaxRestarts = 1
  RecoveryKeepsSegments = TRUE
SPECIFICATION Spec
INVARIANT DurableWithinFrontier
SYMMETRY MCSymmetry
CHECK_DEADLOCK FALSE
