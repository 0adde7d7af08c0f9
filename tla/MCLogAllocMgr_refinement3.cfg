\* The allocator implements DurableLog when a block lands in the dead zone:
\* three producers in flight (closer, install-race loser, winner), blocks of
\* 3 units and segments of 5.  Callers do not wait for durability here, which
\* keeps the run small; the two-producer refinement run covers the waits.
\* One crash may happen at any point, so the Restart fault action runs too;
\* across the restart step itself the mapping holds by construction.
\* Symmetry is sound: DurableLogSpec is a safety property and the refinement
\* mapping treats producers alike.
CONSTANTS
  p1 = p1
  p2 = p2
  p3 = p3
  Producers <- MCProducers3
  Daemon = Daemon
  BlockSizes = {3}
  SegSize = 5
  MIN_LOG_BLOCK_SIZE = 2
  WindowSize = 3
  WordBits = 5
  MaxLsn = 12
  MaxKickLag = 1
  LateAlloc = FALSE
  ClientWaits = FALSE
  ShortWrites = FALSE
  MaxRestarts = 1
  RecoveryKeepsSegments = FALSE
SPECIFICATION Spec
PROPERTY DurableLogSpec
SYMMETRY MCSymmetry3
CHECK_DEADLOCK FALSE
