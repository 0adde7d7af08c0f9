\* Flushing never overtakes an unwritten block, a red-zone crossing finds
\* the next segment installed, and the daemon exits only when everything is
\* durable.  A quiet system stops with the daemon asleep: no deadlock check.
CONSTANTS
  p1 = p1
  p2 = p2
  p3 = p3
  Producers <- MCProducers
  Daemon = Daemon
  BlockSizes = {2, 3}
  SegSize = 5
  MIN_LOG_BLOCK_SIZE = 2
  WindowSize = 3
  WordBits = 5
  MaxLsn = 8
  MaxKickLag = 2
  LateAlloc = FALSE
  ClientWaits = TRUE
  ShortWrites = TRUE
  MaxRestarts = 0
  RecoveryKeepsSegments = FALSE
SPECIFICATION Spec
SYMMETRY MCSymmetry
INVARIANT TypeOK
INVARIANT NoUnwrittenBlockFlushed
INVARIANT BlocksOwnDisjointBytes
INVARIANT CrossingSegmentInstalled
INVARIANT ExitOnlyWhenFlushed
CHECK_DEADLOCK FALSE
PROPERTY FlushedBytesWritten
