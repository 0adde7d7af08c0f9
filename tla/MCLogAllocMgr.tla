--------------------------- MODULE MCLogAllocMgr ---------------------------
(***************************************************************************)
(* Instantiates LogAllocMgr for TLC.  Offsets are in units of 8 bytes: an  *)
(* empty block takes 2 units, requests take 2 or 3, a segment 5 and the    *)
(* ring buffer 3.  Two requests already overflow the buffer, and a segment *)
(* ends after two or three blocks: with two producers and allocations up   *)
(* to offset 8 (6 in the liveness run) a range fits, closes a segment,     *)
(* starts in its red zone, or wins the race to install the next segment.   *)
(* Losing that race (the dead zone) needs a third range in flight: three   *)
(* producers, blocks of 3 and allocations up to 12.  uint64_t is scaled to *)
(* 5 bits, wide enough for every offset the bounds allow.                  *)
(***************************************************************************)
EXTENDS LogAllocMgr, TLC

CONSTANTS p1, p2, p3

MCProducers == {p1, p2}

\* Three producers: a closer, a loser of the install race and its winner
\* in flight together, which the dead zone needs.
MCProducers3 == {p1, p2, p3}

\* Producers are interchangeable threads running the same code; symmetry is
\* used only by the runs that check invariants.
MCSymmetry == Permutations(MCProducers)
MCSymmetry3 == Permutations(MCProducers3)
=============================================================================
