---------------------------- MODULE LogAllocMgr ----------------------------
(***************************************************************************)
(* sm_log_alloc_mgr (src/dbcore/sm-log-alloc.cpp): producer threads that   *)
(* allocate, release and wait on log blocks, and the single log write      *)
(* daemon that flushes the safe prefix of the ring buffer, advances the    *)
(* durable watermark and wakes waiters.                                    *)
(*                                                                         *)
(* Shared state and how it is modelled:                                    *)
(*  - the lock-free block list: the actors whose node is live (live; a    *)
(*    producer's node spans alloc[p].lsn..alloc[p].nxt, the daemon's       *)
(*    shutdown sentinel sits at sentinel), the actor that pushed the tail  *)
(*    (tail) and the tail's next_lsn_offset, cur_lsn_offset() (frontier);  *)
(*    dead nodes are invisible to the code and are not kept;               *)
(*  - the segment table of the segment manager (segs, see LogSegments) and *)
(*    its on-disk durable mark (dmark);                                    *)
(*  - the ring buffer's reader cursor (readBegin); write_buf(b, n) succeeds*)
(*    iff b + n <= readBegin + WindowSize;                                 *)
(*  - the fields guarded by _write_daemon_mutex.  Every critical section is*)
(*    one atomic step, except the daemon's shutdown section, which spans   *)
(*    two steps because producers push without the mutex meanwhile        *)
(*    (dpc = "kill" means the daemon holds the mutex).  The two wait       *)
(*    counters are kept as their difference kickLag = wait_count -         *)
(*    kick_count, the only thing the code compares.                        *)
(* A fatal exit (DIE, a failed ASSERT, an uncaught throw) ends the process:*)
(* fatal records which one.                                                *)
(***************************************************************************)
EXTENDS Naturals, Sequences, FiniteSets, FiniteSetsExt

CONSTANTS
  Producers,          \* producer threads
  Daemon,             \* the log write daemon (owner of the shutdown sentinel)
  BlockSizes,         \* log_block::size(nrec, payload_bytes) of requests
  SegSize,            \* nominal segment length
  MIN_LOG_BLOCK_SIZE, \* size of an empty block (header + skip record)
  WindowSize,         \* ring buffer capacity, _logbuf.window_size()
  WordBits,           \* width of uint64_t, scaled down (see README)
  MaxLsn,             \* bound: no new allocation past this offset
  MaxKickLag,         \* bound on spurious daemon wakeups (wait - kick)
  LateAlloc,          \* may producers allocate after shutdown is requested?
  ClientWaits,        \* may callers wait for durability after a release?
  ShortWrites,        \* may os_pwrite return short?
  MaxRestarts,        \* bound: process restarts
  RecoveryKeepsSegments \* may recovery keep segments past the mark's?

ASSUME
  /\ Daemon \notin Producers
  /\ MIN_LOG_BLOCK_SIZE \in Nat \ {0}
  /\ BlockSizes \subseteq MIN_LOG_BLOCK_SIZE..WindowSize
  /\ WindowSize <= SegSize
  /\ 2^WordBits > MaxLsn + 2 * SegSize
  /\ LateAlloc \in BOOLEAN /\ ShortWrites \in BOOLEAN /\ ClientWaits \in BOOLEAN
  /\ MaxRestarts \in Nat /\ RecoveryKeepsSegments \in BOOLEAN

Seg == INSTANCE LogSegments

Actors == Producers \cup {Daemon}

VARIABLES
  pc, alloc, tgt,                   \* producer control and locals
  frontier, live, sentinel, tail,   \* block list
  killed,
  segs, dmark,                      \* segment manager
  readBegin,                        \* ring buffer reader cursor
  written,                          \* history: ring bytes written, unflushed
  durable, wfd, wfdm, kickLag,      \* _durable_lsn_offset, _waiting_for_*
  daemonAsleep, cvWaiters, stop,    \* the two condition variables, stop flag
  dpc, curOff, oldest, dsid, dbyte, \* daemon control and locals
  dnew,                             \* new_sid, new_offset of a flush round
  fatal,
  restarts                          \* process restarts so far

prodVars == <<pc, alloc, tgt>>
listVars == <<frontier, live, sentinel, tail, killed>>
segVars == <<segs, dmark, readBegin, written>>
waitVars == <<durable, wfd, wfdm, kickLag, daemonAsleep, cvWaiters, stop>>
daemonVars == <<dpc, curOff, oldest, dsid, dbyte, dnew>>
vars == <<prodVars, listVars, segVars, waitVars, daemonVars, fatal>>

\* cur_lsn_offset(): next_lsn_offset of the tail of the block list.
cur_lsn_offset == frontier

\* A producer's locals when it is outside allocate/release/wait.
NoAlloc == [lsn |-> 0, nxt |-> 0, nbytes |-> 0, sid |-> 0, full |-> FALSE,
            size |-> 0]
NoTarget == [off |-> 0, dmark |-> FALSE]

\* _write_daemon_mutex is held across a step boundary in two places: by
\* the daemon between pushing the shutdown sentinel and remove_and_kill,
\* and by a producer in update_durable_mark between its test of the
\* durable mark and its wait.
MutexFree ==
  /\ dpc # "kill"
  /\ \A q \in Producers : pc[q] # "udmsleep"

\* Mutant: signals and counts a kick even when nobody waits.
KickUnguarded ==
  /\ kickLag' = kickLag - 1
  /\ daemonAsleep' = FALSE

\* _kick_log_write_daemon(), called with the mutex held.
Kick ==
  IF kickLag > 0
  THEN /\ kickLag' = kickLag - 1
       /\ daemonAsleep' = FALSE
  ELSE UNCHANGED <<kickLag, daemonAsleep>>

\* Wait on _write_complete_cond (releases the mutex).
WaitComplete(p) == cvWaiters' = cvWaiters \cup {p}

(***************************************************************************)
(* Producer: allocate().                                                   *)
(***************************************************************************)

\* Step 1: push_callback with the callback that sets lsn_offset to the
\* predecessor's next_lsn_offset.  After remove_and_kill the push fails and
\* the producer DIEs.
Push(p, n) ==
  IF killed
  THEN /\ fatal' = "insert_after_shutdown"
       /\ UNCHANGED <<pc, alloc, frontier, live, tail>>
  ELSE /\ frontier' = cur_lsn_offset + n
       /\ live' = live \cup {p}
       /\ tail' = p
       /\ alloc' = [alloc EXCEPT ![p] = [lsn |-> cur_lsn_offset,
                                         nxt |-> cur_lsn_offset + n,
                                         nbytes |-> n, sid |-> 0,
                                         full |-> FALSE, size |-> n]]
       /\ pc' = [pc EXCEPT ![p] = "assign"]
       /\ UNCHANGED fatal

Allocate(p) ==
  /\ fatal = "none"
  /\ pc[p] = "idle"
  /\ ~stop \/ LateAlloc
  /\ \E n \in BlockSizes :
       /\ cur_lsn_offset + n <= MaxLsn
       /\ Push(p, n)
  /\ UNCHANGED <<segVars, waitVars, daemonVars, tgt, sentinel, killed>>

\* goto start_over: a new node of the same size.
StartOver(p) ==
  /\ fatal = "none"
  /\ pc[p] = "push"
  /\ Push(p, alloc[p].nbytes)
  /\ UNCHANGED <<segVars, waitVars, daemonVars, tgt, sentinel, killed>>

\* Mutant: a block that does not fit keeps its requested size.
BlockSizeUnshrunk(a, r) == a.nbytes

\* tmp_nbytes: a block that does not fit its segment shrinks to an empty
\* block filling the rest of it (newsz = end_offset - lsn_offset).
BlockSize(a, r) ==
  IF r.full_size THEN a.nbytes ELSE r.segs[r.sid].end_offset - a.lsn

\* Step 2: assign_segment.  No segment: DEFER remove_fast drops the node
\* (without a kick) and the producer starts over.  A range that does not
\* fit is shrunk to an empty block that fills the segment.
AssignSeg(p) ==
  /\ fatal = "none"
  /\ pc[p] = "assign"
  /\ LET a == alloc[p]
         r == Seg!AssignSegment(segs, a.lsn, a.nxt)
     IN  /\ segs' = r.segs
         /\ IF r.sid = 0
            THEN /\ live' = live \ {p}
                 /\ pc' = [pc EXCEPT ![p] = "push"]
                 /\ UNCHANGED alloc
            ELSE /\ alloc' = [alloc EXCEPT ![p].sid = r.sid,
                                           ![p].full = r.full_size,
                                           ![p].size = BlockSize(a, r)]
                 /\ pc' = [pc EXCEPT ![p] = "grab"]
                 /\ UNCHANGED live
  /\ UNCHANGED <<waitVars, daemonVars, tgt, frontier, sentinel, tail, killed,
                 dmark, readBegin, written, fatal>>

\* The ring-buffer bytes of a producer's block, which it fills between
\* write_buf and release.
BlockBytes(p) ==
  LET a == alloc[p]
      b == Seg!BufOffset(segs[a.sid], a.lsn)
  IN  b .. b + a.size - 1

\* The start of release(x): remove_fast marks the node dead.  The block's
\* bytes are all written by then (history variable written).
RemoveFast(p) ==
  /\ live' = live \ {p}
  /\ pc' = [pc EXCEPT ![p] = "relkick"]
  /\ written' = written \cup BlockBytes(p)

\* Mutant: the undersized block is dropped with remove_fast, as on the
\* no-segment path, without writing its empty block.
DropShrunk(p) ==
  /\ live' = live \ {p}
  /\ pc' = [pc EXCEPT ![p] = "relkick"]
  /\ UNCHANGED written

\* An undersized block gets its header and skip record (nrec 0, no
\* payload) and is discarded, which releases it: it fills the rest of its
\* segment.
FillAndDiscard(p) == RemoveFast(p)

\* Step 3 (grab_buffer): write_buf.  On success the header and skip record
\* are written; a shrunk block is then discarded, which releases it.
GrabBuffer(p) ==
  /\ fatal = "none"
  /\ pc[p] = "grab"
  /\ p \notin cvWaiters
  /\ LET a == alloc[p]
     IN  IF Seg!BufOffset(segs[a.sid], a.lsn) + a.size
              <= readBegin + WindowSize
         THEN IF a.full
              THEN /\ pc' = [pc EXCEPT ![p] = "owned"]
                   /\ UNCHANGED <<live, written>>
              ELSE FillAndDiscard(p)
         ELSE /\ pc' = [pc EXCEPT ![p] = "bufwait"]
              /\ UNCHANGED <<live, written>>
  /\ UNCHANGED <<segs, dmark, readBegin, waitVars, daemonVars, alloc, tgt, frontier,
                 sentinel, tail, killed, fatal>>

\* No buffer space: under the mutex raise _waiting_for_durable to
\* needed = lsn.offset() - window_size() (uint64_t arithmetic), kick the
\* daemon and wait on _write_complete_cond; then goto grab_buffer.
needed(p) == (alloc[p].lsn - WindowSize) % (2^WordBits)

BufferWait(p) ==
  /\ fatal = "none"
  /\ pc[p] = "bufwait"
  /\ MutexFree
  /\ wfd' = Max({wfd, needed(p)})
  /\ Kick
  /\ WaitComplete(p)
  /\ pc' = [pc EXCEPT ![p] = "grab"]
  /\ UNCHANGED <<listVars, segVars, daemonVars, alloc, tgt, durable, wfdm,
                 stop, fatal>>

(***************************************************************************)
(* Producer: release() and discard() of an owned block, then the client's  *)
(* optional wait for its block to become durable.                          *)
(***************************************************************************)

\* release(x): remove_fast marks the node dead.
Release(p) ==
  /\ fatal = "none"
  /\ pc[p] = "owned"
  /\ RemoveFast(p)
  /\ UNCHANGED <<segs, dmark, readBegin, waitVars, daemonVars, alloc, tgt, frontier,
                 sentinel, tail, killed, fatal>>

\* discard(x): the block is rewritten as an empty one (the skip record
\* moved to the front, no payload, a new checksum; contents are not
\* modelled) and released.
Discard(p) == Release(p)

\* The rest of release(): kick only if kick_count < wait_count, read
\* without the mutex.  A shrunk block goes back to start_over; after a
\* full block the caller may wait_for_durable or update_durable_mark on
\* the block's end.
ReleaseKick(p) ==
  /\ fatal = "none"
  /\ pc[p] = "relkick"
  /\ IF kickLag > 0
     THEN MutexFree /\ Kick
     ELSE UNCHANGED <<kickLag, daemonAsleep>>
  /\ IF alloc[p].full
     THEN /\ alloc' = [alloc EXCEPT ![p] = NoAlloc]
          /\ \/ /\ pc' = [pc EXCEPT ![p] = "idle"]
                /\ UNCHANGED tgt
             \/ \E mark \in BOOLEAN :
                  /\ ClientWaits
                  /\ pc' = [pc EXCEPT ![p] = "wfd"]
                  /\ tgt' = [tgt EXCEPT ![p] = [off |-> alloc[p].nxt,
                                                dmark |-> mark]]
     ELSE /\ pc' = [pc EXCEPT ![p] = "push"]
          /\ UNCHANGED <<alloc, tgt>>
  /\ UNCHANGED <<listVars, segVars, daemonVars, durable, wfd, wfdm, cvWaiters,
                 stop, fatal>>

\* Mutant: the loop keeps waiting when the target is exactly durable.
NotYetDurableInclusive(off) == durable <= off

\* The loop condition of wait_for_durable: dur_lsn_offset() < dlsn_offset.
NotYetDurable(off) == durable < off

\* wait_for_durable: the loop test, without the mutex.  When called from
\* update_durable_mark the dmark loop follows.
WaitCheck(p) ==
  /\ fatal = "none"
  /\ pc[p] = "wfd"
  /\ p \notin cvWaiters
  /\ CASE NotYetDurable(tgt[p].off) ->
            pc' = [pc EXCEPT ![p] = "wfdwait"] /\ UNCHANGED tgt
       [] tgt[p].dmark ->
            pc' = [pc EXCEPT ![p] = "udm"] /\ UNCHANGED tgt
       [] OTHER ->
            pc' = [pc EXCEPT ![p] = "idle"] /\ tgt' = [tgt EXCEPT ![p] = NoTarget]
  /\ UNCHANGED <<listVars, segVars, waitVars, daemonVars, alloc, fatal>>

\* wait_for_durable: the loop body under the mutex.
WaitDurable(p) ==
  /\ fatal = "none"
  /\ pc[p] = "wfdwait"
  /\ MutexFree
  /\ wfd' = Max({wfd, tgt[p].off})
  /\ Kick
  /\ WaitComplete(p)
  /\ pc' = [pc EXCEPT ![p] = "wfd"]
  /\ UNCHANGED <<listVars, segVars, daemonVars, alloc, tgt, durable, wfdm,
                 stop, fatal>>

\* update_durable_mark after its wait_for_durable: the test of the loop on
\* the segment manager's durable mark, under the mutex.  The daemon moves
\* the mark and broadcasts without the mutex, so it can do both between
\* this test and the wait.
UpdateMark(p) ==
  /\ fatal = "none"
  /\ pc[p] = "udm"
  /\ p \notin cvWaiters
  /\ MutexFree
  /\ IF dmark < tgt[p].off
     THEN /\ wfdm' = Max({wfdm, tgt[p].off})
          /\ Kick
          /\ pc' = [pc EXCEPT ![p] = "udmsleep"]
          /\ UNCHANGED tgt
     ELSE /\ pc' = [pc EXCEPT ![p] = "idle"]
          /\ tgt' = [tgt EXCEPT ![p] = NoTarget]
          /\ UNCHANGED <<wfdm, kickLag, daemonAsleep>>
  /\ UNCHANGED <<listVars, segVars, daemonVars, alloc, durable, wfd,
                 cvWaiters, stop, fatal>>

\* The wait that ends the loop body; it releases the mutex.
UpdateMarkWait(p) ==
  /\ fatal = "none"
  /\ pc[p] = "udmsleep"
  /\ WaitComplete(p)
  /\ pc' = [pc EXCEPT ![p] = "udm"]
  /\ UNCHANGED <<listVars, segVars, daemonVars, alloc, tgt, durable, wfd,
                 wfdm, kickLag, daemonAsleep, stop, fatal>>

\* A spurious return from _write_complete_cond.wait.
SpuriousWakeup(p) ==
  /\ fatal = "none"
  /\ p \in cvWaiters
  /\ cvWaiters' = cvWaiters \ {p}
  /\ UNCHANGED <<prodVars, listVars, segVars, daemonVars, durable, wfd, wfdm,
                 kickLag, daemonAsleep, stop, fatal>>

(***************************************************************************)
(* ~sm_log_alloc_mgr: raise the stop flag and kick, under the mutex.  The  *)
(* class comment makes it the system's job not to stop while producers may *)
(* still log; LateAlloc drops that obligation.                             *)
(***************************************************************************)
Shutdown ==
  /\ fatal = "none"
  /\ ~stop
  /\ MutexFree
  /\ LateAlloc \/ \A p \in Producers : pc[p] = "idle"
  /\ stop' = TRUE
  /\ Kick
  /\ UNCHANGED <<prodVars, listVars, segVars, daemonVars, durable, wfd, wfdm,
                 cvWaiters, fatal>>

(***************************************************************************)
(* The log write daemon, _log_write_daemon().                              *)
(***************************************************************************)

\* new_sid and new_offset outside a flush round.
NoFlush == [sid |-> 0, off |-> 0]

\* Back to the top of the loop; the locals cur_offset and oldest_offset are
\* dead there (both are recomputed before use) and are cleared.
ToTop ==
  /\ dpc' = "top"
  /\ curOff' = 0
  /\ oldest' = 0
  /\ dnew' = NoFlush

\* Block on _write_daemon_cond after _write_daemon_wait_count++.
DaemonSleep ==
  /\ kickLag' = kickLag + 1
  /\ daemonAsleep' = TRUE
  /\ ToTop

\* update_dmark: record _durable_lsn_offset as the on-disk durable mark.
UpdateDmark == dmark' = durable

\* Top of the loop: refresh the on-disk durable mark when it lags and
\* somebody wants it or the 100 ms timer expired (the broadcast is made
\* without the mutex), then read cur_lsn_offset().
DaemonTop ==
  /\ fatal = "none"
  /\ dpc = "top"
  /\ ~daemonAsleep
  /\ \E timeout \in BOOLEAN :
       LET can_update  == dmark < durable
           want_update == dmark < wfdm
       IN  IF can_update /\ (want_update \/ timeout)
           THEN /\ UpdateDmark
                /\ cvWaiters' = IF want_update THEN {} ELSE cvWaiters
           ELSE UNCHANGED <<dmark, cvWaiters>>
  /\ curOff' = cur_lsn_offset
  /\ dpc' = "scan"
  /\ UNCHANGED <<prodVars, listVars, segs, readBegin, written, durable, wfd,
                 wfdm,
                 kickLag, daemonAsleep, stop, oldest, dsid, dbyte, dnew, fatal>>

\* Mutant: the walk skips nodes whose segment is not yet assigned.
LiveOffsetsAssigned ==
  {curOff} \cup {alloc[p].lsn : p \in {q \in live \ {Daemon} : pc[q] # "assign"}}
    \cup (IF Daemon \in live THEN {sentinel} ELSE {})

\* The offsets of the live nodes of the block list.
LiveOffsets ==
  {alloc[p].lsn : p \in live \ {Daemon}}
    \cup (IF Daemon \in live THEN {sentinel} ELSE {})

\* Mutant: the walk stops at the first (newest) live node.
OldestOffsetFirst == IF live = {} THEN curOff ELSE Max(LiveOffsets)

\* Walk the block list: the last live node is the oldest allocation, and
\* with no live node it is cur_offset.
OldestOffset == IF live = {} THEN curOff ELSE Min(LiveOffsets)

DaemonScan ==
  /\ fatal = "none"
  /\ dpc = "scan"
  /\ LET o == OldestOffset
     IN  CASE o = durable -> oldest' = o /\ dpc' = "idle" /\ UNCHANGED curOff
           [] durable < o -> oldest' = o /\ dpc' = "flush" /\ UNCHANGED curOff
           [] OTHER       -> ToTop
  /\ UNCHANGED <<prodVars, listVars, segVars, waitVars, dsid, dbyte, dnew,
                 fatal>>

\* Mutant: the recheck uses the cur_offset read before the sentinel push.
NoBlockSlippedInStale == oldest = curOff

\* After pushing the sentinel, whose callback refreshed cur_offset: did any
\* block join the list since the scan?
NoBlockSlippedIn == oldest = cur_lsn_offset

\* The shutdown sentinel joins the list: its callback cb sets its offset
\* and cur_offset to the predecessor's next_lsn_offset.
SentinelPush ==
  /\ live' = live \cup {Daemon}
  /\ sentinel' = cur_lsn_offset
  /\ curOff' = cur_lsn_offset

\* Nothing to write: under the mutex, loop again if a dmark waiter can be
\* satisfied; otherwise broadcast _write_complete_cond and, when stopping
\* with everything durable, update the durable mark and push the shutdown
\* sentinel (its callback also refreshes cur_offset).  If no block slipped
\* in, keep the mutex and go on to remove_and_kill; otherwise DEFER removes
\* the sentinel and the daemon sleeps.
DaemonIdle ==
  /\ fatal = "none"
  /\ dpc = "idle"
  /\ MutexFree
  /\ IF dmark < wfdm /\ wfdm <= durable
     THEN /\ ToTop
          /\ UNCHANGED <<live, sentinel, tail, dmark, kickLag, daemonAsleep,
                         cvWaiters>>
     ELSE /\ cvWaiters' = {}
          /\ IF durable = curOff /\ stop
             THEN /\ IF dmark < durable THEN UpdateDmark ELSE UNCHANGED dmark
                  /\ tail' = Daemon
                  /\ IF NoBlockSlippedIn
                     THEN /\ SentinelPush
                          /\ dpc' = "kill"
                          /\ UNCHANGED <<kickLag, daemonAsleep, oldest>>
                     ELSE /\ DaemonSleep
                          /\ UNCHANGED <<live, sentinel>>
             ELSE /\ DaemonSleep
                  /\ UNCHANGED <<live, sentinel, tail, dmark>>
  /\ UNCHANGED <<prodVars, frontier, killed, segs, readBegin, written,
                 durable, wfd, wfdm, stop, dsid, dbyte, dnew, fatal>>

\* remove_and_kill(sentinel): succeeds iff the sentinel is still the tail;
\* then DIE if anyone waits past the final durable offset, else exit.  On
\* failure node_removed is already true, so the sentinel stays in the list,
\* and the daemon sleeps.
DaemonKill ==
  /\ fatal = "none"
  /\ dpc = "kill"
  /\ IF tail = Daemon
     THEN /\ killed' = TRUE
          /\ live' = live \ {Daemon}
          /\ sentinel' = 0
          /\ IF durable < wfd \/ durable < wfdm
             THEN /\ fatal' = "shutdown_waiters"
                  /\ UNCHANGED dpc
             ELSE /\ dpc' = "exited"
                  /\ UNCHANGED fatal
          /\ UNCHANGED <<kickLag, daemonAsleep, curOff, oldest>>
     ELSE /\ DaemonSleep
          /\ UNCHANGED <<killed, live, sentinel, fatal>>
  /\ UNCHANGED <<prodVars, segVars, frontier, tail, durable, wfd, wfdm,
                 cvWaiters, stop, dsid, dbyte, dnew>>

\* Mutant: crosses when the rest of the segment is exactly an empty block.
CrossesAtBoundary(sid, o) == sid.end_offset <= o + MIN_LOG_BLOCK_SIZE

\* The rest of segment sid before offset o is within the red zone.
Crosses(sid, o) == sid.end_offset < o + MIN_LOG_BLOCK_SIZE

\* One round of the flush loop (while durable < oldest), up to the mutex.
\* Past the red zone of the durable segment the write runs to the start of
\* the next segment, which get_segment must already know.  The three
\* ASSERTs are checked, the bytes written and the reader cursor advanced.
DaemonWrite ==
  /\ fatal = "none"
  /\ dpc = "flush"
  /\ LET s     == segs[dsid]
         nsid  == IF Crosses(s, oldest) THEN dsid + 1 ELSE dsid
         new_offset == IF nsid # dsid THEN segs[nsid].start_offset ELSE oldest
         new_byte   == Seg!BufOffset(segs[nsid], new_offset)
     IN  CASE nsid > Len(segs) ->
                /\ fatal' = "no_next_segment"
                /\ UNCHANGED <<readBegin, written, dpc, dnew>>
           [] dbyte # readBegin \/ new_byte <= dbyte ->
                /\ fatal' = "assert_flush"
                /\ UNCHANGED <<readBegin, written, dpc, dnew>>
           [] OTHER ->
                /\ readBegin' = new_byte
                /\ written' = {b \in written : b >= new_byte}
                /\ dnew' = [sid |-> nsid, off |-> new_offset]
                /\ dpc' = "publish"
                /\ UNCHANGED fatal
  /\ UNCHANGED <<prodVars, listVars, waitVars, segs, dmark, curOff, oldest,
                 dsid, dbyte>>

\* The end of the round, under the mutex: wake the waiters if the old
\* watermark was below the waited-for one, then move to the new offset and
\* loop while it is below oldest_offset.
DaemonPublish ==
  /\ fatal = "none"
  /\ dpc = "publish"
  /\ MutexFree
  /\ cvWaiters' = IF durable < wfd THEN {} ELSE cvWaiters
  /\ durable' = dnew.off
  /\ dsid' = dnew.sid
  /\ dbyte' = Seg!BufOffset(segs[dnew.sid], dnew.off)
  /\ IF dnew.off < oldest
     THEN /\ dpc' = "flush"
          /\ dnew' = NoFlush
          /\ UNCHANGED <<curOff, oldest>>
     ELSE ToTop
  /\ UNCHANGED <<prodVars, listVars, segVars, wfd, wfdm, kickLag,
                 daemonAsleep, stop, fatal>>

\* os_pwrite returns short: THROW_IF ends the daemon thread, and with it
\* the process.
DaemonShortWrite ==
  /\ fatal = "none"
  /\ dpc = "flush"
  /\ ShortWrites
  /\ fatal' = "short_write"
  /\ UNCHANGED <<prodVars, listVars, segVars, waitVars, daemonVars>>

\* A spurious return from _write_daemon_cond.wait.
DaemonSpuriousWakeup ==
  /\ fatal = "none"
  /\ daemonAsleep
  /\ kickLag < MaxKickLag
  /\ daemonAsleep' = FALSE
  /\ UNCHANGED <<prodVars, listVars, segVars, daemonVars, durable, wfd, wfdm,
                 kickLag, cvWaiters, stop, fatal>>

\* The prologue of _log_write_daemon: durable_sid is the segment the
\* durable mark names, durable_byte the mark's ring byte.
DaemonStart(S, m) ==
  LET i == Seg!SegIndex(S, m)
  IN  [dsid |-> i, dbyte |-> Seg!BufOffset(S[i], m)]

\* get_starting_byte_offset: the position of the durable mark m within the
\* file of its segment (segment_id::offset), where the ring buffer starts.
StartingByteOffset(S, m) == Seg!FileOffset(S[Seg!SegIndex(S, m)], m)

(***************************************************************************)
(* The constructor and the prologue of the daemon, after recovery left the *)
(* segment table S and the durable mark m: the ring buffer starts at       *)
(* get_starting_byte_offset, the watermark at m, the block list is primed  *)
(* with a dead node at m (pushed by the constructor, here counted as the   *)
(* daemon's), and the daemon takes durable_sid from the mark's segment and *)
(* durable_byte = buf_offset(m) before the top of its loop.                *)
(***************************************************************************)
Boot(S, m) ==
  [pc |-> [p \in Producers |-> "idle"],
   alloc |-> [p \in Producers |-> NoAlloc],
   tgt |-> [p \in Producers |-> NoTarget],
   frontier |-> m,
   live |-> {},
   sentinel |-> m,
   tail |-> Daemon,
   killed |-> FALSE,
   segs |-> S,
   dmark |-> m,
   readBegin |-> StartingByteOffset(S, m),
   written |-> {},
   durable |-> m,
   wfd |-> 0,
   wfdm |-> 0,
   kickLag |-> 0,
   daemonAsleep |-> FALSE,
   cvWaiters |-> {},
   stop |-> FALSE,
   dpc |-> "top",
   curOff |-> m,
   oldest |-> m,
   dsid |-> DaemonStart(S, m).dsid,
   dbyte |-> DaemonStart(S, m).dbyte,
   dnew |-> NoFlush,
   fatal |-> "none"]

\* A fresh log: the durable mark at offset 0, the start of segment 1.
Init ==
  /\ LET b == Boot(<< [start_offset |-> 0, end_offset |-> SegSize,
                       byte_offset |-> 0] >>, 0)
     IN
       /\ pc = b.pc /\ alloc = b.alloc /\ tgt = b.tgt /\ frontier = b.frontier
       /\ live = b.live /\ sentinel = b.sentinel /\ tail = b.tail /\ killed = b.killed
       /\ segs = b.segs /\ dmark = b.dmark /\ readBegin = b.readBegin /\ written = b.written
       /\ durable = b.durable
       /\ wfd = b.wfd /\ wfdm = b.wfdm /\ kickLag = b.kickLag /\ daemonAsleep = b.daemonAsleep
       /\ cvWaiters = b.cvWaiters /\ stop = b.stop /\ dpc = b.dpc /\ curOff = b.curOff
       /\ oldest = b.oldest /\ dsid = b.dsid /\ dbyte = b.dbyte /\ dnew = b.dnew
       /\ fatal = b.fatal
  /\ restarts = 0

\* The process dies at any point (a crash, or the end of a run) and a new
\* sm_log_alloc_mgr is constructed.  Only the segment files and the
\* durable mark on disk survive.  Recovery, which is not part of the
\* allocator, leaves the mark where it was or, having scanned the blocks
\* the daemon wrote past it, at the old watermark.  Segments installed
\* after the mark's segment are dropped, or, if RecoveryKeepsSegments,
\* may be kept.
Restart ==
  /\ restarts < MaxRestarts
  /\ restarts' = restarts + 1
  /\ \E m \in {dmark, durable} :
     \E k \in Seg!SegIndex(segs, m) ..
             IF RecoveryKeepsSegments THEN Len(segs) ELSE Seg!SegIndex(segs, m) :
       LET S == SubSeq(segs, 1, k)
           b == Boot(S, m)
       IN
         /\ pc' = b.pc /\ alloc' = b.alloc /\ tgt' = b.tgt /\ frontier' = b.frontier
         /\ live' = b.live /\ sentinel' = b.sentinel /\ tail' = b.tail /\ killed' = b.killed
         /\ segs' = b.segs /\ dmark' = b.dmark /\ readBegin' = b.readBegin /\ written' = b.written
         /\ durable' = b.durable
         /\ wfd' = b.wfd /\ wfdm' = b.wfdm /\ kickLag' = b.kickLag /\ daemonAsleep' = b.daemonAsleep
         /\ cvWaiters' = b.cvWaiters /\ stop' = b.stop /\ dpc' = b.dpc /\ curOff' = b.curOff
         /\ oldest' = b.oldest /\ dsid' = b.dsid /\ dbyte' = b.dbyte /\ dnew' = b.dnew
         /\ fatal' = b.fatal

\* The process has ended: the daemon exited after shutdown, or a fatal exit.
Terminated ==
  /\ fatal # "none" \/ dpc = "exited"
  /\ UNCHANGED vars

SystemNext ==
  \/ \E p \in Producers :
       \/ Allocate(p) \/ StartOver(p) \/ AssignSeg(p) \/ GrabBuffer(p)
       \/ BufferWait(p) \/ Release(p) \/ Discard(p) \/ ReleaseKick(p)
       \/ WaitCheck(p)
       \/ WaitDurable(p) \/ UpdateMark(p) \/ UpdateMarkWait(p)
       \/ SpuriousWakeup(p)
  \/ Shutdown
  \/ DaemonTop \/ DaemonScan \/ DaemonIdle \/ DaemonKill \/ DaemonWrite
  \/ DaemonPublish  \/ DaemonShortWrite \/ DaemonSpuriousWakeup
  \/ Terminated

Next ==
  \/ SystemNext /\ UNCHANGED restarts
  \/ Restart

(***************************************************************************)
(* Fairness.  Each thread is sequential: its steps are those below, and   *)
(* at any time at most one of them is possible.  A thread that can take a  *)
(* step infinitely often eventually takes one (strong fairness): a fair    *)
(* scheduler and a starvation-free _write_daemon_mutex, which another      *)
(* thread may hold across a step boundary.  Weak fairness would let a      *)
(* producer cycling through spurious wakeups in update_durable_mark keep   *)
(* the daemon off the mutex forever.  A caller holding a block must        *)
(* release it (the allocate() contract), so Release is included.           *)
(* Starting a new allocation, stopping the system, spurious wakeups and    *)
(* I/O errors are not fair.                                                *)
(***************************************************************************)
ProducerSteps(p) ==
  \/ StartOver(p) \/ AssignSeg(p) \/ GrabBuffer(p) \/ BufferWait(p)
  \/ Release(p) \/ Discard(p) \/ ReleaseKick(p) \/ WaitCheck(p)
  \/ WaitDurable(p)
  \/ UpdateMark(p) \/ UpdateMarkWait(p)

DaemonSteps ==
  \/ DaemonTop \/ DaemonScan \/ DaemonIdle \/ DaemonKill
  \/ DaemonWrite \/ DaemonPublish

Fairness ==
  /\ \A p \in Producers : SF_vars(ProducerSteps(p))
  /\ SF_vars(DaemonSteps)

Spec == Init /\ [][Next]_<<vars, restarts>> /\ Fairness

-----------------------------------------------------------------------------
(* Properties *)

AllocPcs == {"idle", "push", "assign", "grab", "bufwait", "owned",
             "relkick", "wfd", "wfdwait", "udm", "udmsleep"}

TypeOK ==
  /\ pc \in [Producers -> AllocPcs]
  /\ \A p \in Producers :
       /\ alloc[p].lsn <= alloc[p].nxt
       /\ alloc[p].sid \in 0..Len(segs)
       /\ alloc[p].full \in BOOLEAN
  /\ frontier \in Nat /\ sentinel \in Nat
  /\ live \subseteq Actors /\ tail \in Actors /\ killed \in BOOLEAN
  /\ {durable, dmark, readBegin, wfd, wfdm, curOff, oldest, dbyte} \subseteq Nat
  /\ kickLag \in 0..MaxKickLag
  /\ daemonAsleep \in BOOLEAN /\ stop \in BOOLEAN
  /\ cvWaiters \subseteq Producers
  /\ dpc \in {"top", "scan", "idle", "flush", "publish", "kill", "exited"}
  /\ dnew.sid \in 0..Len(segs)
  /\ dsid \in 1..Len(segs)
  /\ fatal \in {"none", "insert_after_shutdown", "shutdown_waiters",
                "no_next_segment", "assert_flush", "short_write"}
  /\ restarts \in 0..MaxRestarts

\* A producer holds a block with a segment from assign_segment until it
\* releases it; until then its bytes are not written.
Unwritten(p) == pc[p] \in {"grab", "bufwait", "owned"}

(* The daemon never flushes over a block whose bytes are not yet written:  *)
(* neither the durable watermark nor the ring reader cursor passes the     *)
(* start of an allocated, unreleased block.  This is what the oldest-live  *)
(* scan, the red-zone crossing to the next segment and the concurrent      *)
(* push/remove_fast of the block list must jointly guarantee.              *)
NoUnwrittenBlockFlushed ==
  \A p \in Producers :
    Unwritten(p) =>
      /\ durable <= alloc[p].lsn
      /\ readBegin <= Seg!BufOffset(segs[alloc[p].sid], alloc[p].lsn)

\* A producer's block has a segment and a place in the ring buffer, and its
\* bytes are not yet flushed: from assign_segment to the end of release.
InBuffer(p) == pc[p] \in {"grab", "bufwait", "owned", "relkick"}

(* No two blocks in the ring buffer share a byte.  LSN offsets are handed  *)
(* out disjointly, but bytes are not LSN offsets: a segment's bytes start  *)
(* where its predecessor's end, so the block that closes a segment must    *)
(* shrink to exactly the rest of it, or it overwrites the first block of   *)
(* the next segment, which another producer installed and may be filling.  *)
BlocksOwnDisjointBytes ==
  \A p, q \in Producers :
    p # q /\ InBuffer(p) /\ InBuffer(q) => BlockBytes(p) \cap BlockBytes(q) = {}

\* The bytes of each segment that has a successor from its red zone (no
\* empty block fits there, so recovery moves on to the next segment) up to
\* its true end.  Nobody writes them when a range starting there is dropped.
RedZoneTail ==
  UNION {{Seg!BufOffset(segs[i], x) :
            x \in segs[i].end_offset - MIN_LOG_BLOCK_SIZE + 1 ..
                  Min({segs[i].end_offset, segs[i + 1].start_offset}) - 1} :
         i \in 1..Len(segs) - 1}

(* No hole in the log: advance_reader passes only ring bytes that a block *)
(* wrote before its release or discard, or bytes of a red-zone tail.     *)
(* Bytes follow LSN offsets within a segment and the next segment's bytes *)
(* start at the old one's true end, so the closing block must write its  *)
(* empty block over the rest of its segment, a dead-zone range (no       *)
(* bytes) must not sit between two blocks, and the scan must not pass an *)
(* unreleased block; an unwritten byte on disk truncates the log at       *)
(* recovery.                                                              *)
FlushedBytesWritten ==
  [][restarts' = restarts /\ readBegin < readBegin'
       => readBegin .. readBegin' - 1 \subseteq written \cup RedZoneTail]_<<vars, restarts>>

(* The daemon exits only when the whole log is durable: every allocated    *)
(* range is below _durable_lsn_offset and no block is still in the list.   *)
(* This is what the sentinel push and remove_and_kill at shutdown are for. *)
ExitOnlyWhenFlushed ==
  dpc = "exited" => /\ durable = cur_lsn_offset
                    /\ live = {}
                    /\ \A p \in Producers : ~Unwritten(p)

(* No producer blocks forever: allocate() returns, and wait_for_durable /  *)
(* update_durable_mark return once everything below the target is          *)
(* released, despite the unlocked checks before each wait and the wakeups  *)
(* that can be missed in between (or the process dies).                    *)
ThreadsProgress ==
  \A p \in Producers :
    pc[p] \notin {"idle", "owned"} ~> (pc[p] \in {"idle", "owned"} \/ fatal # "none")

(* Once ~sm_log_alloc_mgr has raised the stop flag, the daemon eventually  *)
(* exits (or the process dies).                                            *)
ShutdownCompletes ==
  stop ~> (dpc = "exited" \/ fatal # "none")

(* Every block released by release() eventually becomes durable, whether  *)
(* or not anyone waits for it (spec scenario S1).                          *)
ReleasedBlocksBecomeDurable ==
  \A p \in Producers, x \in 0..MaxLsn :
    (pc[p] = "relkick" /\ alloc[p].full /\ alloc[p].nxt = x)
      ~> (x <= durable \/ fatal # "none")

(* The comment at the top of the daemon's loop: "every 100 ms or so,      *)
(* update the durable mark on disk".  Whatever reaches _durable_lsn_offset *)
(* eventually reaches the segment manager's durable mark (or the process   *)
(* dies).  The refresh runs only when the loop comes round, and the idle  *)
(* path waits on _write_daemon_cond with no timeout.                        *)
DurableMarkRefreshed ==
  \A x \in 0..MaxLsn : (x <= durable) ~> (x <= dmark \/ fatal # "none")

(* A shutdown that respects the contract (no producer running, nobody      *)
(* waiting past the frontier) never DIEs with "Thread(s) waiting for       *)
(* past-end durable LSN at log shutdown".                                  *)
CleanShutdown == fatal # "shutdown_waiters"

(* The durable watermark never passes the frontier: _durable_lsn_offset  *)
(* <= cur_lsn_offset() (spec P3).  The daemon's red-zone crossing jumps to *)
(* the start of the next segment, which is safe only because a range      *)
(* reaching into the red zone installed that segment at its own end.       *)
DurableWithinFrontier == durable <= cur_lsn_offset

(* The ring buffer's reader cursor is the ring byte of the durable         *)
(* watermark, except inside a flush round between advance_reader and the  *)
(* locked update of _durable_lsn_offset (spec invariant I5).  The          *)
(* constructor sets the cursor from get_starting_byte_offset and the       *)
(* daemon its durable_byte from buf_offset; ASSERT(durable_byte ==         *)
(* _logbuf.read_begin()) relies on the two agreeing, after a restart too.  *)
ReaderAtDurable ==
  dpc # "publish" => readBegin = Seg!BufOffset(segs[dsid], durable)

(* When the daemon crosses the red zone at the end of a segment, the next  *)
(* segment is already installed (spec 4.E: "any allocation landing in the  *)
(* red zone necessarily caused the next segment to be installed first").   *)
CrossingSegmentInstalled == fatal # "no_next_segment"

(* The shutdown sentinel the daemon pushes is in the block list only while *)
(* the daemon holds the mutex between the push and remove_and_kill: when a *)
(* producer's block slips in behind it, DEFER_UNLESS(node_removed, ...)    *)
(* still has to take it out, or it pins oldest_offset below every later    *)
(* block (spec: "verify progress under adversarial shutdown timing").      *)
SentinelOnlyWhileKilling == Daemon \in live => dpc = "kill"
-----------------------------------------------------------------------------
(* Refinement: the allocator implements DurableLog.                        *)

\* A live range whose start lies in the red or dead zone of a segment that
\* already has a successor: assign_segment can only answer "no segment",
\* so its bytes will never be written.
Doomed(p) ==
  /\ pc[p] = "assign"
  /\ LET i == Seg!SegIndex(segs, alloc[p].lsn)
     IN  /\ i < Len(segs)
         /\ alloc[p].lsn + MIN_LOG_BLOCK_SIZE > segs[i].end_offset

\* The ranges still to be written: the live nodes of the block list other
\* than the shutdown sentinel, less the doomed ones.
InFlight ==
  {[b |-> alloc[p].lsn, e |-> alloc[p].nxt] :
     p \in {q \in live \ {Daemon} : ~Doomed(q)}}

DL == INSTANCE DurableLog
        WITH Sizes <- BlockSizes, Origin <- 0,
             cur <- frontier, durable <- durable, mark <- dmark,
             pending <- InFlight, closed <- (dpc = "exited")

(* The allocator, the daemon and shutdown together implement DurableLog:   *)
(* every step hands out the next range at the frontier, retires ranges,    *)
(* advances the durable watermark only over settled ranges and only up to  *)
(* the frontier, moves the on-disk mark up to the watermark, shuts down a  *)
(* fully durable log, or restarts it from a point between the on-disk mark *)
(* and the watermark; any other step leaves all five unchanged.  This      *)
(* covers the scan, the red-zone crossing, the install race and the dead   *)
(* zone, the shutdown sentinel, the durable-mark updates and the           *)
(* constructor after a crash at once (P1-P3, P5, P10).                     *)
DurableLogSpec == DL!Spec

=============================================================================
