# TLA+ model of the ERMIA log allocator (`src/dbcore/sm-log-alloc.cpp`)

This directory models `sm_log_alloc_mgr`, the write-ahead-log allocator.
Producer threads reserve log blocks, fill them and release them. One daemon
thread writes the released prefix of the log to disk, advances the durable
watermark and wakes waiters.

## 1. Inventory

### Parts and how they interact

| Part | Code | State that matters |
|---|---|---|
| Allocator | `allocate`, `release`, `discard` | per thread: its block (`lsn_offset`, `next_lsn_offset`, segment, full/shrunk), its program point |
| Durability waits | `wait_for_durable`, `update_durable_mark`, `dur_lsn_offset` | `_waiting_for_durable`, `_waiting_for_dmark`, the target of each waiter |
| Log write daemon | `_log_write_daemon`, `_kick_log_write_daemon` | `_durable_lsn_offset`, `durable_sid`, `durable_byte`, its locals `cur_offset` and `oldest_offset`, `_write_daemon_wait_count` and `_kick_count` |
| Constructor / destructor | `sm_log_alloc_mgr`, `get_starting_byte_offset`, `~sm_log_alloc_mgr` | the recovered durable mark, the ring buffer's start, `_write_daemon_should_stop` |
| Block list (external) | `rcu_block_list` | live nodes, the tail, the frontier `cur_lsn_offset()` |
| Segment manager (external) | `sm_log_recover_mgr` | the installed segments, the on-disk durable mark |
| Ring buffer (external) | `window_buffer` | the reader cursor `read_begin` and the window size |

How they interact:

- A producer gets its LSN offset by pushing a node onto the lock-free block
  list. The callback of the push copies the predecessor's `next_lsn_offset`.
- The producer then asks the segment manager for a segment and claims ring
  buffer space. If space is short, it waits for the daemon on
  `_write_complete_cond`.
- The daemon walks the list for the oldest live block and writes everything
  before it. Crossing a segment's red zone, it moves to the next segment.
- The daemon sleeps on `_write_daemon_cond`. Producers and the destructor
  wake it through the kick counters, under `_write_daemon_mutex`. `release()`
  tests those counters without the mutex.

### Hard behaviours

- Producers push, release and retry concurrently with the daemon's scan.
- The daemon scans with no lock, then decides to sleep under the mutex.
- Wakeups are conditional on counters read without the lock.
- Blocks race to install the next segment (blocks A to E in the comment above
  `allocate`). The daemon crosses a red zone.
- At shutdown the daemon pushes a sentinel, and a producer may race it.
- The ring buffer can be full.
- `needed` is computed in `uint64_t`.
- `os_pwrite` can return short.
- The process can crash at any point. The next constructor starts from what
  is on disk: the segment files and the durable mark.

## 2. Modules

| Module | Models |
|---|---|
| `LogSegments` | The contract of the segment manager: `assign_segment` (fit, closer, red zone, install winner, dead zone), installing segments, and `buf_offset`. These are written from the spec and the comment above `allocate`, because that code is not in `src/`. |
| `LogAllocMgr` | Producers, the daemon and the destructor. One action per step between two points where another thread can act. |
| `DurableLog` | The abstract log the allocator promises: a frontier, in-flight ranges, a durable watermark, the on-disk mark, shutdown and restart. No threads, segments or buffers. |
| `MCLogAllocMgr` | Two or three producers as model values, plus symmetry. |

### How LogAllocMgr's state maps to the code

- **Block list.** `live` is the set of actors whose node is live. `alloc[p]`
  is a producer's range, and the daemon's shutdown node sits at `sentinel`.
  `tail` is who pushed last, and `frontier` is `cur_lsn_offset()`. Dead
  nodes cannot be seen by the code and are not kept.
- **Segment manager.** `segs` is the segment table and `dmark` is the on-disk
  durable mark.
- **Ring buffer.** `readBegin` is the reader cursor. `write_buf(b, n)`
  succeeds iff `b + n <= readBegin + WindowSize`.
- **Daemon.** `durable` is `_durable_lsn_offset` and `wfd`/`wfdm` are the
  waiting-for fields. `dsid` and `dbyte` are `durable_sid` and
  `durable_byte`. `curOff` and `oldest` are the loop locals, and `dnew` holds
  `new_sid` and `new_offset` between the write and the locked publish.
- **Kick counters.** `kickLag = wait_count - kick_count`. Every test in the
  code compares the two counters, so only their difference is kept.
  `daemonAsleep` and `cvWaiters` are the waiters of the two condition
  variables.
- **Locations.** `pc[p]` is where a producer is, and `dpc` is where the daemon
  is.
- **Construction.** `Boot(S, m)` is the state the constructor and the
  daemon's prologue leave when recovery left the segment table `S` and the
  durable mark `m`:
  - the ring buffer's reader cursor is at `get_starting_byte_offset`;
  - the watermark and the frontier are at `m`;
  - `durable_sid` is the mark's segment, and `durable_byte` is `buf_offset(m)`.

  `Init` is a fresh log at offset 0. `Restart` is a crash followed by a new
  construction; `restarts` counts them, up to `MaxRestarts`.
- **Discard.** `discard()` rewrites the block as an empty one (contents are
  not modelled) and then releases it, so `Discard` is `Release` under
  another name; both start with `RemoveFast`, the `remove_fast` of the node.
- **Variable groups.** `prodVars`, `listVars`, `segVars`, `waitVars` and
  `daemonVars` group the variables of the producers, the block list, the
  segment manager and ring buffer, the wait/kick protocol and the daemon's
  locals, so each action's `UNCHANGED` names what it leaves alone.
- **History.** `written` holds the ring bytes that blocks have filled
  (added at `remove_fast`, when release or discard marks the node dead) and
  that the reader has not passed. It is not in the code; `FlushedBytesWritten`
  uses it to check that the daemon never writes a hole into the log. The
  one kind of unwritten byte the daemon does flush is the tail of a segment
  after its red zone starts. A range starting there gets no segment and is
  dropped. No empty block fits there, so recovery moves on to the next
  segment without reading those bytes.
- **Fatal exits.** `fatal` records a DIE, a failed ASSERT or an uncaught
  throw. A fatal exit ends the process (`Terminated`).

Each mutex critical section is one step, except in two places where the mutex
is held across a step boundary:

- The daemon holds it from the sentinel push to `remove_and_kill` (`dpc =
  "kill"`), because producers push without the mutex in between.
- A producer holds it in `update_durable_mark` from its test to its wait
  (`pc = "udmsleep"`), because the daemon moves the mark and broadcasts
  without the mutex.

A flush round is two steps, as in the code:

- `DaemonWrite`: the ASSERTs, the write and `advance_reader`.
- `DaemonPublish`: under the mutex, the broadcast and the watermark update.

The segment-manager call inside `AssignSeg` is atomic. For `assign_segment`
the model uses this reading: a range that reaches into the red zone of the
newest segment installs the successor, which starts where the range ends.
This is the only reading under which both of these hold:

- the daemon's comment "any request that lands in this red zone also ensures
  that the next segment has been created";
- `ASSERT(newsz < nbytes)` in `allocate`.

If only straddling blocks installed segments, the daemon would cross into a
segment that does not exist yet whenever a full block ended in the red zone.

### Crash and restart

Only the segment files and the on-disk durable mark survive a crash.
Recovery belongs to the segment manager and is out of scope, so what it
leaves is a nondeterministic choice:

- the mark stays where it was, or moves to the old watermark (recovery
  scanned the blocks the daemon wrote past it);
- segments installed after the mark's segment are dropped. If
  `RecoveryKeepsSegments` is set, they may also be kept.

`segment_id::offset` is the position within the segment's file, per the
spec's contract. `LogSegments` models it as `FileOffset`.

### The abstract specification and the refinement

`DurableLog` states what the allocator promises:

- `Reserve` hands out a range at the frontier.
- `Retire` drops in-flight ranges.
- `Flush` moves the watermark up to a point no in-flight range starts below,
  and never past the frontier.
- `Persist` moves the on-disk mark up to the watermark.
- `Close` shuts down a log with nothing in flight and everything durable.
- `Restart` resumes from a point between the mark and the watermark, with
  nothing in flight.

`LogAllocMgr` maps onto it as follows:

- `cur` is the frontier, `durable` the watermark and `mark` the on-disk mark.
- `closed` means the daemon has exited.
- `pending` is `InFlight`: the live nodes of the block list, without the
  shutdown sentinel and without the doomed ones.

A node is doomed when it waits for `assign_segment` and starts in the red or
dead zone of a segment that already has a successor. The answer can then
only be "no segment", and the daemon's crossing may already have jumped the
watermark over it. `DurableLogSpec` (`DL!Spec`) is checked as a temporal
property.

## 3. Runs

Bounds (`MCLogAllocMgr_*.cfg`), in 8-byte units:

| Constant | Value |
|---|---|
| producers | 2 |
| empty block | 2 |
| request sizes | 2 or 3 |
| segment | 5 |
| ring buffer | 3 |
| allocations end by | 8 (6 in `progress`) |
| `uint64_t` | 5 bits |
| spurious daemon wakeups | at most 2 outstanding (1 in `progress`) |
| restarts | 0, or 1 in `refinement_deadzone` and the `restart*` runs |

Why these bounds are enough:

- Two blocks already overflow the buffer.
- The first segment ends after two or three blocks. So with two producers
  a range fits, closes a segment, starts in a red zone, or wins the install
  race.
- Losing the race (the dead zone, block C in the comment above `allocate`)
  needs a closer, C and the winner in flight together. `refinement_deadzone`
  therefore uses three producers, blocks of 3 and allocations up to 12.
  Forcing `Doomed` to FALSE makes that run fail within seconds, which shows
  the case is reached. The two-producer runs never reach it.
- `ClientWaits` lets callers wait for durability after a release.
  `refinement_deadzone` and the `restart*` runs turn it off to stay small.
  The other runs cover the waits.
- Every action fires in `safety`.

| Run | Expect | Properties | What it shows |
|---|---|---|---|
| `safety` | pass | `TypeOK`, `NoUnwrittenBlockFlushed`, `BlocksOwnDisjointBytes`, `CrossingSegmentInstalled`, `ExitOnlyWhenFlushed`, `FlushedBytesWritten` | No two blocks that own ring-buffer space share a byte, so a segment's closing block is shrunk exactly to the segment end. `advance_reader` never passes a byte no block wrote, except the red-zone tail of a segment. The daemon never flushes past an unwritten block, even across red-zone crossings, install races and short writes. A crossing always finds the next segment. The daemon exits only when the whole log is durable. About 1.5M states. |
| `progress` | pass | `ThreadsProgress` | No producer blocks forever in `allocate` or the durable waits. The defensive broadcast on the daemon's idle path rescues every waiter that missed a wakeup. |
| `released` | violation | `ReleasedBlocksBecomeDurable` | A release between the daemon's scan and its sleep gives no kick, and the block stays volatile. |
| `shutdown` | violation | `ShutdownCompletes` | In the same window the destructor's kick is dropped, so `pthread_join` hangs. |
| `cleanshutdown` | violation | `CleanShutdown` | `needed` wraps for blocks starting below `window_size()`, and a clean shutdown then DIEs. |
| `latealloc` | violation | `SentinelOnlyWhileKilling` | A block slipping in at shutdown leaves the sentinel live, pinning `oldest_offset`. |
| `refinement` | pass | `DurableLogSpec` | With client waits and short writes, the allocator, the daemon and shutdown implement `DurableLog`. About 3M states, 2 minutes. |
| `refinement_deadzone` | pass | `DurableLogSpec` | With three producers, a range left in the dead zone is retired, and the daemon's crossing jumps the watermark over it. One crash at any point, then a new constructor run, is allowed too. Across the restart step the mapping holds by construction (frontier, watermark and mark all move to the recovered point), so this run says nothing about crash hazards beyond exercising the fault action. About 590K states with symmetry, 2.5 minutes. |
| `restartreader` | violation | `ReaderAtDurable` | After a restart with the mark in segment 2, the ring buffer starts at the mark's file offset, but the daemon expects its ring byte. The first flush fails `ASSERT(durable_byte == read_begin)`. |
| `restartsegs` | violation | `DurableWithinFrontier` | Suppose recovery keeps a segment past the mark's segment. Then the red-zone crossing moves the watermark past the rewound frontier. |
| `dmarkrefresh` | violation | `DurableMarkRefreshed` | After the last flush the daemon sleeps on `_write_daemon_cond`, which has no timeout. The "every 100 ms" refresh at the top of the loop never runs again, and the on-disk durable mark stays behind `_durable_lsn_offset` while the log is idle. |

The `LateAlloc` constant allows allocation after the stop flag. Only
`latealloc` sets it, because the class comment puts that case outside the
contract. `ShortWrites` allows short `os_pwrite` results; the `safety` run
turns it on.

Each property of a passing run has a mutant in `PROJECT.json`:

- an unguarded kick;
- the scan keeping the first live node instead of the last;
- the crossing test using `<=`;
- a closing block keeping its requested size instead of `end_offset - lsn_offset`;
- an undersized block dropped with `remove_fast` instead of written and discarded;
- the shutdown recheck using the stale `cur_offset`;
- the durable wait using `<=`;
- the daemon's walk skipping nodes not yet assigned a segment (the three
  refinement runs);
- the segment manager giving a dead-zone range the older segment
  (`refinement_deadzone`).

Symmetry in the refinement runs is sound: `DurableLogSpec` is a safety
property, and the mapping treats producers alike.

TLC finds each mutant violating its property.

### Fairness

Each thread is sequential, so fairness is stated per thread. `ProducerSteps(p)`
and `DaemonSteps` are strongly fair: a thread that can take a step infinitely
often eventually takes one. This assumes a fair scheduler and a
starvation-free `_write_daemon_mutex`.

Strong fairness is needed because the mutex is held across a step boundary in
`update_durable_mark`. Under weak fairness, a producer cycling through
spurious wakeups could keep the daemon off the mutex forever. That is lock
starvation, not a flaw of the allocator's protocol.

What is not fair:

- New allocations, because clients may stop logging at any time.
- `Shutdown`.
- Spurious wakeups.
- Short writes.
- Crashes.

`Release` is fair because `allocate()`'s contract makes the caller release its
block. The timer in `DaemonTop` is a free choice, so the model never relies on
the 100 ms mark refresh. The `wait` on `_write_daemon_cond` has no timeout
either.

Runs that check invariants use `CHECK_DEADLOCK FALSE`, because a quiet system
really stops with the daemon asleep. Liveness runs use no symmetry.

## 4. Not modelled

Not modelled:

- Record contents, checksums and skip-record encoding.
- File descriptors.
- The ring buffer's writer cursor. The spec gives `write_end()` no
  meaning, so `ASSERT(new_byte <= _logbuf.write_end())` is left out.
- Segment recycling (`NUM_LOG_SEGMENTS`).
- The lock-free internals of the block list, which is not in `src/`.
- The recovery scan itself. Its outcome is a nondeterministic choice; see
  "Crash and restart".

Not done, and why:

- A version with the lost-wakeup windows closed would not be translated
  from this code, so it is not part of the project. The `released`
  and `shutdown` counterexamples show the windows.
- A property about what a crash leaves. Recovery is not in `src/`, and
  its outcome is a choice between the on-disk mark and the old watermark.
  A restart onto that point refines `DurableLog` by construction, so no
  passing run claims anything about the crash hazards (lines 46 and 507).
  The only claims about the state a restart leaves are `ReaderAtDurable`
  and `DurableWithinFrontier`, in the `restartreader` and `restartsegs`
  runs. After a restart into segment 2, every flush dies on
  `ASSERT(durable_byte == read_begin)`, so the post-crash behaviours a
  passing run could check are cut short there.
- Liveness across a restart. The liveness runs keep `MaxRestarts = 0` to
  stay within their time budget.
- The rest of the source that is not mapped has no state to model: the
  long comments, the thread thunk, and the `os_close`/`open_for_write` of
  the segment file (lines 460-465).
