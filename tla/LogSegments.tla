---------------------------- MODULE LogSegments ----------------------------
(***************************************************************************)
(* The contract of the segment manager (sm_log_recover_mgr), the external  *)
(* collaborator that maps LSN offsets to log segments.  Its code is not    *)
(* part of src/; these operators are written from the interface the       *)
(* allocator uses (spec sections 3, 4.D step 3 and 6) and from the comment *)
(* above sm_log_alloc_mgr::allocate that describes the blocks A..E around  *)
(* a segment change.                                                       *)
(*                                                                         *)
(* A segment descriptor is a record                                        *)
(*   [start_offset, end_offset, byte_offset]                               *)
(* and the installed segments form a sequence, oldest first; the segment   *)
(* number of segs[i] is i.  Byte offsets are contiguous across segments,   *)
(* LSN offsets are not: the range between the true end of one segment and  *)
(* the start of the next (the dead zone) has no physical home.             *)
(***************************************************************************)
EXTENDS Naturals, Sequences

CONSTANTS
  SegSize,            \* nominal LSN length of a segment
  MIN_LOG_BLOCK_SIZE  \* size of an empty block: header plus skip record

\* segment_id::buf_offset: the ring-buffer byte of an LSN offset in sid.
BufOffset(sid, off) == sid.byte_offset + off - sid.start_offset

\* segment_id::offset: the position of an LSN offset in the file of sid.
FileOffset(sid, off) == off - sid.start_offset

\* A segment installed after prev, starting at LSN offset start; its bytes
\* follow the true end of prev, which is start or, past the nominal end,
\* end_offset.
NewSegment(prev, start) ==
  [start_offset |-> start,
   end_offset   |-> start + SegSize,
   byte_offset  |-> BufOffset(prev, IF start < prev.end_offset THEN start
                                    ELSE prev.end_offset)]

\* The number of the newest installed segment that starts at or before b.
SegIndex(segs, b) ==
  CHOOSE i \in DOMAIN segs :
    /\ segs[i].start_offset <= b
    /\ \A j \in DOMAIN segs : j > i => segs[j].start_offset > b

\* Mutant: a range in the dead zone, behind a successor that another range
\* installed, is given the older segment as if it fitted.
AssignSegmentDeadZoneFits(segs, b, e) ==
  LET i == SegIndex(segs, b)
      s == segs[i]
      Install(start) == IF i = Len(segs) THEN Append(segs, NewSegment(s, start))
                                         ELSE segs
  IN  CASE e <= s.end_offset ->
             [sid |-> i, full_size |-> TRUE,
              segs |-> IF e + MIN_LOG_BLOCK_SIZE > s.end_offset THEN Install(e)
                                                              ELSE segs]
        [] b + MIN_LOG_BLOCK_SIZE <= s.end_offset ->
             [sid |-> i, full_size |-> FALSE, segs |-> Install(e)]
        [] b < s.end_offset ->
             [sid |-> 0, full_size |-> FALSE, segs |-> Install(e)]
        [] i = Len(segs) ->
             [sid |-> i + 1, full_size |-> TRUE, segs |-> Install(b)]
        [] OTHER ->
             [sid |-> i, full_size |-> TRUE, segs |-> segs]

(***************************************************************************)
(* assign_segment(begin, end): the result carries the segment number       *)
(* (0 for "no segment"), whether the whole range fits (full_size) and the  *)
(* segment table after any installation the call performs.  A range that  *)
(* reaches into the red zone (the last MIN_LOG_BLOCK_SIZE bytes) of the    *)
(* newest segment installs its successor, starting where the range ends:   *)
(* this is the reading under which "any request that lands in this red     *)
(* zone also ensures that the next segment has been created" (daemon) and  *)
(* ASSERT(newsz < nbytes) (allocate) both hold.                            *)
(*   - the range fits in its segment: a normal block (A, E);               *)
(*   - it straddles the end but leaves room for a skip record: the closer  *)
(*     (B), shrunk to fill the segment;                                    *)
(*   - it starts in the red zone: no segment;                              *)
(*   - it starts past the end of the newest segment: it wins the race to   *)
(*     install the successor, which starts at the block (D);               *)
(*   - it starts past the end of an older segment but before its           *)
(*     successor: it lost that race and lies in the dead zone (C).         *)
(***************************************************************************)
AssignSegment(segs, b, e) ==
  LET i      == SegIndex(segs, b)
      s      == segs[i]
      newest == i = Len(segs)
      redZone == e + MIN_LOG_BLOCK_SIZE > s.end_offset
      Install(start) == IF newest THEN Append(segs, NewSegment(s, start))
                                  ELSE segs
  IN  CASE e <= s.end_offset ->
             [sid |-> i, full_size |-> TRUE,
              segs |-> IF redZone THEN Install(e) ELSE segs]
        [] b + MIN_LOG_BLOCK_SIZE <= s.end_offset ->
             [sid |-> i, full_size |-> FALSE, segs |-> Install(e)]
        [] b < s.end_offset ->
             [sid |-> 0, full_size |-> FALSE, segs |-> Install(e)]
        [] newest ->
             [sid |-> i + 1, full_size |-> TRUE, segs |-> Install(b)]
        [] OTHER ->
             [sid |-> 0, full_size |-> FALSE, segs |-> segs]
=============================================================================
