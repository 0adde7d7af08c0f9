----------------------------- MODULE DurableLog -----------------------------
(***************************************************************************)
(* What sm_log_alloc_mgr promises its clients, without threads, segments   *)
(* or buffers (spec sections 2 and 8, P1-P5 and P10):                      *)
(*  - reserve: a new range is handed out at the frontier, which grows;     *)
(*  - retire: ranges leave the set of in-flight ranges when their owner    *)
(*    releases or discards them, or when they turn out to have no place    *)
(*    in any segment;                                                      *)
(*  - flush: the durable watermark advances, never past the start of an   *)
(*    in-flight range and never past the frontier;                         *)
(*  - persist: the on-disk durable mark follows the watermark;             *)
(*  - close: the log shuts down only when everything is durable;          *)
(*  - restart: after a crash the log resumes from a point between the      *)
(*    on-disk mark and the watermark, with nothing in flight.              *)
(***************************************************************************)
EXTENDS Naturals, FiniteSets

CONSTANTS
  Sizes,     \* the lengths a reservation may have
  Origin     \* the durable offset recovery starts from

VARIABLES
  cur,       \* the frontier: every offset below it has been handed out
  durable,   \* the durable watermark
  mark,      \* the durable mark recorded on disk
  pending,   \* in-flight ranges [b, e)
  closed     \* the log has shut down

vars == <<cur, durable, mark, pending, closed>>

Range(b, e) == [b |-> b, e |-> e]

Init ==
  /\ cur = Origin /\ durable = Origin /\ mark = Origin
  /\ pending = {}
  /\ closed = FALSE

Reserve ==
  /\ ~closed
  /\ \E n \in Sizes :
       /\ pending' = pending \cup {Range(cur, cur + n)}
       /\ cur' = cur + n
  /\ UNCHANGED <<durable, mark, closed>>

Retire ==
  /\ \E done \in SUBSET pending :
       /\ done # {}
       /\ pending' = pending \ done
  /\ UNCHANGED <<cur, durable, mark, closed>>

\* Everything below an offset is settled when no in-flight range starts
\* below it.
Settled(x) == \A r \in pending : x <= r.b

Flush ==
  /\ \E x \in durable + 1 .. cur :
       /\ Settled(x)
       /\ durable' = x
  /\ UNCHANGED <<cur, mark, pending, closed>>

Persist ==
  /\ \E x \in mark + 1 .. durable : mark' = x
  /\ UNCHANGED <<cur, durable, pending, closed>>

Close ==
  /\ ~closed
  /\ durable = cur
  /\ pending = {}
  /\ closed' = TRUE
  /\ UNCHANGED <<cur, durable, mark, pending>>

Restart ==
  /\ \E m \in mark .. durable :
       /\ cur' = m /\ durable' = m /\ mark' = m
  /\ pending' = {}
  /\ closed' = FALSE

Next == Reserve \/ Retire \/ Flush \/ Persist \/ Close \/ Restart

Spec == Init /\ [][Next]_vars
=============================================================================
