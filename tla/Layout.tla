------------------------------- MODULE Layout -------------------------------
(***************************************************************************)
(* How a file is cut into one segment per thread: get_segment_size         *)
(* (src/core/file.cpp) and the loop of get_status (src/main.cpp).  A       *)
(* segment holds the bytes start..(end - 1).                               *)
(***************************************************************************)
EXTENDS Integers, Sequences

CONSTANTS
  FileSizes,         \* the sizes a source file may have
  ThreadCounts,      \* what hardware_concurrency() may return, 0 included
  MIN_FILE_SEGMENTS  \* the size up to which a file is not cut (4 KB)

ASSUME LayoutAssumption ==
  /\ FileSizes \subseteq Nat
  /\ ThreadCounts \subseteq Nat
  /\ MIN_FILE_SEGMENTS \in Nat

VARIABLES
  total_file_size, thread_count,  \* the arguments of get_status
  pc,            \* "size", "loop", "done", or "fault" after a division by zero
  segment_size, remainder,        \* what get_segment_size returned
  start_byte,    \* where the next segment starts
  segments       \* the segments built so far, in that order

vars == <<total_file_size, thread_count, pc, segment_size, remainder,
          start_byte, segments>>

Small == total_file_size <= MIN_FILE_SEGMENTS

Init ==
  /\ total_file_size \in FileSizes
  /\ thread_count \in ThreadCounts
  /\ pc = "size"
  /\ segment_size = 0
  /\ remainder = 0
  /\ start_byte = 0
  /\ segments = <<>>

Least(a, b) == IF a <= b THEN a ELSE b
-----------------------------------------------------------------------------
(* The parts of a step that a plausible mistake would change have a name;  *)
(* a mistake stands in front of each, marked as a slip.  No specification  *)
(* uses a slip: each property a run checks is known to fail under one.     *)

QuotientRoundedUp == (total_file_size + thread_count - 1) \div thread_count   \* slip
Quotient == total_file_size \div thread_count

\* get_segment_size: a small file is not divided.
GetSegmentSize ==
  /\ pc = "size"
  /\ Small \/ thread_count > 0
  /\ pc' = "loop"
  /\ segment_size' = IF Small THEN total_file_size ELSE Quotient
  /\ remainder' = IF Small THEN 0 ELSE total_file_size % thread_count
  /\ UNCHANGED <<total_file_size, thread_count, start_byte, segments>>

\* file_size / 0 is undefined: it traps on x86 and yields some number on ARM,
\* where the loop over no threads then ignores it.
DivisionByZero ==
  /\ pc = "size"
  /\ ~Small
  /\ thread_count = 0
  /\ pc' \in {"fault", "loop"}
  /\ UNCHANGED <<total_file_size, thread_count, segment_size, remainder,
                 start_byte, segments>>

MoreToCutOneTooMany == Len(segments) <= thread_count              \* slip
MoreToCut == Len(segments) < thread_count

ExtraForNone == 0                                                 \* slip
\* The first remainder segments get one byte more.
Extra == IF remainder > Len(segments) THEN 1 ELSE 0

NextSize == segment_size + Extra

NextStart(end) == end

\* One iteration for i = Len(segments).
AddSegment ==
  LET end == start_byte + Least(NextSize, total_file_size) IN
  /\ pc = "loop" /\ MoreToCut
  /\ segments' = Append(segments, [start |-> start_byte, end |-> end])
  /\ start_byte' = NextStart(end)
  /\ UNCHANGED <<total_file_size, thread_count, pc, segment_size, remainder>>

Finish ==
  /\ pc = "loop"
  /\ Len(segments) = thread_count
  /\ pc' = "done"
  /\ UNCHANGED <<total_file_size, thread_count, segment_size, remainder,
                 start_byte, segments>>

Next == GetSegmentSize \/ DivisionByZero \/ AddSegment \/ Finish

Spec == Init /\ [][Next]_vars
-----------------------------------------------------------------------------
(* Properties. *)

Segment == [start : Nat, end : Nat]

\* Where the last of the segments ended.
LastEnd == IF segments = <<>> THEN 0 ELSE segments[Len(segments)].end

\* Every variable has its type, there are never more segments than threads, and
\* the loop stands where the last segment ended.
TypeOK ==
  /\ total_file_size \in Nat
  /\ thread_count \in Nat
  /\ pc \in {"size", "loop", "done", "fault"}
  /\ segment_size \in Nat
  /\ remainder \in Nat
  /\ start_byte \in Nat /\ start_byte = LastEnd
  /\ segments \in Seq(Segment)
  /\ Len(segments) <= thread_count

Holds(k, b) == segments[k].start <= b /\ b < segments[k].end

\* The tasks that direct_write runs in parallel share no byte and forget none:
\* when the loop is over, every byte of the file is in exactly one segment.
EveryByteOnce ==
  pc = "done" /\ thread_count > 0 =>
    \A b \in 0..(total_file_size - 1) :
      \E k \in 1..thread_count :
        /\ Holds(k, b)
        /\ \A l \in 1..thread_count : Holds(l, b) => l = k

\* No two segments overlap, even where they reach past the end of the file.
Disjoint ==
  \A k, l \in 1..Len(segments) :
    k < l => segments[k].end <= segments[l].start

\* Only a file too small to be cut has segments past its end: there, the first
\* segment is the file and every other one starts at or after its end.
PastTheEnd ==
  pc = "done" =>
    \A k \in 1..thread_count :
      IF Small THEN k > 1 => segments[k].start >= total_file_size
               ELSE segments[k].end <= total_file_size

Length(k) == segments[k].end - segments[k].start

\* No thread gets more than one byte more than another.
Balanced ==
  pc = "done" => \A k, l \in 1..thread_count : Length(k) - Length(l) <= 1
=============================================================================
