----------------------------- MODULE BufferSize -----------------------------
(***************************************************************************)
(* How much direct_write asks copy_file_range for (src/core/file.cpp):     *)
(* get_optimal_buffer_size and compute_transfer_speed, in the loop over    *)
(* one of the segments that Layout cut.  Transfer lets a call copy any     *)
(* positive part of what remains; here is why it may.                      *)
(*                                                                         *)
(* A throughput is a quotient <<bytes, nanoseconds>>, <<0, 1>> for none.   *)
(* The code compares quotients in floating point: where they are equal,    *)
(* rounding decides, and both branches are taken here.                     *)
(***************************************************************************)
EXTENDS Layout

CONSTANTS
  MIN_BUF_SIZE, MAX_BUF_SIZE, BASELINE_BUF_SIZE,
  HIGH_LATENCY_NS,
  Durations         \* how long a call may take, on a clock that may not advance

ASSUME BufferAssumption ==
  /\ MIN_BUF_SIZE \in Nat /\ MAX_BUF_SIZE \in Nat /\ BASELINE_BUF_SIZE \in Nat
  /\ 20 <= MIN_BUF_SIZE
  /\ MIN_BUF_SIZE <= BASELINE_BUF_SIZE /\ BASELINE_BUF_SIZE <= MAX_BUF_SIZE
  /\ HIGH_LATENCY_NS \in Nat \ {0}
  /\ Durations \subseteq Nat

VARIABLES
  task,                \* the segment that is copied, 0 before
  remaining,           \* its bytes that are not copied yet
  buffer_size,
  current_throughput,
  r_duration           \* of the last call, 0 before the first

bufferVars == <<task, remaining, buffer_size, current_throughput, r_duration>>
allVars == <<vars, bufferVars>>

NoThroughput == <<0, 1>>

BufferInit ==
  /\ Init
  /\ task = 0
  /\ remaining = 0
  /\ buffer_size = BASELINE_BUF_SIZE
  /\ current_throughput = NoThroughput
  /\ r_duration = 0
-----------------------------------------------------------------------------
Greatest(a, b) == IF a >= b THEN a ELSE b

compute_transfer_speed(bytes, ns) == IF ns = 0 THEN NoThroughput ELSE <<bytes, ns>>

Faster(size) == Least((size * 3) \div 2, MAX_BUF_SIZE)
SlowerUnbounded(size) == (size * 2) \div 3                        \* slip
Slower(size) == Greatest((size * 2) \div 3, MIN_BUF_SIZE)
Steady(size) == Least(Greatest((size * 21) \div 20, MIN_BUF_SIZE), MAX_BUF_SIZE)

\* The numerator and the denominator of the throughput ratio.
Ratio(current, prev) ==
  IF prev[1] > 0 THEN <<current[1] * prev[2], current[2] * prev[1]>> ELSE <<1, 1>>

LatencyIgnored(ns) == FALSE                                       \* slip
HighLatency(ns) == ns > HIGH_LATENCY_NS

\* What get_optimal_buffer_size may return.
OptimalSizes(current, prev, ns, size) ==
  LET r == Ratio(current, prev)
      up == ns < HIGH_LATENCY_NS /\ 20 * r[1] >= 21 * r[2]
      notUp == ns >= HIGH_LATENCY_NS \/ 20 * r[1] <= 21 * r[2]
      down == HighLatency(ns) \/ 20 * r[1] <= 19 * r[2]
      notDown == ~HighLatency(ns) /\ 20 * r[1] >= 19 * r[2]
  IN IF ns <= 0 \/ current[1] <= 0 THEN {BASELINE_BUF_SIZE}
     ELSE (IF up THEN {Faster(size)} ELSE {})
          \cup (IF notUp /\ down THEN {Slower(size)} ELSE {})
          \cup (IF notUp /\ notDown THEN {Steady(size)} ELSE {})
-----------------------------------------------------------------------------
(* direct_write, for its sizes. *)

Begin(k) ==
  /\ pc = "done" /\ task = 0
  /\ task' = k
  /\ remaining' = segments[k].end - segments[k].start
  /\ UNCHANGED <<vars, buffer_size, current_throughput, r_duration>>

r_size == Least(buffer_size, remaining)

\* A call that copies something; one that copies nothing ends the loop.
CopyFileRange(res, ns) ==
  /\ task # 0 /\ remaining > 0
  /\ res <= r_size
  /\ remaining' = remaining - res
  /\ current_throughput' = compute_transfer_speed(res, ns)
  /\ r_duration' = ns
  /\ buffer_size' \in OptimalSizes(current_throughput', current_throughput, ns, buffer_size)
  /\ UNCHANGED <<vars, task>>

Cut == Next /\ UNCHANGED bufferVars

DirectWrite ==
  \/ \E k \in 1..Len(segments) : Begin(k)
  \/ \E res \in 1..r_size, ns \in Durations : CopyFileRange(res, ns)

BufferSpec == BufferInit /\ [][Cut \/ DirectWrite]_allVars
-----------------------------------------------------------------------------
\* While bytes remain every call asks for some, and not for fewer than the least
\* size unless fewer are left: a request of 0 bytes would end the loop as if the
\* file had ended.  None asks for more than the largest size, or for bytes of
\* another segment.
RequestsBounded ==
  remaining > 0 =>
    /\ r_size \in 1..remaining
    /\ buffer_size \in MIN_BUF_SIZE..MAX_BUF_SIZE

\* bytes / nanoseconds of one throughput at least those of another.
AtLeast(current, prev) == current[1] * prev[2] >= current[2] * prev[1]

\* How a call steers the next one: a slow call is not followed by a larger
\* request, and a measurable quick one, no slower than the call before it, is
\* followed by a larger one unless that is the largest.  The size never gets
\* stuck at the least one, although it grows by a twentieth rounded down.
AdaptsToSpeed ==
  [][remaining' < remaining =>
       /\ r_duration' > HIGH_LATENCY_NS => buffer_size' <= buffer_size
       /\ (/\ r_duration' \in 1..(HIGH_LATENCY_NS - 1)
           /\ AtLeast(current_throughput', current_throughput)) =>
            buffer_size' > buffer_size \/ buffer_size' = MAX_BUF_SIZE]_allVars
=============================================================================
