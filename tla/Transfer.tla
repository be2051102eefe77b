------------------------------ MODULE Transfer ------------------------------
(***************************************************************************)
(* write_segments and direct_write (src/core/file.cpp) over one            *)
(* file_transfer_status (include/file.h): one task per segment copies its  *)
(* bytes and reports its progress.  The pool is the executor that          *)
(* TaskExecutor specifies and the renderer the display of Display: here a  *)
(* submitted task may run, and a posted frame is only recorded.            *)
(*                                                                         *)
(* Bytes.  dest maps an offset of the destination to the offset of the     *)
(* source byte that was written there, Hole when none was.                 *)
(* copy_file_range writes any positive number of the bytes it was asked    *)
(* for; the adaptive buffer size only bounds that number.                  *)
(***************************************************************************)
EXTENDS Integers, FiniteSets, Functions

CONSTANTS
  Segments,          \* the segment ids
  Layouts,           \* [total, start, end, src]: the ranges get_status cut, and
                     \* the size of the source when it is copied
  UPDATE_THRESHOLD,  \* how many bytes a task copies between two reports
  MaxChunk,          \* bound: bytes copied by one call
  MaxFailures        \* bound: how many calls fail

\* What get_status hands over (Layout!EveryByteOnce, Layout!Disjoint).
LayoutOK(l) ==
  /\ l.total \in Nat /\ l.src \in Nat
  /\ l.start \in [Segments -> Nat] /\ l.end \in [Segments -> Nat]
  /\ \A s \in Segments : l.start[s] <= l.end[s]
  /\ \A s, t \in Segments :
       s # t => l.end[s] <= l.start[t] \/ l.end[t] <= l.start[s]
  /\ \A b \in 0..(l.total - 1) :
       \E s \in Segments : b \in l.start[s]..(l.end[s] - 1)

ASSUME TransferAssumption ==
  /\ IsFiniteSet(Segments)
  /\ \A l \in Layouts : LayoutOK(l)
  /\ UPDATE_THRESHOLD \in Nat \ {0}
  /\ MaxChunk \in Nat \ {0}
  /\ MaxFailures \in Nat

VARIABLES
  total_size, start_byte, end_byte, src_size,  \* the layout of this transfer
  dest,                        \* the destination file
  copied_offset, total_copied, \* the status, guarded by its lock_
  main,                        \* "submit", "pool", "renderer" or "returned"
  pc,                          \* where each task is in direct_write
  off_in, off_out,             \* its two file offsets
  remaining, bytes_threshold,  \* its loop variables
  total_read,                  \* what its last get_total_copied returned
  seg_frame,                   \* the last progress posted for each segment
  root_frames,                 \* the values posted for the whole file, in no order
  failed                       \* the tasks whose copy failed

layoutVars == <<total_size, start_byte, end_byte, src_size>>
statusVars == <<copied_offset, total_copied>>
loopVars == <<off_in, off_out, remaining>>
frameVars == <<total_read, seg_frame, root_frames>>
vars == <<layoutVars, dest, statusVars, main, pc, loopVars, bytes_threshold,
          frameVars, failed>>

Hole == -1

Zero == [s \in Segments |-> 0]

Init ==
  /\ \E l \in Layouts : /\ total_size = l.total
                        /\ start_byte = l.start
                        /\ end_byte = l.end
                        /\ src_size = l.src
  /\ dest = [b \in 0..(total_size - 1) |-> Hole]
  /\ copied_offset = Zero
  /\ total_copied = 0
  /\ main = "submit"
  /\ pc = [s \in Segments |-> "none"]
  /\ off_in = Zero
  /\ off_out = Zero
  /\ remaining = Zero
  /\ bytes_threshold = Zero
  /\ total_read = Zero
  /\ seg_frame = Zero
  /\ root_frames = {}
  /\ failed = {}

GoTo(s, label) == pc' = [pc EXCEPT ![s] = label]

LastCopiedByte(s) == copied_offset[s] + start_byte[s]

\* What a segment's bar shows.  end_byte is not a byte of the segment, but is
\* counted as one: the bar is one byte ahead, in what is done and in its total.
BarTotal(s) == end_byte[s] - start_byte[s] + 1
BarDonePlusOne(s) == BarTotal(s) - remaining[s] + 1  \* slip: off by one
BarDone(s) == BarTotal(s) - remaining[s]

\* slip: no off_out is passed, so that all tasks share the file's position
WrittenAtPosition(s, n) ==
  LET position == SumFunction(off_out) - SumFunction(start_byte)
      chunk == position..(position + n - 1)
  IN  [b \in DOMAIN dest \union chunk |->
         IF b \in chunk THEN off_in[s] + (b - position)
         ELSE IF b \in DOMAIN dest THEN dest[b] ELSE Hole]

\* The destination after copy_file_range moved n bytes for task s.
Written(s, n) ==
  LET chunk == off_out[s]..(off_out[s] + n - 1)
  IN  [b \in DOMAIN dest \union chunk |->
         IF b \in chunk THEN off_in[s] + (b - off_out[s])
         ELSE IF b \in DOMAIN dest THEN dest[b] ELSE Hole]

\* What a call that copies nothing returns: 0 at the end of the source, or an
\* error; nothing but the bound keeps a call from failing.
MayReturn(s, res) ==
  \/ res = 0 /\ off_in[s] >= src_size
  \/ res = -1 /\ Cardinality(failed) < MaxFailures

LeavesOnError(res) == res < 0  \* slip: spins at the end of the source
Leaves(res) == res <= 0

AllSubmitted == \A s \in Segments : pc[s] # "none"  \* slip: waits for none
AllFinished == \A s \in Segments : pc[s] = "finished"

KeepThreshold(s) == bytes_threshold[s]  \* slip: not reset
AfterReport(s) == 0
-----------------------------------------------------------------------------
(* write_segments. *)

Submit(s) ==
  /\ main = "submit"
  /\ pc[s] = "none"
  /\ GoTo(s, "queued")
  /\ UNCHANGED <<layoutVars, dest, statusVars, main, loopVars, bytes_threshold,
                 frameVars, failed>>

CallPoolStop ==
  /\ main = "submit"
  /\ \A s \in Segments : pc[s] # "none"
  /\ main' = "pool"
  /\ UNCHANGED <<layoutVars, dest, statusVars, pc, loopVars, bytes_threshold,
                 frameVars, failed>>

\* pool.stop() returns, if it does: every task has finished (TaskExecutor).
PoolStopped ==
  /\ main = "pool"
  /\ AllFinished
  /\ main' = "renderer"
  /\ UNCHANGED <<layoutVars, dest, statusVars, pc, loopVars, bytes_threshold,
                 frameVars, failed>>

\* So does renderer.stop(), and main returns 0 whatever the tasks did.
Return ==
  /\ main = "renderer"
  /\ main' = "returned"
  /\ UNCHANGED <<layoutVars, dest, statusVars, pc, loopVars, bytes_threshold,
                 frameVars, failed>>
-----------------------------------------------------------------------------
(* direct_write. *)

Begin(s) ==
  /\ pc[s] = "queued"
  /\ off_in' = [off_in EXCEPT ![s] = LastCopiedByte(s)]
  /\ off_out' = [off_out EXCEPT ![s] = LastCopiedByte(s)]
  /\ remaining' = [remaining EXCEPT ![s] = end_byte[s] - LastCopiedByte(s)]
  /\ GoTo(s, "copy")
  /\ UNCHANGED <<layoutVars, dest, statusVars, main, bytes_threshold, frameVars,
                 failed>>

\* A call that copies something, and the test whether to report it.
Copy(s) ==
  /\ pc[s] = "copy"
  /\ \E n \in 1..MaxChunk :
       /\ n <= remaining[s] /\ off_in[s] + n <= src_size
       /\ dest' = Written(s, n)
       /\ off_in' = [off_in EXCEPT ![s] = @ + n]
       /\ off_out' = [off_out EXCEPT ![s] = @ + n]
       /\ remaining' = [remaining EXCEPT ![s] = @ - n]
       /\ bytes_threshold' = [bytes_threshold EXCEPT ![s] = @ + n]
       /\ GoTo(s, IF bytes_threshold'[s] >= UPDATE_THRESHOLD THEN "account"
                  ELSE "copy")
  /\ UNCHANGED <<layoutVars, statusVars, main, frameVars, failed>>

\* res <= 0: the loop is left, at the end of the source or at any error, and
\* nobody is told.
Break(s, res) ==
  /\ pc[s] = "copy"
  /\ remaining[s] > 0
  /\ MayReturn(s, res) /\ Leaves(res)
  /\ failed' = failed \union {s}
  /\ GoTo(s, "finished")
  /\ UNCHANGED <<layoutVars, dest, statusVars, main, loopVars, bytes_threshold,
                 frameVars>>

LoopEnds(s) ==
  /\ pc[s] = "copy"
  /\ remaining[s] <= 0
  /\ GoTo(s, "finished")
  /\ UNCHANGED <<layoutVars, dest, statusVars, main, loopVars, bytes_threshold,
                 frameVars, failed>>

\* add_copied_byte, under lock_.
AddCopied(s) ==
  /\ pc[s] = "account"
  /\ copied_offset' = [copied_offset EXCEPT ![s] = @ + bytes_threshold[s]]
  /\ total_copied' = total_copied + bytes_threshold[s]
  /\ GoTo(s, "post")
  /\ UNCHANGED <<layoutVars, dest, main, loopVars, bytes_threshold, frameVars,
                 failed>>

PostSegment(s) ==
  /\ pc[s] = "post"
  /\ seg_frame' = [seg_frame EXCEPT ![s] = BarDone(s)]
  /\ GoTo(s, "read")
  /\ UNCHANGED <<layoutVars, dest, statusVars, main, loopVars, bytes_threshold,
                 total_read, root_frames, failed>>

\* get_total_copied, under lock_ again: other tasks may have added in between.
ReadTotal(s) ==
  /\ pc[s] = "read"
  /\ total_read' = [total_read EXCEPT ![s] = total_copied]
  /\ GoTo(s, "postroot")
  /\ UNCHANGED <<layoutVars, dest, statusVars, main, loopVars, bytes_threshold,
                 seg_frame, root_frames, failed>>

PostRoot(s) ==
  /\ pc[s] = "postroot"
  /\ root_frames' = root_frames \union {total_read[s]}
  /\ bytes_threshold' = [bytes_threshold EXCEPT ![s] = AfterReport(s)]
  /\ GoTo(s, "copy")
  /\ UNCHANGED <<layoutVars, dest, statusVars, main, loopVars, total_read,
                 seg_frame, failed>>
-----------------------------------------------------------------------------
\* The steps of a task whose calls do not fail.
Proceed(s) ==
  \/ Begin(s) \/ Copy(s) \/ Break(s, 0) \/ LoopEnds(s)
  \/ AddCopied(s) \/ PostSegment(s) \/ ReadTotal(s) \/ PostRoot(s)

DirectWrite(s) == Proceed(s) \/ Break(s, -1)

WriteSegments ==
  CallPoolStop \/ PoolStopped \/ Return \/ \E s \in Segments : Submit(s)

Next == WriteSegments \/ \E s \in Segments : DirectWrite(s)

Spec == Init /\ [][Next]_vars

\* Every submitted task gets to run (ThreadPool!EveryTaskRuns) and every call
\* returns; nothing makes a call fail but the end of the source.  Of main nothing
\* is asked: its joins may hang (ThreadPool!StopReturns, Renderer!StopReturns).
FairSpec == Spec /\ \A s \in Segments : WF_vars(Proceed(s))
-----------------------------------------------------------------------------
(* Properties. *)

\* Every variable has its type, and a task reports as soon as it may: it never
\* holds back a threshold and a whole chunk.
TypeOK ==
  /\ total_size \in Nat /\ src_size \in Nat
  /\ start_byte \in [Segments -> Nat] /\ end_byte \in [Segments -> Nat]
  /\ dest \in [DOMAIN dest -> {Hole} \union Nat] /\ DOMAIN dest \subseteq Nat
  /\ copied_offset \in [Segments -> Nat] /\ total_copied \in Nat
  /\ main \in {"submit", "pool", "renderer", "returned"}
  /\ pc \in [Segments -> {"none", "queued", "copy", "account", "post", "read",
                          "postroot", "finished"}]
  /\ off_in \in [Segments -> Nat] /\ off_out \in [Segments -> Nat]
  /\ remaining \in [Segments -> Nat]
  /\ bytes_threshold \in [Segments -> 0..(UPDATE_THRESHOLD + MaxChunk - 1)]
  /\ total_read \in [Segments -> Nat]
  /\ seg_frame \in [Segments -> Nat]
  /\ root_frames \subseteq Nat
  /\ failed \subseteq Segments

\* Whatever the interleaving, a byte of the destination is the byte of the source
\* at the same place or was not written, and none lies past the source's end but
\* those prepare_target_file made.
DestFaithful ==
  /\ \A b \in DOMAIN dest : dest[b] \in {Hole, b}
  /\ \A b \in DOMAIN dest : b < total_size \/ b < src_size

\* The tasks that copied and may not have reported yet.
Started(s) == pc[s] \notin {"none", "queued"}

\* The bytes a task copied and did not add to the status.
Unreported(s) ==
  IF pc[s] \in {"post", "read", "postroot"} THEN 0 ELSE bytes_threshold[s]

\* The status never runs ahead of the disk, so that a run resumed from it would
\* skip no byte; it lags by less than UPDATE_THRESHOLD when a task is not about
\* to report.  The bytes the task copied so far are all on disk, in its segment.
StatusBehindDisk ==
  \A s \in Segments : Started(s) =>
    /\ LastCopiedByte(s) + Unreported(s) = off_out[s]
    /\ pc[s] \in {"copy", "finished"} => Unreported(s) < UPDATE_THRESHOLD
    /\ off_out[s] + remaining[s] = end_byte[s]
    /\ \A b \in start_byte[s]..(off_out[s] - 1) : b \in DOMAIN dest /\ dest[b] = b

\* A segment's bar follows its status, one byte ahead: it counts one byte more
\* than the task has added, and catches up when the task posts.  All it counts but
\* that one are on disk, so that it is full only when the segment is copied.
SegmentBarsOneAhead ==
  \A s \in Segments :
    /\ pc[s] # "post" =>
         seg_frame[s] = IF copied_offset[s] = 0 THEN 0 ELSE copied_offset[s] + 1
    /\ seg_frame[s] <= BarTotal(s)
    /\ \A b \in start_byte[s]..(start_byte[s] + seg_frame[s] - 2) :
         b \in DOMAIN dest /\ dest[b] = b

\* No value posted for the whole file is more than was copied, and when no task is
\* between adding and posting, the current total is among them.  It need not be
\* the last of them: two reports may overtake each other.
TotalShown ==
  /\ \A v \in root_frames : v <= total_copied
  /\ (\A s \in Segments : pc[s] \notin {"post", "read", "postroot"}) =>
       total_copied \in root_frames \union {0}

\* What the tasks post follows what they copied, a segment's bar one byte ahead of
\* it and the file's never; the total that they share loses none of their updates.
BarsFollow ==
  SegmentBarsOneAhead /\ TotalShown /\ total_copied = SumFunction(copied_offset)

\* What a caller of write_segments may count on: FileCopy, where the bytes given
\* up are those of the segments whose task failed, from where it failed.  A failure
\* stops no other task and leaves no hole before the point where it happened.
GivenUp == UNION {off_out[s]..(end_byte[s] - 1) : s \in failed}
CallerView ==
  INSTANCE FileCopy WITH size <- total_size, given_up <- GivenUp,
                         returned <- (main = "returned")
Implements == CallerView!Spec

\* Every task that was submitted finishes, also when its source was truncated: no
\* loop copies or spins for ever.  Whether write_segments then returns is up to
\* the two joins.
TasksFinish == \A s \in Segments : (pc[s] = "queued") ~> (pc[s] = "finished")

\* "Handle EAGAIN/EINTR/EOF/errors": a call that fails does not make a transfer
\* that reports success incomplete.
FailuresHandled ==
  main = "returned" => \A b \in 0..(total_size - 1) : dest[b] = b
=============================================================================
