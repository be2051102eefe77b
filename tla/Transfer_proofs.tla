--------------------------- MODULE Transfer_proofs ---------------------------
(***************************************************************************)
(* Proofs about Transfer: for every set of segments that lie apart and     *)
(* cover the file, every size the source has meanwhile and any number of   *)
(* failing calls.                                                          *)
(***************************************************************************)
EXTENDS Transfer, Induction

\* The segments are those of a layout.
Apart ==
  /\ \A s \in Segments : start_byte[s] <= end_byte[s]
  /\ \A s, t \in Segments :
       s # t => end_byte[s] <= start_byte[t] \/ end_byte[t] <= start_byte[s]
  /\ \A b \in 0..(total_size - 1) :
       \E s \in Segments : start_byte[s] <= b /\ b < end_byte[s]

\* A task's two offsets are equal, and between what the status says, the task
\* holds back and is still to be copied, no byte of its segment is missing.
OffsetsAgree ==
  \A s \in Segments :
    /\ ~Started(s) => copied_offset[s] = 0 /\ bytes_threshold[s] = 0
    /\ Started(s) =>
         /\ off_in[s] = off_out[s]
         /\ LastCopiedByte(s) + Unreported(s) = off_out[s]
         /\ off_out[s] + remaining[s] = end_byte[s]
    /\ pc[s] \in {"copy", "finished"} => bytes_threshold[s] < UPDATE_THRESHOLD

\* Byte b is in the destination.
OnDisk(b) == b \in DOMAIN dest /\ dest[b] # Hole

\* What a task is past is in the destination, and of its segment nothing else is.
CopiedUpToOffset ==
  \A s \in Segments : \A b \in start_byte[s]..(end_byte[s] - 1) :
    OnDisk(b) <=> Started(s) /\ b < off_out[s]

\* A task ends with nothing left or because a call failed, and the transfer when
\* all have ended.
EndsAgree ==
  /\ \A s \in Segments : pc[s] = "finished" => s \in failed \/ remaining[s] = 0
  /\ \A s \in failed : pc[s] = "finished"
  /\ main \in {"renderer", "returned"} => AllFinished

\* A bar counts one byte more than the task is past.
FramesBehind ==
  \A s \in Segments : seg_frame[s] # 0 =>
    Started(s) /\ start_byte[s] + seg_frame[s] <= off_out[s] + 1

\* The total is the sum of what the tasks added to the status and at least all that
\* was read of it, and it was shown or a task is on the way to show it.
TotalAgrees ==
  /\ total_copied = SumFunction(copied_offset)
  /\ \A v \in root_frames : v <= total_copied
  /\ \A s \in Segments : total_read[s] <= total_copied
  /\ \/ total_copied \in root_frames \union {0}
     \/ \E s \in Segments :
          \/ pc[s] \in {"post", "read"}
          \/ pc[s] = "postroot" /\ total_read[s] = total_copied

IInv ==
  /\ TypeOK /\ Apart /\ DestFaithful
  /\ OffsetsAgree /\ CopiedUpToOffset /\ EndsAgree /\ FramesBehind
-----------------------------------------------------------------------------
(* One call of copy_file_range. *)

\* The call of task s that copied n bytes.
CopyBy(s, n) ==
  /\ pc[s] = "copy"
  /\ n \in 1..MaxChunk /\ n <= remaining[s] /\ off_in[s] + n <= src_size
  /\ dest' = Written(s, n)
  /\ off_in' = [off_in EXCEPT ![s] = @ + n]
  /\ off_out' = [off_out EXCEPT ![s] = @ + n]
  /\ remaining' = [remaining EXCEPT ![s] = @ - n]
  /\ bytes_threshold' = [bytes_threshold EXCEPT ![s] = @ + n]
  /\ GoTo(s, IF bytes_threshold'[s] >= UPDATE_THRESHOLD THEN "account" ELSE "copy")
  /\ UNCHANGED <<layoutVars, statusVars, main, frameVars, failed>>

\* It writes the bytes behind the offset, each to its own place, and no others.
LEMMA CopyEffect ==
  ASSUME IInv, NEW s \in Segments, NEW n, CopyBy(s, n)
  PROVE  LET chunk == off_out[s]..(off_out[s] + n - 1)
         IN  /\ n \in Nat \ {0}
             /\ chunk \subseteq Nat
             /\ DOMAIN dest' = DOMAIN dest \union chunk
             /\ \A b \in chunk : dest'[b] = b /\ b < src_size
             /\ \A b \in DOMAIN dest \ chunk : dest'[b] = dest[b]
             /\ start_byte[s] <= off_out[s] /\ off_out[s] + n <= end_byte[s]
<1> DEFINE chunk == off_out[s]..(off_out[s] + n - 1)
<1>1. /\ off_out[s] \in Nat /\ off_in[s] \in Nat /\ remaining[s] \in Nat
      /\ start_byte[s] \in Nat /\ end_byte[s] \in Nat /\ src_size \in Nat
      /\ copied_offset[s] \in Nat /\ bytes_threshold[s] \in Nat
  BY TransferAssumption DEF IInv, TypeOK
<1>2. n \in Nat \ {0} /\ n <= remaining[s] /\ off_in[s] + n <= src_size
  BY TransferAssumption DEF CopyBy
<1>3. /\ off_in[s] = off_out[s]
      /\ LastCopiedByte(s) + Unreported(s) = off_out[s]
      /\ off_out[s] + remaining[s] = end_byte[s]
  BY DEF CopyBy, IInv, OffsetsAgree, Started
<1>4. start_byte[s] <= off_out[s] /\ off_out[s] + n <= end_byte[s]
  BY <1>1, <1>2, <1>3 DEF LastCopiedByte, Unreported
<1>5. chunk \subseteq Nat /\ \A b \in chunk : b < src_size
  BY <1>1, <1>2, <1>3
<1>6. dest' = Written(s, n)
  BY DEF CopyBy
<1>7. \A b \in chunk : off_in[s] + (b - off_out[s]) = b
  BY <1>1, <1>3
<1> HIDE DEF chunk
<1>8. /\ DOMAIN dest' = DOMAIN dest \union chunk
      /\ \A b \in chunk : dest'[b] = b
      /\ \A b \in DOMAIN dest \ chunk : dest'[b] = dest[b]
  BY <1>6, <1>7 DEF Written, chunk
<1>9. QED
  BY <1>2, <1>4, <1>5, <1>8 DEF chunk

LEMMA CopyIsBy == \A s \in Segments : Copy(s) => \E n : CopyBy(s, n)
BY DEF Copy, CopyBy
-----------------------------------------------------------------------------
(* The invariant, one part after the other. *)

LEMMA InitInvariant == Init => IInv
<1> SUFFICES ASSUME Init
             PROVE  IInv
  OBVIOUS
<1> PICK l \in Layouts : /\ total_size = l.total
                         /\ start_byte = l.start
                         /\ end_byte = l.end
                         /\ src_size = l.src
  BY DEF Init
<1>1. LayoutOK(l)
  BY TransferAssumption
<1>2. /\ total_size \in Nat /\ src_size \in Nat
      /\ start_byte \in [Segments -> Nat] /\ end_byte \in [Segments -> Nat]
  BY <1>1 DEF LayoutOK
<1>3. Apart
  <2>1. ASSUME NEW b \in 0..(total_size - 1)
        PROVE  \E s \in Segments : start_byte[s] <= b /\ b < end_byte[s]
    <3>1. PICK s \in Segments : b \in start_byte[s]..(end_byte[s] - 1)
      BY <1>1 DEF LayoutOK
    <3>2. QED
      BY <1>2, <3>1
  <2>2. QED
    BY <1>1, <2>1 DEF LayoutOK, Apart
<1>4. \A s \in Segments : ~Started(s)
  BY DEF Init, Started
<1>5. TypeOK
  BY <1>2, TransferAssumption DEF Init, TypeOK, Zero, Hole
<1>6. \A b \in DOMAIN dest : ~OnDisk(b) /\ b < total_size /\ dest[b] = Hole
  BY <1>2 DEF Init, OnDisk
<1>7. QED
  BY <1>3, <1>4, <1>5, <1>6, TransferAssumption
     DEF Init, IInv, DestFaithful, OffsetsAgree, OnDisk, CopiedUpToOffset, EndsAgree,
         FramesBehind, Zero
-----------------------------------------------------------------------------
LEMMA CopyPreserves ==
  ASSUME IInv, NEW s \in Segments, NEW n, CopyBy(s, n)
  PROVE  IInv'
<1> DEFINE chunk == off_out[s]..(off_out[s] + n - 1)
<1>1. /\ n \in Nat \ {0}
      /\ chunk \subseteq Nat
      /\ DOMAIN dest' = DOMAIN dest \union chunk
      /\ \A b \in chunk : dest'[b] = b /\ b < src_size
      /\ \A b \in DOMAIN dest \ chunk : dest'[b] = dest[b]
      /\ start_byte[s] <= off_out[s] /\ off_out[s] + n <= end_byte[s]
  BY CopyEffect
<1>2. /\ off_out[s] \in Nat /\ off_in[s] \in Nat /\ remaining[s] \in Nat
      /\ start_byte[s] \in Nat /\ end_byte[s] \in Nat /\ src_size \in Nat
      /\ copied_offset[s] \in Nat /\ bytes_threshold[s] \in Nat
      /\ UPDATE_THRESHOLD \in Nat \ {0} /\ MaxChunk \in Nat \ {0}
      /\ n <= MaxChunk /\ n <= remaining[s]
  BY TransferAssumption DEF IInv, TypeOK, CopyBy
<1>3. /\ off_out'[s] = off_out[s] + n /\ off_in'[s] = off_in[s] + n
      /\ remaining'[s] = remaining[s] - n
      /\ bytes_threshold'[s] = bytes_threshold[s] + n
      /\ pc[s] = "copy" /\ pc'[s] \in {"copy", "account"}
      /\ pc'[s] = "copy" <=> bytes_threshold[s] + n < UPDATE_THRESHOLD
  BY <1>2 DEF CopyBy, IInv, TypeOK, GoTo
<1>4. \A t \in Segments \ {s} :
        /\ off_out'[t] = off_out[t] /\ off_in'[t] = off_in[t]
        /\ remaining'[t] = remaining[t] /\ bytes_threshold'[t] = bytes_threshold[t]
        /\ pc'[t] = pc[t]
  BY DEF CopyBy, IInv, TypeOK, GoTo
<1>5. UNCHANGED <<layoutVars, statusVars, main, frameVars, failed>>
  BY DEF CopyBy
<1>6. bytes_threshold[s] < UPDATE_THRESHOLD
  BY <1>3 DEF IInv, OffsetsAgree
<1>7. TypeOK'
  <2>1. dest' \in [DOMAIN dest' -> {Hole} \union Nat] /\ DOMAIN dest' \subseteq Nat
    <3>1. dest' = [b \in DOMAIN dest' |-> dest'[b]]
      BY DEF CopyBy, Written
    <3>2. \A b \in DOMAIN dest' : dest'[b] \in {Hole} \union Nat
      BY <1>1 DEF IInv, TypeOK
    <3>3. DOMAIN dest' \subseteq Nat
      BY <1>1 DEF IInv, TypeOK
    <3>4. QED
      BY <3>1, <3>2, <3>3
  <2>2. /\ off_in' \in [Segments -> Nat] /\ off_out' \in [Segments -> Nat]
        /\ remaining' \in [Segments -> Nat]
    BY <1>1, <1>2 DEF CopyBy, IInv, TypeOK
  <2>3. bytes_threshold' \in [Segments -> 0..(UPDATE_THRESHOLD + MaxChunk - 1)]
    <3>1. bytes_threshold[s] + n \in 0..(UPDATE_THRESHOLD + MaxChunk - 1)
      BY <1>1, <1>2, <1>6
    <3>2. QED
      BY <3>1 DEF CopyBy, IInv, TypeOK
  <2>4. pc' \in [Segments -> {"none", "queued", "copy", "account", "post", "read",
                              "postroot", "finished"}]
    BY DEF CopyBy, IInv, TypeOK, GoTo
  <2>5. QED
    BY <1>5, <2>1, <2>2, <2>3, <2>4
       DEF IInv, TypeOK, layoutVars, statusVars, frameVars
<1>8. Apart'
  BY <1>5 DEF IInv, Apart, layoutVars
<1>9. DestFaithful'
  BY <1>1, <1>5 DEF IInv, DestFaithful, layoutVars
<1>10. \A t \in Segments : Started(t)' <=> Started(t)
  BY <1>3, <1>4 DEF Started
<1>11. OffsetsAgree'
  <2>1. ASSUME NEW t \in Segments \ {s}
        PROVE  /\ Unreported(t)' = Unreported(t)
               /\ LastCopiedByte(t)' = LastCopiedByte(t)
    BY <1>4, <1>5 DEF Unreported, LastCopiedByte, statusVars, layoutVars
  <2>2. /\ Unreported(s) = bytes_threshold[s]
        /\ Unreported(s)' = bytes_threshold[s] + n
        /\ LastCopiedByte(s) = copied_offset[s] + start_byte[s]
        /\ LastCopiedByte(s)' = copied_offset[s] + start_byte[s]
    BY <1>3, <1>5 DEF Unreported, LastCopiedByte, statusVars, layoutVars
  <2>3. /\ off_in[s] = off_out[s]
        /\ LastCopiedByte(s) + Unreported(s) = off_out[s]
        /\ off_out[s] + remaining[s] = end_byte[s]
        /\ Started(s)
    BY <1>3 DEF IInv, OffsetsAgree, Started
  <2>4. /\ off_in'[s] = off_out'[s]
        /\ LastCopiedByte(s)' + Unreported(s)' = off_out'[s]
        /\ off_out'[s] + remaining'[s] = end_byte'[s]
    BY <1>1, <1>2, <1>3, <1>5, <2>2, <2>3 DEF layoutVars
  <2>5. ASSUME NEW t \in Segments
        PROVE  /\ ~Started(t)' => copied_offset'[t] = 0 /\ bytes_threshold'[t] = 0
               /\ Started(t)' =>
                    /\ off_in'[t] = off_out'[t]
                    /\ LastCopiedByte(t)' + Unreported(t)' = off_out'[t]
                    /\ off_out'[t] + remaining'[t] = end_byte'[t]
               /\ pc'[t] \in {"copy", "finished"} => bytes_threshold'[t] < UPDATE_THRESHOLD
    <3>1. CASE t = s
      BY <1>3, <1>10, <2>3, <2>4, <3>1
    <3>2. CASE t # s
      BY <1>4, <1>5, <1>10, <2>1, <3>2 DEF IInv, OffsetsAgree, statusVars, layoutVars
    <3>3. QED
      BY <3>1, <3>2
  <2>6. QED
    BY <2>5 DEF OffsetsAgree
<1>12. CopiedUpToOffset'
  <2>1. \A b \in DOMAIN dest \ chunk : OnDisk(b)' <=> OnDisk(b)
    BY <1>1 DEF OnDisk
  <2>2. \A b \in chunk : OnDisk(b)'
    BY <1>1 DEF OnDisk, Hole
  <2>3. \A b : b \notin chunk => (OnDisk(b)' <=> OnDisk(b))
    BY <1>1, <2>1 DEF OnDisk
  <2>4. ASSUME NEW t \in Segments, NEW b \in start_byte[t]..(end_byte[t] - 1)
        PROVE  OnDisk(b)' <=> Started(t)' /\ b < off_out'[t]
    <3>1. start_byte[t] \in Nat /\ end_byte[t] \in Nat /\ off_out[t] \in Nat
      BY DEF IInv, TypeOK
    <3>2. OnDisk(b) <=> Started(t) /\ b < off_out[t]
      BY DEF IInv, CopiedUpToOffset
    <3>3. CASE t = s
      BY <1>1, <1>2, <1>3, <1>10, <2>2, <2>3, <3>1, <3>2, <3>3 DEF Started
    <3>4. CASE t # s
      <4>1. b \notin chunk
        BY <1>1, <1>2, <3>1, <3>4 DEF IInv, Apart
      <4>2. QED
        BY <1>4, <1>10, <2>3, <3>2, <3>4, <4>1
    <3>5. QED
      BY <3>3, <3>4
  <2>5. QED
    BY <1>5, <2>4 DEF CopiedUpToOffset, layoutVars
<1>13. EndsAgree'
  <2>1. \A t \in Segments : pc'[t] = "finished" => t # s
    BY <1>3
  <2>2. s \notin failed /\ main \notin {"renderer", "returned"}
    BY <1>3 DEF IInv, EndsAgree, AllFinished
  <2>3. failed' = failed /\ main' = main /\ failed \subseteq Segments
    BY <1>5 DEF IInv, TypeOK
  <2>4. QED
    BY <1>4, <2>1, <2>2, <2>3 DEF IInv, EndsAgree
<1>14. FramesBehind'
  <2>1. ASSUME NEW t \in Segments, seg_frame'[t] # 0
        PROVE  Started(t)' /\ start_byte'[t] + seg_frame'[t] <= off_out'[t] + 1
    <3>1. seg_frame[t] \in Nat /\ start_byte[t] \in Nat /\ off_out[t] \in Nat
      BY DEF IInv, TypeOK
    <3>2. Started(t) /\ start_byte[t] + seg_frame[t] <= off_out[t] + 1
      BY <1>5, <2>1 DEF IInv, FramesBehind, frameVars
    <3>3. seg_frame'[t] = seg_frame[t] /\ start_byte'[t] = start_byte[t]
      BY <1>5 DEF frameVars, layoutVars
    <3>4. off_out[t] <= off_out'[t]
      BY <1>1, <1>3, <1>4, <3>1
    <3>5. off_out'[t] \in Nat
      BY <1>1, <1>3, <1>4, <3>1
    <3>6. QED
      BY <1>10, <3>1, <3>2, <3>3, <3>4, <3>5
  <2>2. QED
    BY <2>1 DEF FramesBehind
<1>15. QED
  BY <1>7, <1>8, <1>9, <1>11, <1>12, <1>13, <1>14 DEF IInv
-----------------------------------------------------------------------------
\* What the steps that leave the destination and the layout alone preserve.
LEMMA SameDestination ==
  ASSUME IInv, UNCHANGED <<layoutVars, dest>>
  PROVE  Apart' /\ DestFaithful' /\ \A b : OnDisk(b)' <=> OnDisk(b)
<1>1. Apart'
  BY DEF IInv, Apart, layoutVars
<1>2. DestFaithful'
  BY DEF IInv, DestFaithful, layoutVars
<1>3. QED
  BY <1>1, <1>2 DEF OnDisk

LEMMA BeginPreserves ==
  ASSUME IInv, NEW s \in Segments, Begin(s)
  PROVE  IInv'
<1>1. /\ pc[s] = "queued" /\ pc'[s] = "copy" /\ ~Started(s) /\ Started(s)'
      /\ copied_offset[s] = 0 /\ bytes_threshold[s] = 0
      /\ start_byte[s] \in Nat /\ end_byte[s] \in Nat /\ start_byte[s] <= end_byte[s]
  BY DEF Begin, GoTo, IInv, TypeOK, OffsetsAgree, Started, Apart
<1>2. LastCopiedByte(s) = start_byte[s]
  BY <1>1 DEF LastCopiedByte
<1>3. /\ off_in' = [off_in EXCEPT ![s] = start_byte[s]]
      /\ off_out' = [off_out EXCEPT ![s] = start_byte[s]]
      /\ remaining' = [remaining EXCEPT ![s] = end_byte[s] - start_byte[s]]
      /\ pc' = [pc EXCEPT ![s] = "copy"]
      /\ UNCHANGED <<layoutVars, dest, statusVars, main, bytes_threshold, frameVars, failed>>
  BY <1>2 DEF Begin, GoTo
<1>4. TypeOK'
  BY <1>1, <1>3 DEF IInv, TypeOK, layoutVars, statusVars, frameVars
<1>5. Apart' /\ DestFaithful' /\ \A b : OnDisk(b)' <=> OnDisk(b)
  BY <1>3, SameDestination
<1>6. /\ off_in'[s] = start_byte[s] /\ off_out'[s] = start_byte[s]
      /\ remaining'[s] = end_byte[s] - start_byte[s]
      /\ \A t \in Segments \ {s} :
           /\ off_out'[t] = off_out[t] /\ off_in'[t] = off_in[t]
           /\ remaining'[t] = remaining[t] /\ pc'[t] = pc[t]
  BY <1>3 DEF IInv, TypeOK
<1>7. OffsetsAgree'
  <2>1. UPDATE_THRESHOLD \in Nat \ {0}
    BY TransferAssumption
  <2>2. LastCopiedByte(s)' = start_byte[s] /\ Unreported(s)' = 0
    BY <1>1, <1>3 DEF LastCopiedByte, Unreported, statusVars, layoutVars
  <2>3. QED
    BY <1>1, <1>3, <1>6, <2>1, <2>2
       DEF IInv, OffsetsAgree, Started, LastCopiedByte, Unreported, statusVars, layoutVars
<1>8. CopiedUpToOffset'
  <2>1. \A b \in start_byte[s]..(end_byte[s] - 1) : ~OnDisk(b)
    BY <1>1 DEF IInv, CopiedUpToOffset
  <2>2. \A b \in start_byte[s]..(end_byte[s] - 1) : ~(b < off_out'[s])
    BY <1>1, <1>6
  <2>3. QED
    BY <1>3, <1>5, <1>6, <2>1, <2>2 DEF IInv, CopiedUpToOffset, Started, layoutVars
<1>9. EndsAgree'
  <2>1. s \notin failed /\ main \notin {"renderer", "returned"} /\ failed \subseteq Segments
    BY <1>1 DEF IInv, TypeOK, EndsAgree, AllFinished
  <2>2. QED
    BY <1>1, <1>3, <1>6, <2>1 DEF IInv, EndsAgree
<1>10. FramesBehind'
  <2>1. seg_frame[s] = 0
    BY <1>1 DEF IInv, FramesBehind
  <2>2. QED
    BY <1>3, <1>6, <2>1 DEF IInv, FramesBehind, Started, layoutVars, frameVars
<1>11. QED
  BY <1>4, <1>5, <1>7, <1>8, <1>9, <1>10 DEF IInv
-----------------------------------------------------------------------------
\* A task that leaves its loop, at its end or at a call that copies nothing.
LEMMA LeavePreserves ==
  ASSUME IInv, NEW s \in Segments, LoopEnds(s) \/ \E res : Break(s, res)
  PROVE  IInv'
<1>1. /\ pc[s] = "copy" /\ pc' = [pc EXCEPT ![s] = "finished"]
      /\ failed' \in {failed, failed \union {s}}
      /\ remaining[s] = 0 \/ s \in failed'
      /\ UNCHANGED <<layoutVars, dest, statusVars, main, loopVars, bytes_threshold, frameVars>>
  <2>1. remaining[s] \in Nat
    BY DEF IInv, TypeOK
  <2>2. CASE LoopEnds(s)
    BY <2>1, <2>2 DEF LoopEnds, GoTo
  <2>3. CASE \E res : Break(s, res)
    BY <2>3 DEF Break, GoTo
  <2>4. QED
    BY <2>2, <2>3
<1>2. \A t \in Segments : Started(t)' <=> Started(t)
  BY <1>1 DEF Started, IInv, TypeOK
<1>3. TypeOK'
  BY <1>1 DEF IInv, TypeOK, layoutVars, statusVars, loopVars, frameVars
<1>4. Apart' /\ DestFaithful' /\ \A b : OnDisk(b)' <=> OnDisk(b)
  BY <1>1, SameDestination
<1>5. OffsetsAgree'
  <2>1. \A t \in Segments : /\ Unreported(t)' = Unreported(t)
                            /\ LastCopiedByte(t)' = LastCopiedByte(t)
    BY <1>1 DEF IInv, TypeOK, Unreported, LastCopiedByte, statusVars, layoutVars
  <2>2. \A t \in Segments : pc'[t] \in {"copy", "finished"} => pc[t] \in {"copy", "finished"}
    BY <1>1 DEF IInv, TypeOK
  <2>3. QED
    BY <1>1, <1>2, <2>1, <2>2 DEF IInv, OffsetsAgree, loopVars, statusVars, layoutVars
<1>6. CopiedUpToOffset'
  BY <1>1, <1>2, <1>4 DEF IInv, CopiedUpToOffset, loopVars, layoutVars
<1>7. EndsAgree'
  <2>1. main \notin {"renderer", "returned"} /\ failed \subseteq Segments
    BY <1>1 DEF IInv, TypeOK, EndsAgree, AllFinished
  <2>2. \A t \in Segments : pc'[t] = IF t = s THEN "finished" ELSE pc[t]
    BY <1>1 DEF IInv, TypeOK
  <2>3. QED
    BY <1>1, <2>1, <2>2 DEF IInv, EndsAgree, loopVars
<1>8. FramesBehind'
  BY <1>1, <1>2 DEF IInv, FramesBehind, loopVars, frameVars, layoutVars
<1>9. QED
  BY <1>3, <1>4, <1>5, <1>6, <1>7, <1>8 DEF IInv
-----------------------------------------------------------------------------
\* The four steps of a report.
ReportStep(s) == AddCopied(s) \/ PostSegment(s) \/ ReadTotal(s) \/ PostRoot(s)

\* They move the task on and touch neither the files nor the offsets.
LEMMA ReportKeeps ==
  ASSUME IInv, NEW s \in Segments, ReportStep(s)
  PROVE  /\ UNCHANGED <<layoutVars, dest, main, loopVars, failed>>
         /\ pc[s] \in {"account", "post", "read", "postroot"}
         /\ pc'[s] \in {"post", "read", "postroot", "copy"}
         /\ \A t \in Segments \ {s} : pc'[t] = pc[t]
         /\ \A t \in Segments : Started(t)' <=> Started(t)
         /\ Apart' /\ DestFaithful' /\ CopiedUpToOffset' /\ EndsAgree'
<1>1. /\ UNCHANGED <<layoutVars, dest, main, loopVars, failed>>
      /\ pc[s] \in {"account", "post", "read", "postroot"}
      /\ \E label \in {"post", "read", "postroot", "copy"} : GoTo(s, label)
  BY DEF ReportStep, AddCopied, PostSegment, ReadTotal, PostRoot
<1>2. /\ pc'[s] \in {"post", "read", "postroot", "copy"}
      /\ \A t \in Segments \ {s} : pc'[t] = pc[t]
  BY <1>1 DEF GoTo, IInv, TypeOK
<1>3. \A t \in Segments : Started(t)' <=> Started(t)
  BY <1>1, <1>2 DEF Started
<1>4. Apart' /\ DestFaithful' /\ \A b : OnDisk(b)' <=> OnDisk(b)
  BY <1>1, SameDestination
<1>5. CopiedUpToOffset'
  BY <1>1, <1>3, <1>4 DEF IInv, CopiedUpToOffset, loopVars, layoutVars
<1>6. EndsAgree'
  <2>1. s \notin failed /\ main \notin {"renderer", "returned"} /\ failed \subseteq Segments
    BY <1>1 DEF IInv, TypeOK, EndsAgree, AllFinished
  <2>2. QED
    BY <1>1, <1>2, <2>1 DEF IInv, EndsAgree, loopVars
<1>7. QED
  BY <1>1, <1>2, <1>3, <1>4, <1>5, <1>6
LEMMA ReportPreserves ==
  ASSUME IInv, NEW s \in Segments, ReportStep(s)
  PROVE  IInv'
<1>1. /\ UNCHANGED <<layoutVars, dest, main, loopVars, failed>>
      /\ pc[s] \in {"account", "post", "read", "postroot"}
      /\ pc'[s] \in {"post", "read", "postroot", "copy"}
      /\ \A t \in Segments \ {s} : pc'[t] = pc[t]
      /\ \A t \in Segments : Started(t)' <=> Started(t)
      /\ Apart' /\ DestFaithful' /\ CopiedUpToOffset' /\ EndsAgree'
  BY ReportKeeps
<1>2. /\ copied_offset[s] \in Nat /\ bytes_threshold[s] \in Nat
      /\ start_byte[s] \in Nat /\ end_byte[s] \in Nat
      /\ remaining[s] \in Nat /\ off_out[s] \in Nat
      /\ UPDATE_THRESHOLD \in Nat \ {0} /\ MaxChunk \in Nat \ {0}
  BY TransferAssumption DEF IInv, TypeOK
<1>3. /\ Started(s)
      /\ off_in[s] = off_out[s]
      /\ LastCopiedByte(s) + Unreported(s) = off_out[s]
      /\ off_out[s] + remaining[s] = end_byte[s]
  BY <1>1 DEF IInv, OffsetsAgree, Started
<1>4. start_byte[s] <= off_out[s]
  BY <1>2, <1>3 DEF LastCopiedByte, Unreported
\* The tasks that do not report.
<1>5. ASSUME UNCHANGED <<[t \in Segments \ {s} |-> copied_offset[t]],
                         [t \in Segments \ {s} |-> bytes_threshold[t]]>>,
             LastCopiedByte(s)' + Unreported(s)' = off_out[s],
             pc'[s] = "copy" => bytes_threshold'[s] < UPDATE_THRESHOLD
      PROVE  OffsetsAgree'
  <2>1. \A t \in Segments \ {s} : /\ copied_offset'[t] = copied_offset[t]
                                  /\ bytes_threshold'[t] = bytes_threshold[t]
    BY <1>5
  <2>2. \A t \in Segments \ {s} : /\ Unreported(t)' = Unreported(t)
                                  /\ LastCopiedByte(t)' = LastCopiedByte(t)
    BY <1>1, <2>1 DEF Unreported, LastCopiedByte, layoutVars
  <2>3. QED
    BY <1>1, <1>3, <1>5, <2>1, <2>2 DEF IInv, OffsetsAgree, loopVars, layoutVars
<1>6. CASE AddCopied(s)
  <2>1. /\ copied_offset' = [copied_offset EXCEPT ![s] = @ + bytes_threshold[s]]
        /\ total_copied' = total_copied + bytes_threshold[s]
        /\ pc[s] = "account" /\ pc' = [pc EXCEPT ![s] = "post"]
        /\ UNCHANGED <<bytes_threshold, frameVars>>
    BY <1>6 DEF AddCopied, GoTo
  <2>2. TypeOK'
    BY <1>1, <1>2, <2>1 DEF IInv, TypeOK, layoutVars, loopVars, frameVars
  <2>3. LastCopiedByte(s)' + Unreported(s)' = off_out[s]
    BY <1>1, <1>2, <1>3, <2>1 DEF IInv, TypeOK, LastCopiedByte, Unreported, layoutVars
  <2>4. OffsetsAgree'
    BY <1>5, <2>1, <2>3 DEF IInv, TypeOK
  <2>5. FramesBehind'
    BY <1>1, <2>1 DEF IInv, FramesBehind, layoutVars, loopVars, frameVars
  <2>6. QED
    BY <1>1, <2>2, <2>4, <2>5 DEF IInv
<1>7. CASE PostSegment(s)
  <2>1. /\ seg_frame' = [seg_frame EXCEPT ![s] = BarDone(s)]
        /\ pc[s] = "post" /\ pc' = [pc EXCEPT ![s] = "read"]
        /\ UNCHANGED <<statusVars, bytes_threshold, total_read, root_frames>>
    BY <1>7 DEF PostSegment, GoTo
  <2>2. BarDone(s) \in Nat /\ start_byte[s] + BarDone(s) = off_out[s] + 1
    BY <1>2, <1>3, <1>4 DEF BarDone, BarTotal
  <2>3. TypeOK'
    BY <1>1, <1>2, <2>1, <2>2 DEF IInv, TypeOK, layoutVars, loopVars, statusVars
  <2>4. LastCopiedByte(s)' + Unreported(s)' = off_out[s]
    BY <1>1, <1>3, <2>1 DEF IInv, TypeOK, LastCopiedByte, Unreported, layoutVars, statusVars
  <2>5. OffsetsAgree'
    BY <1>1, <1>5, <2>1, <2>4 DEF IInv, TypeOK, statusVars
  <2>6. FramesBehind'
    BY <1>1, <1>2, <1>3, <2>1, <2>2 DEF IInv, TypeOK, FramesBehind, layoutVars, loopVars
  <2>7. QED
    BY <1>1, <2>3, <2>5, <2>6 DEF IInv
<1>8. CASE ReadTotal(s)
  <2>1. /\ total_read' = [total_read EXCEPT ![s] = total_copied]
        /\ pc[s] = "read" /\ pc' = [pc EXCEPT ![s] = "postroot"]
        /\ UNCHANGED <<statusVars, bytes_threshold, seg_frame, root_frames>>
    BY <1>8 DEF ReadTotal, GoTo
  <2>2. TypeOK'
    BY <1>1, <2>1 DEF IInv, TypeOK, layoutVars, loopVars, statusVars
  <2>3. LastCopiedByte(s)' + Unreported(s)' = off_out[s]
    BY <1>1, <1>3, <2>1 DEF IInv, TypeOK, LastCopiedByte, Unreported, layoutVars, statusVars
  <2>4. OffsetsAgree'
    BY <1>1, <1>5, <2>1, <2>3 DEF IInv, TypeOK, statusVars
  <2>5. FramesBehind'
    BY <1>1, <2>1 DEF IInv, FramesBehind, layoutVars, loopVars
  <2>6. QED
    BY <1>1, <2>2, <2>4, <2>5 DEF IInv
<1>9. CASE PostRoot(s)
  <2>1. /\ root_frames' = root_frames \union {total_read[s]}
        /\ bytes_threshold' = [bytes_threshold EXCEPT ![s] = 0]
        /\ pc[s] = "postroot" /\ pc' = [pc EXCEPT ![s] = "copy"]
        /\ UNCHANGED <<statusVars, total_read, seg_frame>>
    BY <1>9 DEF PostRoot, AfterReport, GoTo
  <2>2. TypeOK'
    <3>1. 0 \in 0..(UPDATE_THRESHOLD + MaxChunk - 1)
      BY <1>2
    <3>2. bytes_threshold' \in [Segments -> 0..(UPDATE_THRESHOLD + MaxChunk - 1)]
      BY <2>1, <3>1 DEF IInv, TypeOK
    <3>3. QED
      BY <1>1, <2>1, <3>2 DEF IInv, TypeOK, layoutVars, loopVars, statusVars
  <2>3. LastCopiedByte(s)' + Unreported(s)' = off_out[s]
    BY <1>1, <1>2, <1>3, <2>1
       DEF IInv, TypeOK, LastCopiedByte, Unreported, layoutVars, statusVars
  <2>4. OffsetsAgree'
    BY <1>1, <1>2, <1>5, <2>1, <2>3 DEF IInv, TypeOK, statusVars
  <2>5. FramesBehind'
    BY <1>1, <2>1 DEF IInv, FramesBehind, layoutVars, loopVars
  <2>6. QED
    BY <1>1, <2>2, <2>4, <2>5 DEF IInv
<1>10. QED
  BY <1>6, <1>7, <1>8, <1>9 DEF ReportStep
-----------------------------------------------------------------------------
\* write_segments itself, and steps of nobody.
LEMMA MainPreserves ==
  ASSUME IInv, WriteSegments \/ UNCHANGED vars
  PROVE  IInv'
<1>1. UNCHANGED <<layoutVars, dest, statusVars, loopVars, bytes_threshold, frameVars, failed>>
  BY DEF WriteSegments, CallPoolStop, PoolStopped, Return, Submit, vars
<1>2. \/ main' \in {"submit", "pool", "renderer", "returned"} /\ pc' = pc
         /\ (main' \in {"renderer", "returned"} => AllFinished)
      \/ main' = main /\ main = "submit"
         /\ \E s \in Segments : pc[s] = "none" /\ pc' = [pc EXCEPT ![s] = "queued"]
  BY DEF WriteSegments, CallPoolStop, PoolStopped, Return, Submit, GoTo, vars, IInv, TypeOK,
         EndsAgree
<1>3. /\ \A t \in Segments : Started(t)' <=> Started(t)
      /\ \A t \in Segments : Started(t) => pc'[t] = pc[t]
  BY <1>2 DEF Started, IInv, TypeOK
<1>4. TypeOK'
  BY <1>1, <1>2 DEF IInv, TypeOK, layoutVars, statusVars, loopVars, frameVars
<1>5. Apart' /\ DestFaithful' /\ \A b : OnDisk(b)' <=> OnDisk(b)
  BY <1>1, SameDestination
<1>6. OffsetsAgree'
  <2>1. \A t \in Segments : Started(t) =>
          Unreported(t)' = Unreported(t) /\ LastCopiedByte(t)' = LastCopiedByte(t)
    BY <1>1, <1>3 DEF Unreported, LastCopiedByte, statusVars, layoutVars
  <2>2. \A t \in Segments : pc'[t] \in {"copy", "finished"} => pc[t] \in {"copy", "finished"}
    BY <1>3, <1>2 DEF Started, IInv, TypeOK
  <2>3. QED
    BY <1>1, <1>3, <2>1, <2>2 DEF IInv, OffsetsAgree, loopVars, statusVars, layoutVars
<1>7. CopiedUpToOffset'
  BY <1>1, <1>3, <1>5 DEF IInv, CopiedUpToOffset, loopVars, layoutVars
<1>8. EndsAgree'
  <2>1. \A t \in Segments : pc'[t] = "finished" <=> pc[t] = "finished"
    BY <1>2 DEF IInv, TypeOK
  <2>2. QED
    BY <1>1, <1>2, <2>1 DEF IInv, TypeOK, EndsAgree, AllFinished, loopVars
<1>9. FramesBehind'
  BY <1>1, <1>3 DEF IInv, FramesBehind, loopVars, frameVars, layoutVars
<1>10. QED
  BY <1>4, <1>5, <1>6, <1>7, <1>8, <1>9 DEF IInv
-----------------------------------------------------------------------------
LEMMA StepCases ==
  ASSUME [Next]_vars
  PROVE  \/ WriteSegments \/ UNCHANGED vars
         \/ \E s \in Segments :
              \/ Begin(s) \/ ReportStep(s)
              \/ \E n : CopyBy(s, n)
              \/ LoopEnds(s) \/ \E res : Break(s, res)
BY CopyIsBy DEF Next, DirectWrite, Proceed, ReportStep

\* The invariant of the transfer.
THEOREM Invariance == Spec => []IInv
<1>1. IInv /\ [Next]_vars => IInv'
  BY StepCases, BeginPreserves, CopyPreserves, LeavePreserves, ReportPreserves, MainPreserves
<1>2. QED
  BY <1>1, InitInvariant, PTL DEF Spec

\* Every variable of the transfer keeps its type.
THEOREM TypeCorrect == Spec => []TypeOK
<1>1. IInv => TypeOK
  BY DEF IInv
<1>2. QED
  BY <1>1, Invariance, PTL

\* Whatever the interleaving of the tasks, and whatever fails, every byte of the
\* destination is the source's at the same place or was not written.
THEOREM Placement == Spec => []DestFaithful
<1>1. IInv => DestFaithful
  BY DEF IInv
<1>2. QED
  BY <1>1, Invariance, PTL

\* The status never says of a byte that it is copied before it is on disk.
LEMMA BehindDisk == IInv => StatusBehindDisk
<1> SUFFICES ASSUME IInv, NEW s \in Segments, Started(s)
             PROVE  /\ LastCopiedByte(s) + Unreported(s) = off_out[s]
                    /\ pc[s] \in {"copy", "finished"} => Unreported(s) < UPDATE_THRESHOLD
                    /\ off_out[s] + remaining[s] = end_byte[s]
                    /\ \A b \in start_byte[s]..(off_out[s] - 1) :
                         b \in DOMAIN dest /\ dest[b] = b
  BY DEF StatusBehindDisk
<1>1. /\ LastCopiedByte(s) + Unreported(s) = off_out[s]
      /\ off_out[s] + remaining[s] = end_byte[s]
      /\ pc[s] \in {"copy", "finished"} => bytes_threshold[s] < UPDATE_THRESHOLD
  BY DEF IInv, OffsetsAgree
<1>2. pc[s] \in {"copy", "finished"} => Unreported(s) < UPDATE_THRESHOLD
  BY <1>1 DEF Unreported
<1>3. /\ start_byte[s] \in Nat /\ end_byte[s] \in Nat
      /\ off_out[s] \in Nat /\ remaining[s] \in Nat
  BY DEF IInv, TypeOK
<1>4. ASSUME NEW b \in start_byte[s]..(off_out[s] - 1)
      PROVE  b \in DOMAIN dest /\ dest[b] = b
  <2>1. b \in start_byte[s]..(end_byte[s] - 1) /\ b < off_out[s]
    BY <1>1, <1>3
  <2>2. OnDisk(b)
    BY <2>1 DEF IInv, CopiedUpToOffset
  <2>3. QED
    BY <2>2 DEF OnDisk, IInv, DestFaithful
<1>5. QED
  BY <1>1, <1>2, <1>4

\* A run that resumed from the status would skip no byte that is not on disk, at
\* whatever moment the program is killed.
THEOREM StatusSafe == Spec => []StatusBehindDisk
BY BehindDisk, Invariance, PTL

LEMMA FramesOnDisk ==
  ASSUME IInv, NEW s \in Segments
  PROVE  /\ seg_frame[s] <= BarTotal(s)
         /\ \A b \in start_byte[s]..(start_byte[s] + seg_frame[s] - 2) :
              b \in DOMAIN dest /\ dest[b] = b
<1>1. /\ start_byte[s] \in Nat /\ end_byte[s] \in Nat /\ seg_frame[s] \in Nat
      /\ off_out[s] \in Nat /\ remaining[s] \in Nat /\ start_byte[s] <= end_byte[s]
  BY DEF IInv, TypeOK, Apart
<1>2. CASE seg_frame[s] = 0
  BY <1>1, <1>2 DEF BarTotal
<1>3. CASE seg_frame[s] # 0
  <2>1. Started(s) /\ start_byte[s] + seg_frame[s] <= off_out[s] + 1
    BY <1>3 DEF IInv, FramesBehind
  <2>2. /\ off_out[s] + remaining[s] = end_byte[s]
        /\ \A b \in start_byte[s]..(off_out[s] - 1) : b \in DOMAIN dest /\ dest[b] = b
    BY <2>1, BehindDisk DEF StatusBehindDisk
  <2>3. QED
    BY <1>1, <2>1, <2>2 DEF BarTotal
<1>4. QED
  BY <1>2, <1>3

-----------------------------------------------------------------------------
(* The total. *)

LEMMA InitTotal == Init => TotalAgrees
<1> SUFFICES ASSUME Init
             PROVE  TotalAgrees
  OBVIOUS
<1>1. /\ copied_offset = [s \in Segments |-> 0] /\ total_copied = 0
      /\ total_read = [s \in Segments |-> 0] /\ root_frames = {}
  BY DEF Init, Zero
<1>2. SumFunction(copied_offset) = 0
  BY <1>1, SumZero, TransferAssumption
<1>3. QED
  BY <1>1, <1>2 DEF TotalAgrees

\* add_copied_byte adds what one task held back to its segment and to the total.
LEMMA AddPreservesTotal ==
  ASSUME IInv, TotalAgrees, NEW s \in Segments, AddCopied(s)
  PROVE  TotalAgrees'
<1>1. /\ copied_offset' = [copied_offset EXCEPT ![s] = @ + bytes_threshold[s]]
      /\ total_copied' = total_copied + bytes_threshold[s]
      /\ pc'[s] = "post"
      /\ UNCHANGED frameVars
  BY DEF AddCopied, GoTo, IInv, TypeOK
<1>2. /\ copied_offset \in [Segments -> Int] /\ total_copied \in Nat
      /\ bytes_threshold[s] \in Nat
      /\ root_frames \subseteq Nat /\ total_read \in [Segments -> Nat]
  BY TransferAssumption DEF IInv, TypeOK
<1>3. total_copied' = SumFunction(copied_offset)'
  <2>1. IsFiniteSet(Segments) /\ bytes_threshold[s] \in Int
    BY <1>2, TransferAssumption
  <2>2. SumFunction([copied_offset EXCEPT ![s] = @ + bytes_threshold[s]])
          = SumFunction(copied_offset) + bytes_threshold[s]
    BY <1>2, <2>1, SumChange, ZenonT(60)
  <2>3. total_copied = SumFunction(copied_offset)
    BY DEF TotalAgrees
  <2>4. QED
    BY <1>1, <2>2, <2>3
<1>4. /\ \A v \in root_frames' : v <= total_copied'
      /\ \A t \in Segments : total_read'[t] <= total_copied'
  <2>1. total_copied <= total_copied'
    BY <1>1, <1>2
  <2>2. root_frames' = root_frames /\ total_read' = total_read /\ total_copied' \in Nat
    BY <1>1, <1>2 DEF frameVars
  <2>3. \A v \in root_frames : v \in Nat /\ v <= total_copied
    BY <1>2 DEF TotalAgrees
  <2>4. \A t \in Segments : total_read[t] \in Nat /\ total_read[t] <= total_copied
    BY <1>2 DEF TotalAgrees
  <2>5. QED
    BY <1>2, <2>1, <2>2, <2>3, <2>4
<1>5. QED
  BY <1>1, <1>3, <1>4 DEF TotalAgrees

\* Reading and posting the total, which is a step or two behind it.
LEMMA ShowPreservesTotal ==
  ASSUME IInv, TotalAgrees, NEW s \in Segments,
         PostSegment(s) \/ ReadTotal(s) \/ PostRoot(s)
  PROVE  TotalAgrees'
<1>1. /\ UNCHANGED statusVars
      /\ \A t \in Segments \ {s} : pc'[t] = pc[t]
      /\ pc \in [Segments -> {"none", "queued", "copy", "account", "post", "read",
                              "postroot", "finished"}]
      /\ total_read \in [Segments -> Nat] /\ total_copied \in Nat
  BY DEF PostSegment, ReadTotal, PostRoot, GoTo, IInv, TypeOK
<1>2. CASE PostSegment(s)
  <2>1. pc'[s] = "read" /\ UNCHANGED <<total_read, root_frames>>
    BY <1>2, <1>1 DEF PostSegment, GoTo
  <2>2. QED
    BY <1>1, <2>1 DEF TotalAgrees, statusVars
<1>3. CASE ReadTotal(s)
  <2>1. /\ pc'[s] = "postroot" /\ UNCHANGED root_frames
        /\ total_read'[s] = total_copied
        /\ \A t \in Segments \ {s} : total_read'[t] = total_read[t]
    BY <1>3, <1>1 DEF ReadTotal, GoTo
  <2>2. \A t \in Segments : total_read'[t] <= total_copied'
    BY <1>1, <2>1 DEF TotalAgrees, statusVars
  <2>3. QED
    BY <1>1, <2>1, <2>2 DEF TotalAgrees, statusVars
<1>4. CASE PostRoot(s)
  <2>1. /\ pc[s] = "postroot" /\ UNCHANGED total_read
        /\ root_frames' = root_frames \union {total_read[s]}
    BY <1>4 DEF PostRoot
  <2>2. \A v \in root_frames' : v <= total_copied'
    BY <1>1, <2>1 DEF TotalAgrees, statusVars
  <2>3. QED
    BY <1>1, <2>1, <2>2 DEF TotalAgrees, statusVars
<1>5. QED
  BY <1>2, <1>3, <1>4

\* All other steps leave the total alone and no report is under way in them.
LEMMA OthersKeepTotal ==
  ASSUME IInv, TotalAgrees,
         \/ WriteSegments \/ UNCHANGED vars
         \/ \E s \in Segments :
              \/ Begin(s) \/ LoopEnds(s)
              \/ \E n : CopyBy(s, n)
              \/ \E res : Break(s, res)
  PROVE  TotalAgrees'
<1>1. UNCHANGED <<statusVars, total_read, root_frames>>
  BY DEF WriteSegments, CallPoolStop, PoolStopped, Return, Submit, Begin, LoopEnds, CopyBy,
         Break, vars, frameVars
<1>2. \A t \in Segments :
        pc[t] \in {"post", "read", "postroot"} => pc'[t] = pc[t]
  <2>1. pc \in [Segments -> {"none", "queued", "copy", "account", "post", "read",
                             "postroot", "finished"}]
    BY DEF IInv, TypeOK
  <2>2. CASE WriteSegments \/ UNCHANGED vars
    BY <2>1, <2>2 DEF WriteSegments, CallPoolStop, PoolStopped, Return, Submit, GoTo, vars
  <2>3. ASSUME NEW s \in Segments,
               \/ Begin(s) \/ LoopEnds(s)
               \/ \E n : CopyBy(s, n)
               \/ \E res : Break(s, res)
        PROVE  pc[s] \in {"queued", "copy"} /\ \E label : GoTo(s, label)
    BY <2>3 DEF Begin, LoopEnds, CopyBy, Break
  <2>4. QED
    BY <2>1, <2>2, <2>3 DEF GoTo
<1>3. QED
  BY <1>1, <1>2 DEF TotalAgrees, statusVars

\* What the tasks share agrees with what each of them added.
THEOREM TotalInvariance == Spec => []TotalAgrees
<1>1. IInv /\ TotalAgrees /\ [Next]_vars => TotalAgrees'
  BY StepCases, AddPreservesTotal, ShowPreservesTotal, OthersKeepTotal DEF ReportStep
<1>2. QED
  BY <1>1, InitTotal, Invariance, PTL DEF Spec

\* A bar shows what its task has added, and the byte more that direct_write counts,
\* once the task has added anything and posted it.
FramesFollow ==
  \A s \in Segments :
    /\ pc[s] = "account" => bytes_threshold[s] # 0
    /\ pc[s] = "post" => copied_offset[s] # 0
    /\ pc[s] # "post" =>
         seg_frame[s] = IF copied_offset[s] = 0 THEN 0 ELSE copied_offset[s] + 1

\* A report moves the bar to where the status is.
LEMMA ReportFrames ==
  ASSUME IInv, FramesFollow, NEW s \in Segments, ReportStep(s)
  PROVE  FramesFollow'
<1>1. /\ copied_offset \in [Segments -> Nat]
      /\ bytes_threshold \in [Segments -> 0..(UPDATE_THRESHOLD + MaxChunk - 1)]
      /\ bytes_threshold[s] \in Nat
      /\ seg_frame \in [Segments -> Nat]
      /\ start_byte[s] \in Nat /\ end_byte[s] \in Nat
      /\ remaining[s] \in Nat /\ off_out[s] \in Nat
      /\ pc \in [Segments -> {"none", "queued", "copy", "account", "post", "read",
                              "postroot", "finished"}]
  BY TransferAssumption DEF IInv, TypeOK
<1>2. CASE AddCopied(s)
  <2>1. /\ pc[s] = "account" /\ pc' = [pc EXCEPT ![s] = "post"]
        /\ copied_offset' = [copied_offset EXCEPT ![s] = @ + bytes_threshold[s]]
        /\ UNCHANGED <<bytes_threshold, seg_frame>>
    BY <1>2 DEF AddCopied, GoTo, frameVars
  <2>2. copied_offset'[s] # 0
    BY <1>1, <2>1 DEF FramesFollow
  <2>3. QED
    BY <1>1, <2>1, <2>2 DEF FramesFollow
<1>3. CASE PostSegment(s)
  <2>1. /\ pc[s] = "post" /\ pc' = [pc EXCEPT ![s] = "read"]
        /\ seg_frame' = [seg_frame EXCEPT ![s] = BarDone(s)]
        /\ UNCHANGED <<bytes_threshold, copied_offset>>
    BY <1>3 DEF PostSegment, GoTo, statusVars
  <2>2. BarDone(s) = copied_offset[s] + 1
    <3>1. /\ LastCopiedByte(s) + Unreported(s) = off_out[s]
          /\ off_out[s] + remaining[s] = end_byte[s]
      BY <2>1 DEF IInv, OffsetsAgree, Started
    <3>2. Unreported(s) = 0
      BY <2>1 DEF Unreported
    <3>3. QED
      BY <1>1, <3>1, <3>2 DEF BarDone, BarTotal, LastCopiedByte
  <2>3. QED
    BY <1>1, <2>1, <2>2 DEF FramesFollow
<1>4. CASE ReadTotal(s)
  <2>1. /\ pc[s] = "read" /\ pc' = [pc EXCEPT ![s] = "postroot"]
        /\ UNCHANGED <<bytes_threshold, copied_offset, seg_frame>>
    BY <1>4 DEF ReadTotal, GoTo, statusVars
  <2>2. QED
    BY <1>1, <2>1 DEF FramesFollow
<1>5. CASE PostRoot(s)
  <2>1. /\ pc[s] = "postroot" /\ pc' = [pc EXCEPT ![s] = "copy"]
        /\ bytes_threshold' = [bytes_threshold EXCEPT ![s] = 0]
        /\ UNCHANGED <<copied_offset, seg_frame>>
    BY <1>5 DEF PostRoot, AfterReport, GoTo, statusVars
  <2>2. QED
    BY <1>1, <2>1 DEF FramesFollow
<1>6. QED
  BY <1>2, <1>3, <1>4, <1>5 DEF ReportStep

\* Nothing else moves a bar, and a task that goes on to report has copied something.
LEMMA OthersKeepFrames ==
  ASSUME IInv, FramesFollow,
         \/ WriteSegments \/ UNCHANGED vars
         \/ \E s \in Segments :
              \/ Begin(s) \/ LoopEnds(s)
              \/ \E n : CopyBy(s, n)
              \/ \E res : Break(s, res)
  PROVE  FramesFollow'
<1>1. UNCHANGED <<copied_offset, seg_frame>>
  BY DEF WriteSegments, CallPoolStop, PoolStopped, Return, Submit, Begin, LoopEnds, CopyBy,
         Break, vars, frameVars, statusVars
<1>2. \A t \in Segments :
        /\ pc[t] = "post" <=> pc'[t] = "post"
        /\ pc'[t] = "account" => bytes_threshold'[t] # 0
  <2>1. /\ pc \in [Segments -> {"none", "queued", "copy", "account", "post", "read",
                                "postroot", "finished"}]
        /\ UPDATE_THRESHOLD \in Nat \ {0}
        /\ bytes_threshold \in [Segments -> 0..(UPDATE_THRESHOLD + MaxChunk - 1)]
        /\ \A t \in Segments : pc[t] = "account" => bytes_threshold[t] # 0
    BY TransferAssumption DEF IInv, TypeOK, FramesFollow
  <2>2. CASE WriteSegments \/ UNCHANGED vars
    BY <2>1, <2>2 DEF WriteSegments, CallPoolStop, PoolStopped, Return, Submit, GoTo, vars
  <2>3. ASSUME NEW s \in Segments, Begin(s) \/ LoopEnds(s) \/ \E res : Break(s, res)
        PROVE  /\ UNCHANGED bytes_threshold
               /\ pc[s] \in {"queued", "copy"}
               /\ \E label \in {"copy", "finished"} : pc' = [pc EXCEPT ![s] = label]
    BY <2>3 DEF Begin, LoopEnds, Break, GoTo
  <2>4. ASSUME NEW s \in Segments, NEW n, CopyBy(s, n)
        PROVE  /\ pc[s] = "copy"
               /\ \A t \in Segments \ {s} :
                    pc'[t] = pc[t] /\ bytes_threshold'[t] = bytes_threshold[t]
               /\ pc'[s] \in {"copy", "account"}
               /\ pc'[s] = "account" => bytes_threshold'[s] >= UPDATE_THRESHOLD
    BY <2>1, <2>4 DEF CopyBy, GoTo
  <2>5. CASE \E s \in Segments : Begin(s) \/ LoopEnds(s) \/ \E res : Break(s, res)
    BY <2>1, <2>3, <2>5
  <2>6. CASE \E s \in Segments : \E n : CopyBy(s, n)
    BY <2>1, <2>4, <2>6
  <2>7. QED
    BY <2>2, <2>5, <2>6
<1>3. QED
  BY <1>1, <1>2 DEF FramesFollow

LEMMA FrameInvariance == Spec => []FramesFollow
<1>1. Init => FramesFollow
  BY DEF Init, Zero, FramesFollow
<1>2. IInv /\ FramesFollow /\ [Next]_vars => FramesFollow'
  BY StepCases, ReportFrames, OthersKeepFrames
<1>3. QED
  BY <1>1, <1>2, Invariance, PTL DEF Spec

\* A segment's bar is one byte ahead of the status and otherwise on disk, full only
\* when the segment is copied; the file's bar is never ahead, the value that counts
\* all is posted when no report is under way, and no update of the total is lost.
THEOREM BarsSafe == Spec => []BarsFollow
<1>1. TotalAgrees => TotalShown /\ total_copied = SumFunction(copied_offset)
  BY DEF TotalAgrees, TotalShown
<1>2. IInv /\ FramesFollow => SegmentBarsOneAhead
  BY FramesOnDisk DEF FramesFollow, SegmentBarsOneAhead
<1>3. IInv /\ TotalAgrees /\ FramesFollow => BarsFollow
  BY <1>1, <1>2 DEF BarsFollow
<1>4. QED
  BY <1>3, Invariance, TotalInvariance, FrameInvariance, PTL
-----------------------------------------------------------------------------
(* The refinement of FileCopy. *)

LEMMA CopyImplements ==
  ASSUME IInv, NEW s \in Segments, NEW n, CopyBy(s, n)
  PROVE  CallerView!CopyBytes
<1> DEFINE chunk == off_out[s]..(off_out[s] + n - 1)
<1>1. /\ n \in Nat \ {0}
      /\ chunk \subseteq Nat
      /\ DOMAIN dest' = DOMAIN dest \union chunk
      /\ \A b \in chunk : dest'[b] = b /\ b < src_size
      /\ \A b \in DOMAIN dest \ chunk : dest'[b] = dest[b]
      /\ start_byte[s] <= off_out[s] /\ off_out[s] + n <= end_byte[s]
  BY CopyEffect
<1>2. /\ UNCHANGED <<layoutVars, main, failed>>
      /\ pc[s] = "copy" /\ off_out' = [off_out EXCEPT ![s] = @ + n]
  BY DEF CopyBy
<1>3. main # "returned" /\ s \notin failed /\ failed \subseteq Segments
  BY <1>2 DEF IInv, TypeOK, EndsAgree, AllFinished
<1>4. GivenUp' = GivenUp
  <2>1. \A t \in failed : off_out'[t] = off_out[t] /\ end_byte'[t] = end_byte[t]
    BY <1>2, <1>3 DEF IInv, TypeOK, layoutVars
  <2>2. QED
    BY <1>2, <2>1 DEF GivenUp
<1>5. ASSUME NEW b \in chunk
      PROVE  b \notin GivenUp
  <2> SUFFICES ASSUME NEW t \in failed, b \in off_out[t]..(end_byte[t] - 1)
               PROVE  FALSE
    BY DEF GivenUp
  <2>1. t \in Segments /\ t # s /\ Started(t)
    BY <1>3 DEF IInv, EndsAgree, Started
  <2>2. /\ start_byte[t] \in Nat /\ end_byte[t] \in Nat /\ off_out[t] \in Nat
        /\ start_byte[s] \in Nat /\ end_byte[s] \in Nat /\ off_out[s] \in Nat
        /\ copied_offset[t] \in Nat /\ bytes_threshold[t] \in Nat
    BY <2>1 DEF IInv, TypeOK
  <2>3. start_byte[t] <= off_out[t]
    BY <2>1, <2>2 DEF IInv, OffsetsAgree, LastCopiedByte, Unreported
  <2>4. end_byte[s] <= start_byte[t] \/ end_byte[t] <= start_byte[s]
    BY <2>1 DEF IInv, Apart
  <2>5. QED
    BY <1>1, <2>2, <2>3, <2>4
<1>6. \A b \in DOMAIN dest : dest[b] # Hole => dest'[b] = dest[b]
  BY <1>1 DEF IInv, DestFaithful
<1>7. QED
  BY <1>1, <1>2, <1>3, <1>4, <1>5, <1>6
     DEF CallerView!CopyBytes, CallerView!Copied, CallerView!Hole, Hole, layoutVars

LEMMA BreakImplements ==
  ASSUME IInv, NEW s \in Segments, NEW res, Break(s, res)
  PROVE  CallerView!GiveUp
<1>1. /\ UNCHANGED <<layoutVars, dest, main, loopVars>>
      /\ pc[s] = "copy" /\ failed' = failed \union {s}
  BY DEF Break
<1>2. main # "returned" /\ failed \subseteq Segments
  BY <1>1 DEF IInv, TypeOK, EndsAgree, AllFinished
<1>3. GivenUp' = GivenUp \union (off_out[s]..(end_byte[s] - 1))
  BY <1>1 DEF GivenUp, loopVars, layoutVars
<1>4. ASSUME NEW t \in failed \union {s}, NEW b \in off_out[t]..(end_byte[t] - 1)
      PROVE  ~OnDisk(b)
  <2>1. t \in Segments /\ Started(t)
    BY <1>1, <1>2 DEF IInv, EndsAgree, Started
  <2>2. /\ start_byte[t] \in Nat /\ end_byte[t] \in Nat /\ off_out[t] \in Nat
        /\ copied_offset[t] \in Nat /\ bytes_threshold[t] \in Nat
    BY <2>1 DEF IInv, TypeOK
  <2>3. start_byte[t] <= off_out[t]
    BY <2>1, <2>2 DEF IInv, OffsetsAgree, LastCopiedByte, Unreported
  <2>4. b \in start_byte[t]..(end_byte[t] - 1) /\ ~(b < off_out[t])
    BY <2>2, <2>3
  <2>5. QED
    BY <2>1, <2>4 DEF IInv, CopiedUpToOffset
<1>5. \A b \in GivenUp' : ~OnDisk(b)
  BY <1>3, <1>4 DEF GivenUp
<1>6. QED
  BY <1>1, <1>2, <1>3, <1>5
     DEF CallerView!GiveUp, CallerView!Copied, CallerView!Hole, OnDisk, Hole, layoutVars

LEMMA ReturnImplements ==
  ASSUME IInv, Return
  PROVE  CallerView!Return
<1>1. /\ UNCHANGED <<layoutVars, dest, loopVars, failed>>
      /\ main # "returned" /\ main' = "returned" /\ AllFinished
  BY DEF Return, IInv, EndsAgree
<1>2. ASSUME NEW b \in 0..(total_size - 1), b \notin GivenUp
      PROVE  OnDisk(b)
  <2>1. PICK s \in Segments : start_byte[s] <= b /\ b < end_byte[s]
    BY DEF IInv, Apart
  <2>2. /\ start_byte[s] \in Nat /\ end_byte[s] \in Nat /\ off_out[s] \in Nat
        /\ remaining[s] \in Nat /\ total_size \in Nat
    BY DEF IInv, TypeOK
  <2>3. pc[s] = "finished" /\ Started(s)
    BY <1>1 DEF AllFinished, Started
  <2>4. b < off_out[s]
    <3>1. CASE s \in failed
      BY <1>2, <2>1, <2>2, <3>1 DEF GivenUp
    <3>2. CASE s \notin failed
      BY <2>1, <2>2, <2>3, <3>2 DEF IInv, EndsAgree, OffsetsAgree
    <3>3. QED
      BY <3>1, <3>2
  <2>5. b \in start_byte[s]..(end_byte[s] - 1)
    BY <2>1, <2>2
  <2>6. QED
    BY <2>3, <2>4, <2>5 DEF IInv, CopiedUpToOffset
<1>3. 0..(total_size - 1) \subseteq CallerView!Copied(dest) \union GivenUp
  BY <1>2 DEF OnDisk, CallerView!Copied, CallerView!Hole, Hole
<1>4. GivenUp' = GivenUp
  BY <1>1 DEF GivenUp, loopVars, layoutVars
<1>5. QED
  BY <1>1, <1>3, <1>4 DEF CallerView!Return, layoutVars

\* To its caller write_segments is FileCopy: bytes arrive in any order, each at its
\* place, and what is missing at the end was given up by a task that failed.
THEOREM Refinement == Spec => Implements
<1>1. Init => CallerView!Init
  <2> SUFFICES ASSUME Init
               PROVE  CallerView!Init
    OBVIOUS
  <2>1. total_size \in Nat /\ src_size \in Nat
    BY InitInvariant DEF IInv, TypeOK
  <2>2. GivenUp = {}
    BY DEF Init, GivenUp
  <2>3. QED
    BY <2>1, <2>2 DEF Init, CallerView!Init, CallerView!Hole, Hole
<1>2. IInv /\ [Next]_vars => [CallerView!Next]_(CallerView!vars)
  <2> SUFFICES ASSUME IInv, [Next]_vars
               PROVE  [CallerView!Next]_(CallerView!vars)
    OBVIOUS
  <2> USE DEF CallerView!Next, CallerView!vars
  <2>1. ASSUME NEW s \in Segments, NEW n, CopyBy(s, n)
        PROVE  CallerView!CopyBytes
    BY <2>1, CopyImplements
  <2>2. ASSUME NEW s \in Segments, NEW res, Break(s, res)
        PROVE  CallerView!GiveUp
    BY <2>2, BreakImplements
  <2>3. CASE Return
    BY <2>3, ReturnImplements
  <2>4. ASSUME NEW s \in Segments, Begin(s)
        PROVE  UNCHANGED CallerView!vars
    <3>1. s \notin failed /\ failed \subseteq Segments
      BY <2>4 DEF Begin, IInv, TypeOK, EndsAgree
    <3>2. \A t \in failed : off_out'[t] = off_out[t]
      BY <2>4, <3>1 DEF Begin, IInv, TypeOK
    <3>3. QED
      BY <2>4, <3>2 DEF Begin, GivenUp, layoutVars
  <2>5. ASSUME NEW s \in Segments, ReportStep(s)
        PROVE  UNCHANGED CallerView!vars
    BY <2>5, ReportKeeps DEF GivenUp, layoutVars, loopVars
  <2>6. ASSUME NEW s \in Segments, LoopEnds(s)
        PROVE  UNCHANGED CallerView!vars
    BY <2>6 DEF LoopEnds, GivenUp, layoutVars, loopVars
  <2>7. ASSUME CallPoolStop \/ PoolStopped \/ (\E s \in Segments : Submit(s)) \/ UNCHANGED vars
        PROVE  UNCHANGED CallerView!vars
    BY <2>7 DEF CallPoolStop, PoolStopped, Submit, vars, GivenUp, layoutVars, loopVars
  <2>8. QED
    BY <2>1, <2>2, <2>3, <2>4, <2>5, <2>6, <2>7, StepCases DEF WriteSegments
<1>3. QED
  BY <1>1, <1>2, Invariance, PTL DEF Spec, Implements, CallerView!Spec
=============================================================================
