---------------------------- MODULE Layout_proofs ----------------------------
(***************************************************************************)
(* Proofs about Layout: for every file size, every thread count and every  *)
(* threshold, not only those a run enumerates.                             *)
(***************************************************************************)
EXTENDS BufferSize, SequenceTheorems, TLAPS

-----------------------------------------------------------------------------
(* Arithmetic. *)

\* Division with remainder, as get_segment_size uses it.
LEMMA DivMod ==
  ASSUME NEW a \in Nat, NEW t \in Nat, t > 0
  PROVE  /\ a \div t \in Nat
         /\ a % t \in 0..(t - 1)
         /\ a = t * (a \div t) + (a % t)
OBVIOUS

\* One more step of the loop is one more segment_size.
LEMMA OneMore == \A n, q \in Nat : n * q \in Nat /\ (n + 1) * q = n * q + q
OBVIOUS

\* A segment of a divided file is never longer than the file.
LEMMA SizeFits ==
  ASSUME NEW t \in Nat, t > 0, NEW q \in Nat, NEW r \in Nat
  PROVE  /\ q <= t * q + r
         /\ r > 0 => q + 1 <= t * q + r
<1>1. t * q = (t - 1) * q + q /\ (t - 1) * q \in Nat
  BY OneMore, t - 1 \in Nat
<1>2. t * q >= q
  BY <1>1
<1>3. t * q \in Nat
  BY <1>1
<1>4. QED
  BY <1>2, <1>3
-----------------------------------------------------------------------------
(* The inductive invariant. *)

Cutting == pc \in {"loop", "done"} /\ thread_count > 0

\* What get_segment_size promises the loop.
SizesAgree ==
  Cutting =>
    IF Small THEN segment_size = total_file_size /\ remainder = 0
    ELSE /\ remainder < thread_count
         /\ total_file_size = thread_count * segment_size + remainder

\* Where the loop stands after n segments: n times the segment size, plus one
\* byte for each segment that got one of the remainder.
StartAgrees ==
  Cutting =>
    start_byte = Len(segments) * segment_size + Least(Len(segments), remainder)

\* The segments built so far tile 0..(start_byte - 1).
Tiled ==
  /\ \A k \in 1..Len(segments) :
       segments[k].start <= segments[k].end /\ segments[k].end <= start_byte
  /\ \A b \in 0..(start_byte - 1) : \E k \in 1..Len(segments) : Holds(k, b)

\* A segment is as long as the size it was given.
Sized ==
  Cutting => \A k \in 1..Len(segments) :
    IF Small THEN /\ Length(k) = segment_size
                  /\ k > 1 => segments[k].start >= total_file_size
             ELSE Length(k) \in {segment_size, segment_size + 1}

Progress ==
  /\ pc = "size" => segments = <<>> /\ start_byte = 0
  /\ pc = "done" => Len(segments) = thread_count

IInv ==
  /\ TypeOK
  /\ Progress
  /\ SizesAgree
  /\ StartAgrees
  /\ Tiled
  /\ Disjoint
  /\ Sized
-----------------------------------------------------------------------------
\* Why the min() of the code never shortens the segment an iteration adds.
LEMMA NextSizeFits ==
  ASSUME IInv, pc = "loop", MoreToCut
  PROVE  /\ NextSize \in Nat
         /\ Least(NextSize, total_file_size) = NextSize
         /\ Cutting
<1> USE DEF IInv, TypeOK, NextSize, Extra, MoreToCut, Least, Cutting
<1>1. Cutting
  OBVIOUS
<1>2. NextSize \in Nat
  OBVIOUS
<1>3. NextSize <= total_file_size
  <2>1. CASE Small
    BY <2>1, <1>1 DEF SizesAgree
  <2>2. CASE ~Small
    <3>1. total_file_size = thread_count * segment_size + remainder
      BY <2>2, <1>1 DEF SizesAgree
    <3>2. /\ segment_size <= total_file_size
          /\ remainder > 0 => segment_size + 1 <= total_file_size
      BY <3>1, SizeFits
    <3>3. QED
      BY <3>2
  <2>3. QED
    BY <2>1, <2>2
<1>4. QED
  BY <1>1, <1>2, <1>3

\* What one iteration does to the sequence of segments.
LEMMA AddSegmentEffect ==
  ASSUME IInv, AddSegment
  PROVE  /\ Len(segments') = Len(segments) + 1
         /\ start_byte' = start_byte + NextSize
         /\ segments' \in Seq(Segment)
         /\ \A k \in 1..Len(segments) : segments'[k] = segments[k]
         /\ segments'[Len(segments) + 1] =
              [start |-> start_byte, end |-> start_byte + NextSize]
<1> DEFINE new == [start |-> start_byte, end |-> start_byte + NextSize]
<1>1. /\ NextSize \in Nat
      /\ segments' = Append(segments, new)
      /\ start_byte' = start_byte + NextSize
  BY NextSizeFits DEF AddSegment, NextStart
<1>2. new \in Segment /\ segments \in Seq(Segment)
  BY <1>1 DEF IInv, TypeOK, Segment
<1> HIDE DEF new
<1>3. QED
  BY <1>1, <1>2, AppendProperties DEF new
-----------------------------------------------------------------------------
LEMMA AddSegmentPreserves ==
  ASSUME IInv, AddSegment
  PROVE  IInv'
<1> DEFINE n == Len(segments)
           HoldsNow(k, b) == segments'[k].start <= b /\ b < segments'[k].end
<1>1. /\ n \in Nat
      /\ n < thread_count
      /\ pc = "loop" /\ Cutting
      /\ NextSize \in Nat
      /\ UNCHANGED <<total_file_size, thread_count, pc, segment_size, remainder>>
  BY NextSizeFits DEF AddSegment, MoreToCut, IInv, TypeOK
<1>2. /\ Len(segments') = n + 1
      /\ start_byte' = start_byte + NextSize
      /\ segments' \in Seq(Segment)
      /\ \A k \in 1..n : segments'[k] = segments[k]
      /\ segments'[n + 1].start = start_byte
      /\ segments'[n + 1].end = start_byte + NextSize
  BY AddSegmentEffect
<1>3. start_byte \in Nat /\ segments \in Seq(Segment)
  BY DEF IInv, TypeOK
<1>4. \A k \in 1..n : segments[k].start \in Nat /\ segments[k].end \in Nat
  <2>1. \A k \in 1..n : segments[k] \in Segment
    BY <1>3, ElementOfSeq
  <2>2. QED
    BY <2>1 DEF Segment
<1> HIDE DEF n
<1>5. TypeOK'
  <2>1. segments' # <<>> /\ LastEnd' = segments'[n + 1].end
    BY <1>1, <1>2 DEF LastEnd
  <2>2. QED
    BY <1>1, <1>2, <1>3, <2>1 DEF IInv, TypeOK
<1>6. Progress' /\ SizesAgree'
  BY <1>1, <1>2 DEF IInv, TypeOK, Progress, SizesAgree, Cutting, Small
<1>7. StartAgrees'
  <2>1. start_byte = n * segment_size + Least(n, remainder)
    BY <1>1 DEF IInv, StartAgrees, n
  <2>2. (n + 1) * segment_size = n * segment_size + segment_size
    BY <1>1, OneMore DEF IInv, TypeOK
  <2>3. n * segment_size \in Nat
    BY <1>1, OneMore DEF IInv, TypeOK
  <2>4. Least(n + 1, remainder) =
          Least(n, remainder) + (IF remainder > n THEN 1 ELSE 0)
    BY <1>1 DEF Least, IInv, TypeOK
  <2>5. Least(n, remainder) \in Nat
    BY <1>1 DEF Least, IInv, TypeOK
  <2>6. start_byte' = (n + 1) * segment_size + Least(n + 1, remainder)
    BY <1>1, <1>2, <2>1, <2>2, <2>3, <2>4, <2>5 DEF NextSize, Extra, n, IInv, TypeOK
  <2>7. QED
    BY <1>1, <1>2, <2>6 DEF StartAgrees, Least
<1>8. Tiled'
  <2>1. \A k \in 1..n :
          segments[k].start <= segments[k].end /\ segments[k].end <= start_byte
    BY DEF IInv, Tiled, n
  <2>2. ASSUME NEW k \in 1..(n + 1)
        PROVE  /\ segments'[k].start <= segments'[k].end
               /\ segments'[k].end <= start_byte'
    <3>1. CASE k \in 1..n
      BY <3>1, <2>1, <1>1, <1>2, <1>3, <1>4
    <3>2. CASE k = n + 1
      BY <3>2, <1>1, <1>2, <1>3
    <3>3. QED
      BY <3>1, <3>2, <1>1
  <2>3. ASSUME NEW b \in 0..(start_byte' - 1)
        PROVE  \E k \in 1..Len(segments') : HoldsNow(k, b)
    <3>1. CASE b < start_byte
      <4>1. b \in 0..(start_byte - 1)
        BY <3>1, <1>1, <1>2, <1>3
      <4>2. PICK k \in 1..n : Holds(k, b)
        BY <4>1 DEF IInv, Tiled, n
      <4>3. k \in 1..Len(segments') /\ HoldsNow(k, b)
        BY <4>2, <1>1, <1>2 DEF Holds
      <4>4. QED
        BY <4>3
    <3>2. CASE b >= start_byte
      <4>1. n + 1 \in 1..Len(segments') /\ HoldsNow(n + 1, b)
        BY <3>2, <1>1, <1>2, <1>3
      <4>2. QED
        BY <4>1
    <3>3. QED
      BY <3>1, <3>2, <1>1, <1>2, <1>3
  <2>4. \A k \in 1..Len(segments') :
          /\ segments'[k].start <= segments'[k].end
          /\ segments'[k].end <= start_byte'
    BY <2>2, <1>2
  <2>5. QED
    BY <2>3, <2>4 DEF Tiled, Holds
<1>9. Disjoint'
  <2>1. ASSUME NEW k \in 1..(n + 1), NEW l \in 1..(n + 1), k < l
        PROVE  segments'[k].end <= segments'[l].start
    <3>1. CASE l \in 1..n
      <4>1. k \in 1..n
        BY <2>1, <3>1, <1>1
      <4>2. QED
        BY <2>1, <3>1, <4>1, <1>2 DEF IInv, Disjoint, n
    <3>2. CASE l = n + 1
      <4>1. k \in 1..n
        BY <2>1, <3>2, <1>1
      <4>2. segments[k].end <= start_byte
        BY <4>1 DEF IInv, Tiled, n
      <4>3. QED
        BY <3>2, <4>1, <4>2, <1>2
    <3>3. QED
      BY <3>1, <3>2, <1>1
  <2>2. QED
    BY <2>1, <1>2 DEF Disjoint
<1>10. Sized'
  <2> SUFFICES ASSUME NEW k \in 1..(n + 1)
               PROVE  IF Small THEN /\ Length(k)' = segment_size
                                    /\ k > 1 => segments'[k].start >= total_file_size
                      ELSE Length(k)' \in {segment_size, segment_size + 1}
    BY <1>1, <1>2 DEF Sized, Small, Cutting
  <2>1. CASE k \in 1..n
    BY <2>1, <1>1, <1>2 DEF IInv, Sized, Length, n
  <2>2. CASE k = n + 1 /\ Small
    <3>1. start_byte = n * total_file_size + Least(n, 0)
      BY <2>2, <1>1 DEF IInv, StartAgrees, SizesAgree, n
    <3>2. Least(n, 0) = 0
      BY <1>1 DEF Least
    <3>3. ASSUME k > 1
          PROVE  n * total_file_size >= total_file_size
      <4>1. n - 1 \in Nat /\ total_file_size \in Nat
        BY <2>2, <3>3, <1>1 DEF IInv, TypeOK
      <4>2. n * total_file_size = (n - 1) * total_file_size + total_file_size
        BY <4>1, OneMore, <1>1
      <4>3. (n - 1) * total_file_size \in Nat
        BY <4>1, OneMore
      <4>4. QED
        BY <4>1, <4>2, <4>3
    <3>4. n * total_file_size \in Nat
      BY <1>1, OneMore DEF IInv, TypeOK
    <3>5. k > 1 => segments'[k].start >= total_file_size
      BY <2>2, <3>1, <3>2, <3>3, <3>4, <1>2
    <3>6. Length(k)' = segment_size
      BY <2>2, <1>1, <1>2, <1>3 DEF Length, NextSize, Extra, SizesAgree, IInv, TypeOK
    <3>7. QED
      BY <2>2, <3>5, <3>6
  <2>3. CASE k = n + 1 /\ ~Small
    BY <2>3, <1>1, <1>2, <1>3 DEF Length, NextSize, Extra, IInv, TypeOK
  <2>4. QED
    BY <2>1, <2>2, <2>3, <1>1
<1>11. QED
  BY <1>5, <1>6, <1>7, <1>8, <1>9, <1>10 DEF IInv

LEMMA GetSegmentSizePreserves ==
  ASSUME IInv, GetSegmentSize
  PROVE  IInv'
<1>1. /\ segments = <<>> /\ start_byte = 0
      /\ UNCHANGED <<total_file_size, thread_count, start_byte, segments>>
      /\ pc' = "loop"
  BY DEF GetSegmentSize, IInv, Progress
<1>2. Len(segments) = 0
  BY <1>1, EmptySeq
<1>3. TypeOK' /\ SizesAgree'
  <2>1. CASE Small
    BY <2>1, <1>1 DEF GetSegmentSize, IInv, TypeOK, LastEnd, SizesAgree, Small
  <2>2. CASE ~Small
    <3>1. thread_count > 0
      BY <2>2 DEF GetSegmentSize
    <3>2. /\ segment_size' \in Nat
          /\ remainder' \in 0..(thread_count - 1)
          /\ total_file_size = thread_count * segment_size' + remainder'
      BY <2>2, <3>1, DivMod DEF GetSegmentSize, Quotient, IInv, TypeOK
    <3>3. thread_count \in Nat /\ total_file_size \in Nat
      BY DEF IInv, TypeOK
    <3>4. remainder' \in Nat /\ remainder' < thread_count
      BY <3>2, <3>3
    <3>5. TypeOK'
      BY <1>1, <3>2, <3>4 DEF IInv, TypeOK, LastEnd
    <3>6. SizesAgree'
      BY <2>2, <1>1, <3>2, <3>4 DEF SizesAgree, Small
    <3>7. QED
      BY <3>5, <3>6
  <2>3. QED
    BY <2>1, <2>2
<1>4. StartAgrees'
  <2>1. segment_size' \in Nat /\ remainder' \in Nat
    BY <1>3 DEF TypeOK
  <2>2. start_byte' = 0 /\ Len(segments') = 0
    BY <1>1, <1>2
  <2>3. \A q \in Nat : 0 * q = 0 /\ Least(0, q) = 0
    BY DEF Least
  <2>4. 0 * segment_size' = 0 /\ Least(0, remainder') = 0
    BY <2>1, <2>3
  <2>5. QED
    BY <2>2, <2>4 DEF StartAgrees, Least
<1>5. 1..Len(segments') = {} /\ 0..(start_byte' - 1) = {}
  BY <1>1, <1>2
<1>6. Tiled' /\ Disjoint' /\ Sized'
  BY <1>5 DEF Tiled, Disjoint, Sized
<1>7. Progress'
  BY <1>1 DEF Progress
<1>8. QED
  BY <1>3, <1>4, <1>6, <1>7 DEF IInv

\* The invariant holds at first.
LEMMA InitInvariant ==
  ASSUME Init
  PROVE  IInv
<1>1. /\ segments \in Seq(Segment) /\ Len(segments) = 0
      /\ start_byte = 0
      /\ pc = "size"
  BY EmptySeq DEF Init
<1>2. TypeOK
  BY <1>1, LayoutAssumption DEF Init, TypeOK, LastEnd
<1>3. 1..Len(segments) = {} /\ 0..(start_byte - 1) = {}
  BY <1>1
<1>4. Tiled /\ Disjoint
  BY <1>3 DEF Tiled, Disjoint
<1>5. Progress /\ SizesAgree /\ StartAgrees /\ Sized
  BY <1>1 DEF Init, Progress, SizesAgree, StartAgrees, Sized, Cutting
<1>6. QED
  BY <1>2, <1>4, <1>5 DEF IInv

\* No step breaks it.
LEMMA StepPreserves ==
  ASSUME IInv, [Next]_vars
  PROVE  IInv'
<1>1. CASE GetSegmentSize
  BY <1>1, GetSegmentSizePreserves
<1>2. CASE DivisionByZero
  <2>1. /\ thread_count = 0 /\ pc = "size" /\ pc' \in {"fault", "loop"}
        /\ UNCHANGED <<total_file_size, thread_count, segment_size,
                       remainder, start_byte, segments>>
    BY <1>2 DEF DivisionByZero
  <2>2. TypeOK' /\ Tiled' /\ Disjoint'
    BY <2>1 DEF IInv, TypeOK, LastEnd, Tiled, Disjoint, Holds
  <2>3. Progress' /\ SizesAgree' /\ StartAgrees' /\ Sized'
    BY <2>1 DEF Progress, SizesAgree, StartAgrees, Sized, Cutting
  <2>4. QED
    BY <2>2, <2>3 DEF IInv
<1>3. CASE AddSegment
  BY <1>3, AddSegmentPreserves
<1>4. CASE Finish
  <2>1. /\ pc = "loop" /\ pc' = "done"
        /\ Len(segments) = thread_count
        /\ UNCHANGED <<total_file_size, thread_count, segment_size,
                       remainder, start_byte, segments>>
    BY <1>4 DEF Finish
  <2>2. TypeOK' /\ Progress' /\ Tiled' /\ Disjoint'
    BY <2>1 DEF IInv, TypeOK, LastEnd, Progress, Tiled, Disjoint, Holds
  <2>3. SizesAgree' /\ StartAgrees' /\ Sized'
    BY <2>1 DEF IInv, SizesAgree, StartAgrees, Sized, Cutting, Small, Length
  <2>4. QED
    BY <2>2, <2>3 DEF IInv
<1>5. CASE UNCHANGED vars
  BY <1>5 DEF vars, IInv, TypeOK, LastEnd, Progress, SizesAgree, StartAgrees, Tiled,
              Disjoint, Sized, Cutting, Small, Holds, Length
<1>6. QED
  BY <1>1, <1>2, <1>3, <1>4, <1>5 DEF Next

\* The inductive invariant holds in every reachable state.
THEOREM Invariance == Spec => []IInv
BY InitInvariant, StepPreserves, PTL DEF Spec
-----------------------------------------------------------------------------
\* When the loop is over it stands at the end of the file or, for a file too
\* small to be cut, beyond it.
LEMMA LoopReachesEnd ==
  ASSUME IInv, pc = "done", thread_count > 0
  PROVE  /\ start_byte >= total_file_size
         /\ ~Small => start_byte = total_file_size
<1>1. /\ Len(segments) = thread_count
      /\ Cutting
      /\ thread_count \in Nat /\ segment_size \in Nat /\ remainder \in Nat
      /\ total_file_size \in Nat
  BY DEF IInv, TypeOK, Progress, Cutting
<1>2. start_byte = thread_count * segment_size + Least(thread_count, remainder)
  BY <1>1 DEF IInv, StartAgrees
<1>3. CASE Small
  <2>1. segment_size = total_file_size /\ remainder = 0
    BY <1>1, <1>3 DEF IInv, SizesAgree
  <2>2. total_file_size <= thread_count * total_file_size + 0
    BY <1>1, SizeFits, 0 \in Nat
  <2>3. Least(thread_count, 0) = 0
    BY <1>1 DEF Least
  <2>4. QED
    BY <1>2, <1>3, <2>1, <2>2, <2>3
<1>4. CASE ~Small
  BY <1>1, <1>2, <1>4 DEF IInv, SizesAgree, Least
<1>5. QED
  BY <1>3, <1>4

\* Whatever the size of the file and the number of threads, every byte of the
\* file belongs to exactly one of the segments handed to the pool.
THEOREM EveryByteInOneSegment == Spec => []EveryByteOnce
<1>1. IInv => EveryByteOnce
  <2> SUFFICES ASSUME IInv, pc = "done", thread_count > 0,
                      NEW b \in 0..(total_file_size - 1)
               PROVE  \E k \in 1..thread_count :
                        /\ Holds(k, b)
                        /\ \A l \in 1..thread_count : Holds(l, b) => l = k
    BY DEF EveryByteOnce
  <2>1. Len(segments) = thread_count
    BY DEF IInv, Progress
  <2>2. b \in 0..(start_byte - 1)
    BY LoopReachesEnd DEF IInv, TypeOK
  <2>3. PICK k \in 1..thread_count : Holds(k, b)
    BY <2>1, <2>2 DEF IInv, Tiled
  <2>4. ASSUME NEW l \in 1..thread_count, Holds(l, b)
        PROVE  l = k
    <3>1. segments[k] \in Segment /\ segments[l] \in Segment
      BY <2>1, ElementOfSeq DEF IInv, TypeOK
    <3>2. ~(k < l) /\ ~(l < k)
      <4>1. /\ k < l => segments[k].end <= segments[l].start
            /\ l < k => segments[l].end <= segments[k].start
        BY <2>1 DEF IInv, Disjoint
      <4>2. QED
        BY <2>3, <2>4, <3>1, <4>1 DEF Holds, Segment
    <3>3. k \in Nat /\ l \in Nat
      BY DEF IInv, TypeOK
    <3>4. QED
      BY <3>2, <3>3
  <2>5. QED
    BY <2>3, <2>4
<1>2. QED
  BY <1>1, Invariance, PTL

\* Two tasks of the pool never copy the same byte, past the end of a small file
\* included.
THEOREM SegmentsDisjoint == Spec => []Disjoint
BY Invariance, PTL DEF IInv

\* Segments reach past the end of the file only when the file was too small to
\* be cut, and then none but the first holds a byte of it.
THEOREM OnlySmallFilesOverrun == Spec => []PastTheEnd
<1>1. IInv => PastTheEnd
  <2> SUFFICES ASSUME IInv, pc = "done", NEW k \in 1..thread_count
               PROVE  IF Small THEN k > 1 => segments[k].start >= total_file_size
                      ELSE segments[k].end <= total_file_size
    BY DEF PastTheEnd
  <2>1. Len(segments) = thread_count /\ Cutting
    BY DEF IInv, Progress, Cutting, TypeOK
  <2>2. CASE Small
    BY <2>1, <2>2 DEF IInv, Sized
  <2>3. CASE ~Small
    <3>1. segments[k].end <= start_byte /\ start_byte = total_file_size
      BY <2>1, <2>3, LoopReachesEnd DEF IInv, Tiled, Cutting
    <3>2. QED
      BY <2>3, <3>1
  <2>4. QED
    BY <2>2, <2>3
<1>2. QED
  BY <1>1, Invariance, PTL

\* The state of the loop keeps its type, for any size and number of threads.
THEOREM TypeCorrect == Spec => []TypeOK
BY Invariance, PTL DEF IInv

\* However a file is cut, no thread gets more than one byte more than another.
THEOREM EvenlyCut == Spec => []Balanced
<1>1. IInv => Balanced
  <2> SUFFICES ASSUME IInv, pc = "done",
                      NEW k \in 1..thread_count, NEW l \in 1..thread_count
               PROVE  Length(k) - Length(l) <= 1
    BY DEF Balanced
  <2>1. /\ Len(segments) = thread_count /\ Cutting
        /\ segment_size \in Nat
    BY DEF IInv, Progress, Cutting, TypeOK
  <2>2. /\ Length(k) \in {segment_size, segment_size + 1}
        /\ Length(l) \in {segment_size, segment_size + 1}
        /\ Small => Length(k) = Length(l)
    BY <2>1 DEF IInv, Sized
  <2>3. QED
    BY <2>1, <2>2
<1>2. QED
  BY <1>1, Invariance, PTL
-----------------------------------------------------------------------------
(* BufferSize: how much a call asks for, for any bounds in the right order and  *)
(* any durations of the calls.                                                 *)

SizeInBounds == buffer_size \in MIN_BUF_SIZE..MAX_BUF_SIZE

\* A throughput is a quotient of naturals.
IsThroughput(t) == t = <<t[1], t[2]>> /\ t[1] \in Nat /\ t[2] \in Nat \ {0}

\* The inductive invariant: Layout's, the size within its bounds, nothing to copy
\* before the loop, and a throughput.
BufferInv ==
  /\ IInv /\ SizeInBounds
  /\ remaining \in Int /\ (task = 0 => remaining = 0)
  /\ IsThroughput(current_throughput)

\* Rounded down, one and a half times a size is not less than it, and two thirds
\* of it are not more.
LEMMA ScaledSizes ==
  ASSUME NEW n \in Nat
  PROVE  /\ (n * 3) \div 2 \in Nat /\ (n * 3) \div 2 >= n
         /\ (n * 2) \div 3 \in Nat /\ (n * 2) \div 3 <= n
         /\ (n * 21) \div 20 \in Nat
OBVIOUS

\* Whatever was measured, the next size is within the bounds if the last one was.
LEMMA OptimalInBounds ==
  ASSUME SizeInBounds, NEW current, NEW prev, NEW ns,
         NEW size \in OptimalSizes(current, prev, ns, buffer_size)
  PROVE  size \in MIN_BUF_SIZE..MAX_BUF_SIZE
<1> DEFINE n == buffer_size
<1>1. /\ MIN_BUF_SIZE \in Nat /\ MAX_BUF_SIZE \in Nat /\ BASELINE_BUF_SIZE \in Nat
      /\ MIN_BUF_SIZE <= BASELINE_BUF_SIZE /\ BASELINE_BUF_SIZE <= MAX_BUF_SIZE
  BY BufferAssumption
<1>2. n \in Nat /\ MIN_BUF_SIZE <= n /\ n <= MAX_BUF_SIZE
  BY <1>1 DEF SizeInBounds
<1>3. Faster(n) \in MIN_BUF_SIZE..MAX_BUF_SIZE
  BY <1>1, <1>2, ScaledSizes DEF Faster, Least
<1>4. Slower(n) \in MIN_BUF_SIZE..MAX_BUF_SIZE
  BY <1>1, <1>2, ScaledSizes DEF Slower, Greatest
<1>5. Steady(n) \in MIN_BUF_SIZE..MAX_BUF_SIZE
  BY <1>1, <1>2, ScaledSizes DEF Steady, Least, Greatest
<1>6. size \in {BASELINE_BUF_SIZE, Faster(n), Slower(n), Steady(n)}
  BY DEF OptimalSizes
<1>7. QED
  BY <1>1, <1>3, <1>4, <1>5, <1>6

LEMMA MeasuredThroughput ==
  ASSUME NEW res \in 1..r_size, NEW ns \in Durations
  PROVE  IsThroughput(compute_transfer_speed(res, ns))
<1>1. res \in Nat /\ ns \in Nat
  BY BufferAssumption
<1>2. QED
  BY <1>1 DEF compute_transfer_speed, NoThroughput, IsThroughput

\* The copy loop keeps Layout's segments, the size in its bounds and a throughput.
THEOREM BufferInvariance == BufferSpec => []BufferInv
<1>1. BufferInit => BufferInv
  <2> SUFFICES ASSUME BufferInit
               PROVE  BufferInv
    OBVIOUS
  <2>1. IInv
    BY InitInvariant DEF BufferInit
  <2>2. QED
    BY <2>1, BufferAssumption
       DEF BufferInit, BufferInv, SizeInBounds, IsThroughput, NoThroughput
<1>2. BufferInv /\ [Cut \/ DirectWrite]_allVars => BufferInv'
  <2> SUFFICES ASSUME BufferInv, [Cut \/ DirectWrite]_allVars
               PROVE  BufferInv'
    OBVIOUS
  <2>1. CASE Cut
    BY <2>1, StepPreserves DEF Cut, BufferInv, SizeInBounds, bufferVars
  <2>2. ASSUME NEW k \in 1..Len(segments), Begin(k)
        PROVE  BufferInv'
    <3>1. segments[k] \in Segment
      BY ElementOfSeq DEF BufferInv, IInv, TypeOK
    <3>2. segments[k].start \in Nat /\ segments[k].end \in Nat
      BY <3>1 DEF Segment
    <3>3. /\ remaining' \in Int /\ task' # 0
          /\ UNCHANGED <<buffer_size, current_throughput>> /\ UNCHANGED vars
      BY <2>2, <3>2 DEF Begin
    <3>4. QED
      BY <3>3, StepPreserves DEF BufferInv, SizeInBounds
  <2>3. ASSUME NEW res \in 1..r_size, NEW ns \in Durations, CopyFileRange(res, ns)
        PROVE  BufferInv'
    <3>1. UNCHANGED vars /\ res \in Int /\ remaining' = remaining - res /\ task' # 0
      BY <2>3 DEF CopyFileRange
    <3>2. buffer_size' \in MIN_BUF_SIZE..MAX_BUF_SIZE
      BY <2>3, OptimalInBounds DEF CopyFileRange, BufferInv
    <3>3. IsThroughput(current_throughput')
      BY <2>3, MeasuredThroughput DEF CopyFileRange
    <3>4. QED
      BY <3>1, <3>2, <3>3, StepPreserves DEF BufferInv, SizeInBounds
  <2>4. CASE UNCHANGED allVars
    BY <2>4, StepPreserves DEF allVars, bufferVars, BufferInv, SizeInBounds
  <2>5. QED
    BY <2>1, <2>2, <2>3, <2>4 DEF DirectWrite
<1>3. QED
  BY <1>1, <1>2, PTL DEF BufferSpec

\* Whatever the calls return and however long they take: while bytes remain a call
\* asks for at least one of them, and the size stays between its bounds.
THEOREM RequestsInBounds == BufferSpec => []RequestsBounded
<1>1. BufferInv => RequestsBounded
  BY BufferAssumption DEF BufferInv, SizeInBounds, RequestsBounded, r_size, Least
<1>2. QED
  BY <1>1, BufferInvariance, PTL

\* A call that was slow is followed by a smaller size or the least one.
LEMMA SlowCallsShrink ==
  ASSUME SizeInBounds, NEW current, current[1] \in Nat \ {0}, NEW prev,
         NEW ns \in Nat, ns > HIGH_LATENCY_NS,
         NEW size \in OptimalSizes(current, prev, ns, buffer_size)
  PROVE  size <= buffer_size
<1>1. /\ MIN_BUF_SIZE \in Nat /\ MAX_BUF_SIZE \in Nat /\ HIGH_LATENCY_NS \in Nat \ {0}
      /\ buffer_size \in Nat /\ MIN_BUF_SIZE <= buffer_size
  BY BufferAssumption DEF SizeInBounds
<1>2. ~(ns <= 0) /\ ~(current[1] <= 0) /\ ~(ns < HIGH_LATENCY_NS) /\ HighLatency(ns)
  BY <1>1 DEF HighLatency
<1>3. size = Slower(buffer_size)
  BY <1>2 DEF OptimalSizes
<1>4. QED
  BY <1>1, <1>3, ScaledSizes DEF Slower, Greatest

\* After a quick call that was no slower than the one before, the size grows: the
\* ratio of the throughputs is at least 1, so that it is not made smaller, and a
\* twentieth of the least size is not rounded to nothing.
LEMMA QuickCallsGrow ==
  ASSUME SizeInBounds, NEW current, NEW prev,
         IsThroughput(current), current[1] # 0, IsThroughput(prev),
         AtLeast(current, prev),
         NEW ns \in 1..(HIGH_LATENCY_NS - 1),
         NEW size \in OptimalSizes(current, prev, ns, buffer_size)
  PROVE  size > buffer_size \/ size = MAX_BUF_SIZE
<1> DEFINE n == buffer_size
           r == Ratio(current, prev)
<1>1. /\ MIN_BUF_SIZE \in Nat /\ MAX_BUF_SIZE \in Nat /\ HIGH_LATENCY_NS \in Nat \ {0}
      /\ n \in Nat /\ 20 <= n /\ MIN_BUF_SIZE <= n /\ n <= MAX_BUF_SIZE
      /\ MIN_BUF_SIZE <= MAX_BUF_SIZE
  BY BufferAssumption DEF SizeInBounds
<1>2. ns \in Nat /\ ~(ns <= 0) /\ ~(current[1] <= 0) /\ ~HighLatency(ns)
  BY <1>1 DEF HighLatency, IsThroughput
<1>3. r[1] \in Nat \ {0} /\ r[2] \in Nat /\ r[1] >= r[2]
  <2>1. CASE prev[1] > 0
    <3>1. r[1] = current[1] * prev[2] /\ r[2] = current[2] * prev[1]
      BY <2>1 DEF Ratio
    <3>2. \A a, b \in Nat \ {0} : a * b \in Nat \ {0}
      OBVIOUS
    <3>3. /\ current[1] \in Nat \ {0} /\ current[2] \in Nat \ {0}
          /\ prev[1] \in Nat \ {0} /\ prev[2] \in Nat \ {0}
      BY <2>1, <1>2 DEF IsThroughput
    <3>4. current[1] * prev[2] \in Nat \ {0} /\ current[2] * prev[1] \in Nat \ {0}
      BY <3>2, <3>3
    <3>5. QED
      BY <3>1, <3>4 DEF AtLeast
  <2>2. CASE ~(prev[1] > 0)
    BY <2>2 DEF Ratio
  <2>3. QED
    BY <2>1, <2>2
<1> HIDE DEF r
<1>4. ~(20 * r[1] <= 19 * r[2])
  BY <1>3
<1>5. size = Faster(n) \/ size = Steady(n)
  BY <1>2, <1>4 DEF OptimalSizes, r
<1>6. (n * 3) \div 2 > n /\ (n * 21) \div 20 > n
  <2>1. \A m \in Nat : m >= 20 => (m * 3) \div 2 > m /\ (m * 21) \div 20 > m
    OBVIOUS
  <2>2. QED
    BY <1>1, <2>1
<1>7. CASE size = Faster(n)
  BY <1>1, <1>6, <1>7, ScaledSizes DEF Faster, Least
<1>8. CASE size = Steady(n)
  BY <1>1, <1>6, <1>8, ScaledSizes DEF Steady, Least, Greatest
<1>9. QED
  BY <1>5, <1>7, <1>8

\* How a call steers the next one, whatever is measured: the size follows the speed
\* of the disk and never gets stuck at the least one.
THEOREM SizeAdapts == BufferSpec => AdaptsToSpeed
<1> DEFINE Steers ==
      remaining' < remaining =>
        /\ r_duration' > HIGH_LATENCY_NS => buffer_size' <= buffer_size
        /\ (/\ r_duration' \in 1..(HIGH_LATENCY_NS - 1)
            /\ AtLeast(current_throughput', current_throughput)) =>
             buffer_size' > buffer_size \/ buffer_size' = MAX_BUF_SIZE
<1>1. BufferInv /\ [Cut \/ DirectWrite]_allVars => [Steers]_allVars
  <2> SUFFICES ASSUME BufferInv, [Cut \/ DirectWrite]_allVars, remaining' < remaining
               PROVE  Steers
    OBVIOUS
  <2>1. remaining \in Int /\ ~Cut /\ ~UNCHANGED allVars
    BY DEF Cut, bufferVars, allVars, BufferInv
  <2>2. ASSUME NEW k \in 1..Len(segments), Begin(k)
        PROVE  Steers
    <3>1. segments[k] \in Segment /\ segments[k].start <= segments[k].end
      BY ElementOfSeq DEF BufferInv, IInv, TypeOK, Tiled
    <3>2. remaining = 0 /\ remaining' = segments[k].end - segments[k].start
      BY <2>2 DEF Begin, BufferInv
    <3>3. QED
      BY <3>1, <3>2 DEF Segment
  <2>3. ASSUME NEW res \in 1..r_size, NEW ns \in Durations, CopyFileRange(res, ns)
        PROVE  Steers
    <3>1. /\ res \in Nat \ {0} /\ ns \in Nat
          /\ r_duration' = ns
          /\ current_throughput' = compute_transfer_speed(res, ns)
          /\ buffer_size' \in
               OptimalSizes(current_throughput', current_throughput, ns, buffer_size)
      BY <2>3, BufferAssumption DEF CopyFileRange
    <3>2. ns # 0 => current_throughput'[1] = res
      BY <3>1 DEF compute_transfer_speed
    <3>3. IsThroughput(current_throughput) /\ IsThroughput(current_throughput')
      BY <3>1, MeasuredThroughput DEF BufferInv
    <3>4. SizeInBounds /\ HIGH_LATENCY_NS \in Nat \ {0}
      BY BufferAssumption DEF BufferInv
    <3>5. ASSUME ns > HIGH_LATENCY_NS
          PROVE  buffer_size' <= buffer_size
      <4>1. current_throughput'[1] \in Nat \ {0}
        BY <3>1, <3>2, <3>4, <3>5
      <4>2. QED
        BY <3>1, <3>4, <3>5, <4>1, SlowCallsShrink
    <3>6. ASSUME ns \in 1..(HIGH_LATENCY_NS - 1),
                 AtLeast(current_throughput', current_throughput)
          PROVE  buffer_size' > buffer_size \/ buffer_size' = MAX_BUF_SIZE
      <4>1. current_throughput'[1] # 0
        BY <3>1, <3>2, <3>4, <3>6
      <4>2. QED
        BY <3>1, <3>3, <3>4, <3>6, <4>1, QuickCallsGrow
    <3>7. QED
      BY <3>1, <3>5, <3>6
  <2>4. QED
    BY <2>1, <2>2, <2>3 DEF DirectWrite
<1>2. QED
  BY <1>1, BufferInvariance, PTL DEF AdaptsToSpeed, BufferSpec
=============================================================================
