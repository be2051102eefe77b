--------------------------- MODULE Renderer_proofs ---------------------------
(***************************************************************************)
(* Proofs about Renderer, for every set of segments and every bound.       *)
(***************************************************************************)
EXTENDS Renderer, FiniteSetTheorems, SequenceTheorems, TLAPS

\* Where main is decides which ids have places, whether the flag is set and that
\* no task is left; the renderer's thread leaves only after the flag was cleared.
PhasesAgree ==
  /\ main \in {"start", "root"} => t_segments = <<>>
  /\ main \notin {"start", "root"} => Allocated(Root)
  /\ main \in {"pool", "stop", "notify", "join", "stopped"} =>
       \A p \in Segments : Allocated(p)
  /\ main \in {"stop", "notify", "join", "stopped"} =>
       \A p \in Segments : task[p] = "finished"
  /\ running <=> main \in {"root", "loop", "submit", "pool", "stop"}
  /\ main = "start" => pc = "none"
  /\ main = "stopped" => pc = "exited"
  /\ pc = "exited" =>
       /\ main \in {"notify", "join", "stopped"}
       /\ r_queue = <<>>
       /\ cursor = Len(t_segments) + 1

\* A task that runs has places for its frames.
TasksPlaced ==
  \A p \in Segments : task[p] # "none" => Allocated(p) /\ Allocated(Root)

\* The frames that are posted and not drawn, in their order.
pending == hand \o r_queue

\* Of each task they are the ones behind the last that was drawn, in the task's
\* order and none missing, and each has its place.
PendingInOrder ==
  /\ \A p \in Segments : shown[p] <= sent[p]
  /\ \A i \in 1..Len(pending) :
       /\ Allocated(pending[i].id)
       /\ shown[pending[i].by] < pending[i].n /\ pending[i].n <= sent[pending[i].by]
  /\ \A i, j \in 1..Len(pending) :
       i < j /\ pending[i].by = pending[j].by => pending[i].n < pending[j].n
  /\ \A p \in Segments, k \in 1..(2 * MaxRounds) :
       shown[p] < k /\ k <= sent[p] =>
         \E i \in 1..Len(pending) : pending[i].by = p /\ pending[i].n = k

IInv ==
  /\ TypeOK /\ PhasesAgree /\ TasksPlaced /\ PendingInOrder
  /\ unknown = {}
-----------------------------------------------------------------------------
(* Sequences. *)

\* A place is added below the others.
LEMMA PlaceAdded ==
  ASSUME NEW t \in Seq(Ids), NEW id \in Ids
  PROVE  /\ Append(t, id) \in Seq(Ids)
         /\ Len(Append(t, id)) = Len(t) + 1
         /\ ToSet(Append(t, id)) = ToSet(t) \union {id}
         /\ Last(Append(t, id)) = id
         /\ IsInjective(t) /\ id \notin ToSet(t) => IsInjective(Append(t, id))
<1> DEFINE u == Append(t, id)
<1>1. /\ u \in Seq(Ids) /\ Len(u) = Len(t) + 1 /\ Len(t) \in Nat
      /\ DOMAIN t = 1..Len(t) /\ DOMAIN u = 1..Len(u)
      /\ \A i \in 1..Len(t) : u[i] = t[i]
      /\ u[Len(t) + 1] = id
  BY AppendProperties
<1> HIDE DEF u
<1>2. \A i \in DOMAIN u : i \in DOMAIN t \/ i = Len(t) + 1
  BY <1>1
<1>3. ToSet(u) = ToSet(t) \union {id}
  BY <1>1, <1>2 DEF ToSet
<1>4. Last(u) = id
  BY <1>1 DEF Last
<1>5. IsInjective(t) /\ id \notin ToSet(t) => IsInjective(u)
  BY <1>1, <1>2 DEF IsInjective, ToSet
<1>6. QED
  BY <1>1, <1>3, <1>4, <1>5 DEF u

LEMMA PendingSeq ==
  ASSUME TypeOK
  PROVE  /\ pending \in Seq(Frame)
         /\ Len(pending) = Len(hand) + Len(r_queue)
         /\ Len(pending) \in Nat
         /\ \A i \in 1..Len(pending) : pending[i] \in Frame
<1>1. hand \in Seq(Frame) /\ r_queue \in Seq(Frame)
  BY DEF TypeOK
<1>2. /\ pending \in Seq(Frame)
      /\ Len(pending) = Len(hand) + Len(r_queue)
  BY <1>1, ConcatProperties DEF pending
<1>3. QED
  BY <1>2, ElementOfSeq, LenProperties

\* The frame that is drawn is the first that is pending.
LEMMA DrawnFirst ==
  ASSUME TypeOK, pc = "draw"
  PROVE  /\ Len(pending) = Len(r_queue) + 1
         /\ Len(r_queue) \in Nat
         /\ Head(hand) = pending[1]
         /\ \A i \in 1..Len(r_queue) : pending[i + 1] = r_queue[i]
<1>1. /\ hand \in Seq(Frame) /\ r_queue \in Seq(Frame) /\ Len(hand) = 1
      /\ Len(r_queue) \in Nat
  BY LenProperties DEF TypeOK
<1>2. /\ Len(pending) = Len(hand) + Len(r_queue)
      /\ \A i \in 1..(Len(hand) + Len(r_queue)) :
           pending[i] = IF i <= Len(hand) THEN hand[i] ELSE r_queue[i - Len(hand)]
  BY <1>1, ConcatProperties DEF pending
<1>3. Head(hand) = hand[1]
  OBVIOUS
<1>4. \A i \in 1..Len(r_queue) : pending[i + 1] = r_queue[i]
  <2> TAKE i \in 1..Len(r_queue)
  <2>1. i + 1 \in 1..(Len(hand) + Len(r_queue)) /\ ~(i + 1 <= Len(hand)) /\ (i + 1) - Len(hand) = i
    BY <1>1
  <2>2. QED
    BY <1>2, <2>1
<1>5. QED
  BY <1>1, <1>2, <1>3, <1>4

LEMMA NothingInHand ==
  ASSUME TypeOK, pc # "draw"
  PROVE  hand = <<>> /\ pending = r_queue
<1>1. hand = <<>>
  BY EmptySeq DEF TypeOK
<1>2. QED
  BY <1>1, ConcatEmptySeq DEF pending, TypeOK
-----------------------------------------------------------------------------
(* The order of the frames. *)

\* The steps that neither post nor draw keep it.
LEMMA QuietSteps ==
  ASSUME PendingInOrder, UNCHANGED <<pending, sent, shown>>,
         \A id : Allocated(id) => Allocated(id)'
  PROVE  PendingInOrder'
BY DEF PendingInOrder

LEMMA TakeKeepsPending ==
  ASSUME TypeOK, TakeFrame
  PROVE  pending' = pending
<1>1. r_queue \in Seq(Frame) /\ r_queue # <<>> /\ pc # "draw"
  BY DEF TypeOK, TakeFrame
<1>2. pending = r_queue
  BY <1>1, NothingInHand
<1>3. pending' = <<Head(r_queue)>> \o Tail(r_queue)
  BY DEF TakeFrame, pending
<1>4. <<Head(r_queue)>> \o Tail(r_queue) = r_queue
  <2>1. /\ Head(r_queue) \in Frame /\ Tail(r_queue) \in Seq(Frame)
        /\ Len(Tail(r_queue)) = Len(r_queue) - 1
        /\ \A i \in 1..Len(Tail(r_queue)) : Tail(r_queue)[i] = r_queue[i + 1]
        /\ Len(r_queue) \in Nat /\ Len(r_queue) > 0 /\ Head(r_queue) = r_queue[1]
    BY <1>1, HeadTailProperties, LenProperties, EmptySeq
  <2> DEFINE one == <<Head(r_queue)>>
             rest == Tail(r_queue)
  <2>2. one \in Seq(Frame) /\ Len(one) = 1 /\ one[1] = Head(r_queue)
    BY <2>1
  <2>3. rest \in Seq(Frame)
    BY <2>1
  <2> HIDE DEF one
  <2>4. /\ one \o rest \in Seq(Frame)
        /\ Len(one \o rest) = Len(one) + Len(rest)
        /\ \A i \in 1..(Len(one) + Len(rest)) :
             (one \o rest)[i] = IF i <= Len(one) THEN one[i] ELSE rest[i - Len(one)]
    BY <2>2, <2>3, ConcatProperties
  <2>5. Len(one \o rest) = Len(r_queue)
    BY <2>1, <2>2, <2>4
  <2>6. \A i \in 1..Len(r_queue) : (one \o rest)[i] = r_queue[i]
    <3> TAKE i \in 1..Len(r_queue)
    <3>1. CASE i = 1
      BY <2>1, <2>2, <2>4, <3>1
    <3>2. CASE i # 1
      <4>1. i - 1 \in 1..Len(rest) /\ rest[i - 1] = r_queue[(i - 1) + 1] /\ (i - 1) + 1 = i
        BY <2>1, <3>2
      <4>2. QED
        BY <2>1, <2>2, <2>4, <3>2, <4>1
    <3>3. QED
      BY <3>1, <3>2
  <2>7. QED
    BY <1>1, <2>4, <2>5, <2>6, SeqEqual DEF one
<1>5. QED
  BY <1>2, <1>3, <1>4

\* Posting adds the task's next frame at the end.
LEMMA PushKeepsOrder ==
  ASSUME IInv, NEW p \in Segments, Push(p)
  PROVE  PendingInOrder' /\ NextFrame(p) \in Frame
<1> DEFINE f == NextFrame(p)
           len == Len(pending)
<1>1. /\ sent[p] \in Nat /\ sent[p] < 2 * MaxRounds /\ MaxRounds \in Nat
      /\ sent' = [sent EXCEPT ![p] = @ + 1]
      /\ r_queue' = Append(r_queue, f)
      /\ UNCHANGED <<hand, shown, t_segments>>
  BY RendererAssumption DEF IInv, TypeOK, Push, Enqueued, screenVars
<1>2. f \in Frame /\ f.by = p /\ f.n = sent[p] + 1 /\ f.id \in {p, Root}
  <2>1. sent[p] + 1 \in 1..(2 * MaxRounds)
    BY <1>1
  <2>2. QED
    BY <2>1 DEF NextFrame, Frame, Ids
<1>3. Allocated(f.id)
  BY <1>2 DEF IInv, TasksPlaced, Push
<1> HIDE DEF f
<1>4. /\ len \in Nat /\ Len(pending') = len + 1
      /\ \A i \in 1..len : pending'[i] = pending[i]
      /\ pending'[len + 1] = f
  <2>1. hand \in Seq(Frame) /\ r_queue \in Seq(Frame)
    BY DEF IInv, TypeOK
  <2>2. pending' = hand \o Append(r_queue, f)
    BY <1>1 DEF pending
  <2>3. hand \o Append(r_queue, f) = Append(pending, f)
    BY <1>2, <2>1, AppendIsConcat, ConcatAssociative, ConcatProperties DEF pending
  <2>4. pending \in Seq(Frame) /\ len \in Nat
    BY PendingSeq DEF IInv
  <2>5. QED
    BY <1>2, <2>2, <2>3, <2>4, AppendProperties
<1>5. \A i \in 1..len : pending[i] \in Frame
  BY PendingSeq DEF IInv
<1>6. /\ sent'[p] = sent[p] + 1
      /\ \A q \in Segments \ {p} : sent'[q] = sent[q]
      /\ \A q \in Segments : sent[q] \in Nat /\ shown[q] \in Nat /\ sent[q] <= sent'[q]
  BY <1>1 DEF IInv, TypeOK
<1>7. \A i \in 1..(len + 1) : i \in 1..len \/ i = len + 1
  BY <1>4
<1>8. \A q \in Segments : shown'[q] <= sent'[q]
  BY <1>1, <1>6 DEF IInv, PendingInOrder
<1>9. ASSUME NEW i \in 1..(len + 1)
      PROVE  /\ Allocated(pending'[i].id)
             /\ shown'[pending'[i].by] < pending'[i].n
             /\ pending'[i].n <= sent'[pending'[i].by]
  <2>1. CASE i \in 1..len
    <3>1. pending[i].by \in Segments /\ pending[i].n \in Nat
      BY <1>5, <2>1 DEF Frame
    <3>2. /\ Allocated(pending[i].id)
          /\ shown[pending[i].by] < pending[i].n /\ pending[i].n <= sent[pending[i].by]
      BY <2>1 DEF IInv, PendingInOrder
    <3>3. pending'[i] = pending[i] /\ shown' = shown
      BY <1>1, <1>4, <2>1
    <3>4. pending[i].n <= sent'[pending[i].by]
      BY <1>1, <1>6, <3>1, <3>2
    <3>5. QED
      BY <3>2, <3>3, <3>4
  <2>2. CASE i = len + 1
    <3>1. shown[p] <= sent[p]
      BY DEF IInv, PendingInOrder
    <3>2. QED
      BY <1>1, <1>2, <1>3, <1>4, <1>6, <2>2, <3>1
  <2>3. QED
    BY <1>7, <2>1, <2>2
<1>10. ASSUME NEW i \in 1..(len + 1), NEW j \in 1..(len + 1),
              i < j, pending'[i].by = pending'[j].by
       PROVE  pending'[i].n < pending'[j].n
  <2>1. i \in 1..len
    BY <1>4, <1>10
  <2>2. CASE j \in 1..len
    BY <1>4, <1>10, <2>1, <2>2 DEF IInv, PendingInOrder
  <2>3. CASE j = len + 1
    <3>1. pending[i].by = p /\ pending[i].n <= sent[p] /\ pending[i].n \in Nat
      BY <1>2, <1>4, <1>5, <1>10, <2>1, <2>3 DEF IInv, PendingInOrder, Frame
    <3>2. QED
      BY <1>1, <1>2, <1>4, <2>1, <2>3, <3>1
  <2>4. QED
    BY <1>7, <2>2, <2>3
<1>11. ASSUME NEW q \in Segments, NEW k \in 1..(2 * MaxRounds),
              shown'[q] < k, k <= sent'[q]
       PROVE  \E i \in 1..(len + 1) : pending'[i].by = q /\ pending'[i].n = k
  <2>1. CASE q = p /\ k = sent[p] + 1
    <3>1. len + 1 \in 1..(len + 1)
      BY <1>4
    <3>2. QED
      BY <1>2, <1>4, <2>1, <3>1
  <2>2. CASE ~(q = p /\ k = sent[p] + 1)
    <3>1. shown[q] < k /\ k <= sent[q]
      BY <1>1, <1>6, <1>11, <2>2
    <3>2. PICK i \in 1..len : pending[i].by = q /\ pending[i].n = k
      BY <3>1 DEF IInv, PendingInOrder
    <3>3. i \in 1..(len + 1)
      BY <1>4
    <3>4. QED
      BY <1>4, <3>2, <3>3
  <2>3. QED
    BY <2>1, <2>2
<1>12. Len(pending') = len + 1 /\ \A id : Allocated(id) <=> Allocated(id)'
  BY <1>1, <1>4 DEF Allocated
<1>13. PendingInOrder'
  BY <1>8, <1>9, <1>10, <1>11, <1>12 DEF PendingInOrder
<1>14. QED
  BY <1>2, <1>13 DEF f
\* The frame that is drawn is the next one of its task, and has its place.
LEMMA DrawEffect ==
  ASSUME IInv, Draw
  PROVE  LET f == pending[1]
         IN  /\ f \in Frame /\ f.by \in Segments /\ f.n = shown[f.by] + 1
             /\ f.n <= sent[f.by]
             /\ shown' = [shown EXCEPT ![f.by] = f.n]
             /\ unknown' = unknown
             /\ pending' = r_queue
<1> DEFINE f == pending[1]
<1>1. /\ Len(pending) = Len(r_queue) + 1 /\ Len(r_queue) \in Nat
      /\ Head(hand) = f
  BY DrawnFirst DEF IInv, Draw
<1>2. 1 \in 1..Len(pending)
  BY <1>1
<1>3. f \in Frame
  BY <1>2, PendingSeq DEF IInv
<1>4. /\ f.by \in Segments /\ f.n \in 1..(2 * MaxRounds)
      /\ shown[f.by] \in Nat /\ sent[f.by] \in 0..(2 * MaxRounds)
      /\ MaxRounds \in Nat
  BY <1>3, RendererAssumption DEF Frame, IInv, TypeOK
<1>5. Allocated(f.id) /\ shown[f.by] < f.n /\ f.n <= sent[f.by]
  BY <1>2 DEF IInv, PendingInOrder
<1>6. f.n = shown[f.by] + 1
  <2> DEFINE k == shown[f.by] + 1
  <2>1. k \in 1..(2 * MaxRounds) /\ shown[f.by] < k /\ k <= sent[f.by]
    BY <1>4, <1>5
  <2>2. PICK i \in 1..Len(pending) : pending[i].by = f.by /\ pending[i].n = k
    BY <1>4, <2>1 DEF IInv, PendingInOrder
  <2>3. CASE i = 1
    BY <2>2, <2>3
  <2>4. CASE i # 1
    <3>1. 1 < i
      BY <1>1, <2>4
    <3>2. f.n < k
      BY <1>2, <2>2, <3>1 DEF IInv, PendingInOrder
    <3>3. QED
      BY <1>4, <1>5, <3>2
  <2>5. QED
    BY <2>3, <2>4
<1>7. shown' = [shown EXCEPT ![f.by] = f.n] /\ unknown' = unknown
  BY <1>1, <1>5 DEF Draw
<1>8. pending' = r_queue
  <2>1. pending' = <<>> \o r_queue
    BY DEF Draw, AfterDraw, pending
  <2>2. QED
    BY <2>1, ConcatEmptySeq DEF IInv, TypeOK
<1>9. QED
  BY <1>3, <1>4, <1>5, <1>6, <1>7, <1>8

LEMMA DrawKeepsOrder ==
  ASSUME IInv, Draw
  PROVE  PendingInOrder'
<1> DEFINE f == pending[1]
           len == Len(r_queue)
<1>1. /\ f \in Frame /\ f.by \in Segments /\ f.n = shown[f.by] + 1
      /\ f.n <= sent[f.by]
      /\ shown' = [shown EXCEPT ![f.by] = f.n]
      /\ pending' = r_queue
  BY DrawEffect
<1>2. /\ Len(pending) = len + 1 /\ len \in Nat
      /\ \A i \in 1..len : pending[i + 1] = r_queue[i] /\ i + 1 \in 1..Len(pending)
      /\ 1 \in 1..Len(pending)
  BY DrawnFirst DEF IInv, Draw
<1>3. \A i \in 1..len : r_queue[i] \in Frame
  BY ElementOfSeq DEF IInv, TypeOK
<1>4. UNCHANGED <<sent, t_segments>>
  BY DEF Draw
<1>5. /\ shown'[f.by] = shown[f.by] + 1
      /\ \A q \in Segments \ {f.by} : shown'[q] = shown[q]
      /\ \A q \in Segments : shown[q] \in Nat /\ sent[q] \in Nat
  BY <1>1 DEF IInv, TypeOK
<1> HIDE DEF f
<1>6. \A q \in Segments : shown'[q] <= sent'[q]
  BY <1>1, <1>4, <1>5 DEF IInv, PendingInOrder
<1>7. ASSUME NEW i \in 1..len
      PROVE  /\ Allocated(r_queue[i].id)
             /\ shown'[r_queue[i].by] < r_queue[i].n /\ r_queue[i].n <= sent[r_queue[i].by]
  <2>1. r_queue[i].by \in Segments /\ r_queue[i].n \in Nat
    BY <1>3 DEF Frame
  <2>2. /\ Allocated(r_queue[i].id)
        /\ shown[r_queue[i].by] < r_queue[i].n /\ r_queue[i].n <= sent[r_queue[i].by]
    BY <1>2 DEF IInv, PendingInOrder
  <2>3. CASE r_queue[i].by = f.by
    <3>1. 1 < i + 1
      BY <1>2
    <3>2. f.n < r_queue[i].n
      BY <1>2, <2>3, <3>1 DEF IInv, PendingInOrder, f
    <3>3. QED
      BY <1>1, <1>5, <2>1, <2>2, <2>3, <3>2
  <2>4. CASE r_queue[i].by # f.by
    BY <1>5, <2>1, <2>2, <2>4
  <2>5. QED
    BY <2>3, <2>4
<1>8. ASSUME NEW i \in 1..len, NEW j \in 1..len, i < j, r_queue[i].by = r_queue[j].by
      PROVE  r_queue[i].n < r_queue[j].n
  <2>1. i + 1 < j + 1
    BY <1>2, <1>8
  <2>2. QED
    BY <1>2, <1>8, <2>1 DEF IInv, PendingInOrder
<1>9. ASSUME NEW q \in Segments, NEW k \in 1..(2 * MaxRounds), shown'[q] < k, k <= sent[q]
      PROVE  \E i \in 1..len : r_queue[i].by = q /\ r_queue[i].n = k
  <2>1. shown[q] < k /\ (q = f.by => k # f.n)
    BY <1>1, <1>5, <1>9
  <2>2. PICK i \in 1..Len(pending) : pending[i].by = q /\ pending[i].n = k
    BY <1>9, <2>1 DEF IInv, PendingInOrder
  <2>3. i # 1
    BY <2>1, <2>2 DEF f
  <2>4. i - 1 \in 1..len /\ (i - 1) + 1 = i
    BY <1>2, <2>3
  <2>5. r_queue[i - 1] = pending[i]
    BY <1>2, <2>4
  <2>6. QED
    BY <2>2, <2>4, <2>5
<1>10. \A id : Allocated(id)' <=> Allocated(id)
  BY <1>4 DEF Allocated
<1>11. QED
  BY <1>1, <1>4, <1>6, <1>7, <1>8, <1>9, <1>10 DEF PendingInOrder
-----------------------------------------------------------------------------
(* The invariant. *)

LEMMA InitInvariant == Init => IInv
<1> SUFFICES ASSUME Init
             PROVE  IInv
  OBVIOUS
<1>1. /\ r_queue \in Seq(Frame) /\ hand \in Seq(Frame) /\ t_segments \in Seq(Ids)
      /\ Len(hand) = 0 /\ IsInjective(t_segments)
  BY EmptySeq DEF Init, IsInjective
<1>2. TypeOK
  <2>1. 0 \in 0..(2 * MaxRounds) /\ 0 \in 0..MaxSpurious
    BY RendererAssumption
  <2>2. /\ sent \in [Segments -> 0..(2 * MaxRounds)] /\ shown \in [Segments -> 0..(2 * MaxRounds)]
        /\ task \in [Segments -> {"none", "copying", "notify", "finished"}]
    BY <2>1 DEF Init
  <2>3. Len(hand) = (IF pc = "draw" THEN 1 ELSE 0) /\ cursor \in {Hidden} \union Nat
    BY <1>1 DEF Init
  <2>4. spurious \in 0..MaxSpurious /\ running \in BOOLEAN /\ unknown \subseteq Frame
    BY <2>1 DEF Init
  <2>5. /\ pc = "none" /\ main = "start"
    BY DEF Init
  <2>6. QED
    BY <1>1, <2>2, <2>3, <2>4, <2>5 DEF TypeOK
<1>3. Len(pending) = 0
  BY <1>1, <1>2, PendingSeq, EmptySeq DEF Init
<1>4. PendingInOrder
  BY <1>3 DEF Init, PendingInOrder
<1>5. QED
  BY <1>2, <1>4 DEF Init, IInv, PhasesAgree, TasksPlaced

\* Main's steps that give no place.
MainElse == Start \/ LoopEnds \/ PoolJoined \/ ClearFlag \/ NotifyAll \/ Join

LEMMA MainElsePreserves ==
  ASSUME IInv, MainElse
  PROVE  IInv'
<1>1. UNCHANGED <<r_queue, t_segments, task, sent, spurious, screenVars>>
  BY DEF MainElse, Start, LoopEnds, PoolJoined, ClearFlag, NotifyAll, Join
<1>2. TypeOK'
  BY <1>1 DEF IInv, TypeOK, screenVars, MainElse, Start, LoopEnds, PoolJoined, ClearFlag,
              NotifyAll, Join, PhasesAgree
<1>3. \A id : Allocated(id)' <=> Allocated(id)
  BY <1>1 DEF Allocated
<1>4. PhasesAgree'
  BY <1>1, <1>3 DEF IInv, TypeOK, screenVars, PhasesAgree, MainElse, Start, LoopEnds,
                    PoolJoined, TasksFinished, ClearFlag, NotifyAll, Join
<1>5. PendingInOrder'
  BY <1>1, <1>3, QuietSteps DEF IInv, screenVars, pending
<1>6. QED
  BY <1>1, <1>2, <1>3, <1>4, <1>5 DEF IInv, TasksPlaced, screenVars

LEMMA PlacePreserves ==
  ASSUME IInv, PlaceRoot \/ \E p \in Segments : PlaceSegment(p)
  PROVE  IInv'
<1>1. PICK id \in Ids : t_segments' = Append(t_segments, id) /\ ~Allocated(id)
                       /\ (main = "root" => id = Root)
  BY DEF PlaceRoot, RootPlaced, PlaceSegment, Ids, IInv, PhasesAgree, Allocated, ToSet
<1>2. /\ UNCHANGED <<r_queue, running, pc, task, sent, spurious, screenVars>>
      /\ \/ main = "root" /\ main' = "loop"
         \/ main = "loop" /\ main' = "submit"
  BY DEF PlaceRoot, PlaceSegment
<1>3. /\ t_segments' \in Seq(Ids) /\ IsInjective(t_segments')
      /\ \A i : Allocated(i)' <=> Allocated(i) \/ i = id
  BY <1>1, PlaceAdded DEF IInv, TypeOK, Allocated
<1>4. TypeOK'
  BY <1>2, <1>3 DEF IInv, TypeOK, screenVars
<1>5. PhasesAgree'
  BY <1>1, <1>2, <1>3 DEF IInv, PhasesAgree, screenVars
<1>6. PendingInOrder'
  BY <1>2, <1>3, QuietSteps DEF IInv, screenVars, pending
<1>7. QED
  BY <1>2, <1>3, <1>4, <1>5, <1>6 DEF IInv, TasksPlaced, screenVars

\* A task's steps but the posting: it is launched, notifies, ends.
TaskElse(p) == Launch(p) \/ NotifyOne(p) \/ FinishTask(p)

LEMMA TaskElsePreserves ==
  ASSUME IInv, NEW p \in Segments, TaskElse(p)
  PROVE  IInv'
<1>1. /\ UNCHANGED <<r_queue, running, t_segments, sent, spurious, screenVars>>
      /\ pc' = pc \/ (pc = "waiting" /\ pc' = "dequeue")
      /\ (main = "submit" /\ main' = "loop") \/ (main' = main /\ task[p] # "finished")
      /\ \/ task' = [task EXCEPT ![p] = "copying"]
         \/ task' = [task EXCEPT ![p] = "finished"]
  BY DEF TaskElse, Launch, NotifyOne, FinishTask
<1>2. \A id : Allocated(id)' <=> Allocated(id)
  BY <1>1 DEF Allocated
<1>3. TypeOK'
  BY <1>1 DEF IInv, TypeOK, screenVars
<1>4. Allocated(p) /\ Allocated(Root)
  <2>1. CASE Launch(p)
    <3>1. t_segments # <<>>
      BY <2>1, EmptySeq DEF Launch, IInv, PhasesAgree, Allocated, ToSet
    <3>2. Len(t_segments) \in DOMAIN t_segments
      BY <3>1, EmptySeq, LenProperties DEF IInv, TypeOK
    <3>3. QED
      BY <2>1, <3>2 DEF Launch, Last, Allocated, ToSet, IInv, PhasesAgree
  <2>2. CASE NotifyOne(p) \/ FinishTask(p)
    BY <2>2 DEF NotifyOne, FinishTask, IInv, TasksPlaced
  <2>3. QED
    BY <2>1, <2>2 DEF TaskElse
<1>5. TasksPlaced'
  BY <1>1, <1>2, <1>4 DEF IInv, TypeOK, TasksPlaced
<1>6. PhasesAgree'
  BY <1>1, <1>2 DEF IInv, TypeOK, PhasesAgree, screenVars
<1>7. PendingInOrder'
  BY <1>1, <1>2, QuietSteps DEF IInv, screenVars, pending
<1>8. QED
  BY <1>1, <1>3, <1>5, <1>6, <1>7 DEF IInv, screenVars

LEMMA PushPreserves ==
  ASSUME IInv, NEW p \in Segments, Push(p)
  PROVE  IInv'
<1>1. PendingInOrder' /\ NextFrame(p) \in Frame
  BY PushKeepsOrder
<1>2. /\ task[p] = "copying" /\ task' = [task EXCEPT ![p] = "notify"]
      /\ sent[p] < 2 * MaxRounds /\ sent' = [sent EXCEPT ![p] = @ + 1]
      /\ r_queue' = Append(r_queue, NextFrame(p))
      /\ UNCHANGED <<running, pc, t_segments, main, spurious, screenVars>>
  BY DEF Push, AfterPush, Enqueued
<1>3. r_queue' \in Seq(Frame)
  BY <1>1, <1>2, AppendProperties DEF IInv, TypeOK
<1>4. sent' \in [Segments -> 0..(2 * MaxRounds)]
  BY <1>2, RendererAssumption DEF IInv, TypeOK
<1>5. TypeOK'
  BY <1>2, <1>3, <1>4 DEF IInv, TypeOK, screenVars
<1>6. \A id : Allocated(id)' <=> Allocated(id)
  BY <1>2 DEF Allocated
<1>7. main \notin {"stop", "notify", "join", "stopped"}
  BY <1>2 DEF IInv, PhasesAgree
<1>8. PhasesAgree' /\ TasksPlaced'
  BY <1>2, <1>6, <1>7 DEF IInv, TypeOK, PhasesAgree, TasksPlaced, screenVars
<1>9. QED
  BY <1>1, <1>2, <1>5, <1>8 DEF IInv, screenVars

LEMMA DrawPreserves ==
  ASSUME IInv, Draw
  PROVE  IInv'
<1> DEFINE f == pending[1]
<1>1. /\ f \in Frame /\ f.by \in Segments /\ f.n \in 1..(2 * MaxRounds)
      /\ shown' = [shown EXCEPT ![f.by] = f.n] /\ unknown' = unknown
  BY DrawEffect DEF Frame
<1> HIDE DEF f
<1>2. /\ pc = "draw" /\ pc' = "dequeue" /\ hand' = <<>>
      /\ UNCHANGED <<r_queue, running, t_segments, main, task, sent, cursor, spurious>>
  BY DEF Draw, AfterDraw
<1>3. hand' \in Seq(Frame) /\ Len(hand') = 0
  BY <1>2, EmptySeq
<1>4. shown' \in [Segments -> 0..(2 * MaxRounds)]
  BY <1>1, RendererAssumption DEF IInv, TypeOK
<1>5. TypeOK'
  BY <1>1, <1>2, <1>3, <1>4 DEF IInv, TypeOK
<1>6. PhasesAgree' /\ TasksPlaced'
  BY <1>2 DEF IInv, PhasesAgree, TasksPlaced, Allocated
<1>7. QED
  BY <1>1, <1>5, <1>6, DrawKeepsOrder DEF IInv

\* The thread's other steps, and those of nobody.
WorkerElse == HideCursor \/ TakeFrame \/ Leave \/ FindNothing \/ Block \/ SpuriousWakeup

LEMMA WorkerElsePreserves ==
  ASSUME IInv, WorkerElse \/ UNCHANGED vars
  PROVE  IInv'
<1>1. UNCHANGED <<running, t_segments, main, task, sent, shown, unknown>>
  BY DEF WorkerElse, HideCursor, TakeFrame, Leave, FindNothing, Block, SpuriousWakeup,
         screenVars, vars
<1>2. \A id : Allocated(id)' <=> Allocated(id)
  BY <1>1 DEF Allocated
<1>3. pending' = pending
  <2>1. CASE TakeFrame
    BY <2>1, TakeKeepsPending DEF IInv
  <2>2. CASE ~TakeFrame
    BY <2>2 DEF WorkerElse, HideCursor, Leave, FindNothing, Block, SpuriousWakeup,
                screenVars, vars, pending
  <2>3. QED
    BY <2>1, <2>2
<1>4. PendingInOrder'
  BY <1>1, <1>2, <1>3, QuietSteps DEF IInv
<1>5. TypeOK' /\ PhasesAgree'
  <2>1. CASE TakeFrame
    <3>1. /\ r_queue # <<>> /\ pc = "dequeue" /\ pc' = "draw"
          /\ hand' = <<Head(r_queue)>> /\ r_queue' = Tail(r_queue)
          /\ UNCHANGED <<cursor, spurious>>
      BY <2>1 DEF TakeFrame
    <3>2. Head(r_queue) \in Frame /\ r_queue' \in Seq(Frame)
      BY <3>1, HeadTailProperties DEF IInv, TypeOK
    <3>3. hand' \in Seq(Frame) /\ Len(hand') = 1
      BY <3>1, <3>2
    <3>4. QED
      BY <1>1, <1>2, <3>1, <3>2, <3>3 DEF IInv, TypeOK, PhasesAgree
  <2>2. CASE Leave
    <3>1. /\ pc' = "exited" /\ pc = "dequeue" /\ r_queue = <<>> /\ ~running
          /\ cursor' = Len(t_segments) + 1 /\ UNCHANGED <<r_queue, hand, spurious>>
      BY <2>2 DEF Leave, WaitIsOver
    <3>2. Len(t_segments) \in Nat
      BY LenProperties DEF IInv, TypeOK
    <3>3. main \in {"notify", "join", "stopped"}
      BY <3>1 DEF IInv, TypeOK, PhasesAgree
    <3>4. QED
      BY <1>1, <1>2, <3>1, <3>2, <3>3 DEF IInv, TypeOK, PhasesAgree
  <2>3. CASE HideCursor \/ FindNothing \/ Block \/ SpuriousWakeup \/ UNCHANGED vars
    <3>1. /\ UNCHANGED <<r_queue, hand>>
          /\ \/ /\ pc' \in {"dequeue", "blocking", "waiting"}
                /\ pc \notin {"draw", "exited", "none"}
             \/ pc' = pc
          /\ cursor' \in {cursor, Hidden} /\ (pc = "exited" => cursor' = cursor)
          /\ spurious' \in 0..MaxSpurious
      BY <2>3, RendererAssumption
         DEF HideCursor, FindNothing, Block, SpuriousWakeup, screenVars, vars, IInv, TypeOK
    <3>2. QED
      BY <1>1, <1>2, <3>1 DEF IInv, TypeOK, PhasesAgree
  <2>4. QED
    BY <2>1, <2>2, <2>3 DEF WorkerElse
<1>6. QED
  BY <1>1, <1>2, <1>4, <1>5 DEF IInv, TasksPlaced
-----------------------------------------------------------------------------
LEMMA StepCases ==
  ASSUME [Next]_vars
  PROVE  \/ MainElse \/ PlaceRoot \/ \E p \in Segments : PlaceSegment(p)
         \/ \E p \in Segments : TaskElse(p) \/ Push(p)
         \/ Draw \/ WorkerElse \/ UNCHANGED vars
BY DEF Next, Worker, Main, Task, MainElse, TaskElse, WorkerElse

\* The invariant of the renderer and its users.
THEOREM Invariance == Spec => []IInv
<1>1. IInv /\ [Next]_vars => IInv'
  BY StepCases, MainElsePreserves, PlacePreserves, TaskElsePreserves, PushPreserves,
     DrawPreserves, WorkerElsePreserves
<1>2. QED
  BY <1>1, InitInvariant, PTL DEF Spec

\* Every variable keeps its type; the thread holds a frame exactly while it draws,
\* and no id gets two places.
THEOREM TypeCorrect == Spec => []TypeOK
<1>1. IInv => TypeOK
  BY DEF IInv
<1>2. QED
  BY <1>1, Invariance, PTL

\* Where every id has a place there are at least as many rows as ids.
LEMMA EnoughRows ==
  ASSUME TypeOK, \A id \in Ids : Allocated(id)
  PROVE  /\ Cardinality(Ids) \in Nat
         /\ Cardinality(Ids) <= Len(t_segments)
<1> DEFINE n == Len(t_segments)
<1>1. n \in Nat /\ t_segments \in [1..n -> Ids]
  BY LenProperties DEF TypeOK
<1>2. \A id \in Ids : \E i \in 1..n : t_segments[i] = id
  BY <1>1 DEF Allocated, ToSet
<1>3. t_segments \in Surjection(1..n, Ids)
  BY <1>1, <1>2 DEF Surjection
<1>4. ExistsSurjection(1..n, Ids)
  BY <1>3 DEF ExistsSurjection
<1>5. IsFiniteSet(Ids) /\ Cardinality(Ids) <= n
  BY <1>1, <1>4, FS_NatSurjection, FS_SurjCardinalityBound
<1>6. QED
  BY <1>5, FS_CardinalityType

\* No frame meets a renderer without a place for it, and when stop() has returned
\* the cursor is below every row.
THEOREM ScreenSafe == Spec => []ScreenInOrder
<1>1. IInv => ScreenInOrder
  <2> SUFFICES ASSUME IInv, main = "stopped"
               PROVE  cursor > Cardinality(Ids)
    BY DEF IInv, ScreenInOrder
  <2>1. cursor = Len(t_segments) + 1
    BY DEF IInv, PhasesAgree
  <2>2. \A id \in Ids : Allocated(id)
    BY DEF IInv, PhasesAgree, Ids
  <2>3. Len(t_segments) \in Nat
    BY LenProperties DEF IInv, TypeOK
  <2>4. QED
    BY <2>1, <2>2, <2>3, EnoughRows DEF IInv
<1>2. QED
  BY <1>1, Invariance, PTL

\* The renderer is a display: every step posts a frame, shows the next one of a
\* task, returns from stop() with all of them shown, or is invisible.
THEOREM Refinement == Spec => DisplaySpec
<1>1. Init => AbstractDisplay!Init
  BY DEF Init, AbstractDisplay!Init
<1>2. IInv /\ [Next]_vars => [AbstractDisplay!Next]_(AbstractDisplay!vars)
  <2> SUFFICES ASSUME IInv, [Next]_vars
               PROVE  [AbstractDisplay!Next]_(AbstractDisplay!vars)
    OBVIOUS
  <2> USE DEF AbstractDisplay!Next, AbstractDisplay!vars
  <2>1. ASSUME NEW p \in Segments, Push(p)
        PROVE  AbstractDisplay!Post(p)
    <3>1. main # "stopped"
      BY <2>1 DEF Push, IInv, PhasesAgree
    <3>2. QED
      BY <2>1, <3>1 DEF Push, screenVars, AbstractDisplay!Post
  <2>2. CASE Draw
    <3> DEFINE f == pending[1]
    <3>1. /\ f.by \in Segments /\ f.n = shown[f.by] + 1 /\ f.n <= sent[f.by]
          /\ shown' = [shown EXCEPT ![f.by] = f.n]
      BY <2>2, DrawEffect
    <3>2. shown[f.by] \in Nat /\ sent[f.by] \in Nat
      BY <3>1 DEF IInv, TypeOK
    <3>3. UNCHANGED <<sent, main>>
      BY <2>2 DEF Draw
    <3>4. AbstractDisplay!Show(f.by)
      BY <3>1, <3>2, <3>3 DEF AbstractDisplay!Show
    <3>5. QED
      BY <3>1, <3>4
  <2>3. CASE Join
    <3>1. /\ main = "join" /\ main' = "stopped" /\ pc = "exited"
          /\ UNCHANGED <<sent, shown>>
      BY <2>3 DEF Join, screenVars
    <3>2. Len(pending) = 0
      BY <3>1, NothingInHand, EmptySeq DEF IInv, PhasesAgree
    <3>3. ASSUME NEW p \in Segments
          PROVE  shown[p] = sent[p]
      <4>1. shown[p] \in Nat /\ sent[p] \in 0..(2 * MaxRounds) /\ shown[p] <= sent[p]
        BY DEF IInv, TypeOK, PendingInOrder
      <4>2. CASE shown[p] < sent[p]
        <5>1. sent[p] \in 1..(2 * MaxRounds) /\ MaxRounds \in Nat
          BY <4>1, <4>2, RendererAssumption
        <5>2. PICK i \in 1..Len(pending) : pending[i].by = p
          BY <4>2, <5>1 DEF IInv, PendingInOrder
        <5>3. QED
          BY <3>2, <5>2
      <4>3. QED
        BY <4>1, <4>2
    <3>4. shown = sent
      BY <3>3 DEF IInv, TypeOK
    <3>5. AbstractDisplay!StopReturns
      BY <3>1, <3>4 DEF AbstractDisplay!StopReturns
    <3>6. QED
      BY <3>5
  <2>4. CASE MainElse /\ ~Join
    <3>1. main # "stopped" /\ main' # "stopped" /\ UNCHANGED <<sent, shown>>
      BY <2>4 DEF MainElse, Start, LoopEnds, PoolJoined, ClearFlag, NotifyAll, screenVars
    <3>2. QED
      BY <3>1
  <2>5. ASSUME PlaceRoot \/ \E p \in Segments : PlaceSegment(p) \/ TaskElse(p)
        PROVE  UNCHANGED AbstractDisplay!vars
    <3>1. UNCHANGED <<sent, shown>> /\ (main' = main \/ (main # "stopped" /\ main' # "stopped"))
      BY <2>5 DEF PlaceRoot, PlaceSegment, TaskElse, Launch, NotifyOne, FinishTask, screenVars
    <3>2. QED
      BY <3>1
  <2>6. ASSUME WorkerElse \/ UNCHANGED vars
        PROVE  UNCHANGED AbstractDisplay!vars
    BY <2>6 DEF WorkerElse, HideCursor, TakeFrame, Leave, FindNothing, Block, SpuriousWakeup,
                screenVars, vars
  <2>7. QED
    BY <2>1, <2>2, <2>3, <2>4, <2>5, <2>6, StepCases
<1>3. QED
  BY <1>1, <1>2, Invariance, PTL DEF Spec, DisplaySpec, AbstractDisplay!Spec
=============================================================================
