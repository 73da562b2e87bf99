-------------------------- MODULE FrameQueue_proofs --------------------------
(***************************************************************************)
(* The ring buffer is correct for every array size, every queue length     *)
(* init() may be given, with and without a retained frame, and for streams *)
(* of any length.  RingInv is inductive and every safety property of       *)
(* FrameQueue follows from it.                                             *)
(***************************************************************************)
EXTENDS FrameQueue, TLAPS

-----------------------------------------------------------------------------
(* Arithmetic of the ring. *)

\* The queue has a slot, and two when a frame is retained.
LEMMA MaxSize ==
    /\ maxSize \in Nat \ {0}
    /\ maxSize <= MAX_FRAME_QUEUE_SIZE
    /\ keepLast => maxSize >= 2
    /\ keepLast \in BOOLEAN
    /\ NumFrames \in Nat
    /\ MAX_FRAME_QUEUE_SIZE \in Nat
  BY QueueAssumption DEF maxSize, QueueAssumption

\* peek() and peekNext() are the slots rindexShown and rindexShown + 1 from
\* the front.
LEMMA PeekIsAt ==
    ASSUME TypeOK
    PROVE  /\ peek = At(rindexShown)
           /\ maxSize >= 2 => peekNext = At(rindexShown + 1)
  <1>1. /\ rindex + rindexShown \in 0 .. 2 * maxSize - 1
        /\ maxSize >= 2 => rindex + rindexShown + 1 \in 0 .. 2 * maxSize - 1
        /\ rindex \in Int /\ rindexShown \in Int
    BY MaxSize DEF TypeOK, Slots
  <1>2. peek = IF rindex + rindexShown < maxSize
               THEN rindex + rindexShown ELSE rindex + rindexShown - maxSize
    BY <1>1, MaxSize, SMTT(30) DEF peek
  <1>3. maxSize >= 2 => peekNext = IF rindex + rindexShown + 1 < maxSize
               THEN rindex + rindexShown + 1 ELSE rindex + rindexShown + 1 - maxSize
    BY <1>1, MaxSize, SMTT(30) DEF peekNext
  <1> QED BY <1>1, <1>2, <1>3, MaxSize DEF At

\* Distinct positions of the ring are distinct slots.
LEMMA AtInjective ==
    ASSUME TypeOK, NEW i \in 0 .. maxSize - 1, NEW j \in 0 .. maxSize - 1
    PROVE  /\ At(i) \in Slots
           /\ At(i) = At(j) => i = j
  BY MaxSize DEF TypeOK, Slots, At

-----------------------------------------------------------------------------
(* RingInv is inductive. *)

LEMMA InitRing == Init => RingInv
  BY MaxSize DEF Init, RingInv, TypeOK, Slots, ShownIsFirst, WriteIndexFollows,
     FramesConsecutive, WriterHasRoom, ReaderHasFrame, WaitsForReason,
     occupied, At, dropped, nbRemaining

LEMMA PeekWritableRing == RingInv /\ PeekWritable => RingInv'
  BY MaxSize DEF PeekWritable, fields, Full, RingInv, TypeOK, Slots, ShownIsFirst, WriteIndexFollows,
     FramesConsecutive, WriterHasRoom, ReaderHasFrame, WaitsForReason,
     occupied, At, dropped, nbRemaining

LEMMA FillRing == RingInv /\ Fill => RingInv'
  <1> SUFFICES ASSUME RingInv, Fill
               PROVE  RingInv'
    OBVIOUS
  <1> USE MaxSize DEF RingInv, Fill
  <1>1. /\ fQueue' = [fQueue EXCEPT ![windex] = produced + 1]
        /\ windex \in 0 .. MAX_FRAME_QUEUE_SIZE - 1
    BY DEF TypeOK, Slots
  <1>2. TypeOK'
    BY <1>1 DEF TypeOK, Slots, WriterHasRoom
  <1>3. ShownIsFirst' /\ WriteIndexFollows' /\ WriterHasRoom' /\ WaitsForReason'
    BY DEF ShownIsFirst, WriteIndexFollows, WriterHasRoom, WaitsForReason,
           occupied, At, nbRemaining
  <1>4. ReaderHasFrame'
    BY DEF ReaderHasFrame, nbRemaining, At
  <1>5. FramesConsecutive'
    <2>1. occupied' = occupied /\ occupied < maxSize /\ occupied \in Nat
      BY DEF occupied, WriterHasRoom, WriteIndexFollows, TypeOK
    <2>2. \A i \in 0 .. maxSize - 1 : At(i)' = At(i)
      BY DEF At
    <2>3. \A i \in 0 .. maxSize - 1 : i < occupied => At(i) # windex
      BY <2>1, AtInjective DEF WriteIndexFollows
    <2>4. \A i \in 0 .. maxSize - 1 : i < occupied => fQueue'[At(i)] = fQueue[At(i)]
      BY <1>1, <2>3, AtInjective DEF TypeOK, Slots
    <2> QED
      BY <1>1, <2>1, <2>2, <2>4 DEF FramesConsecutive, dropped, TypeOK
  <1> QED
    BY <1>2, <1>3, <1>4, <1>5

LEMMA PushIndexRing == RingInv /\ PushIndex => RingInv'
  <1> SUFFICES ASSUME RingInv, PushIndex
               PROVE  RingInv'
    OBVIOUS
  <1> USE MaxSize DEF RingInv, PushIndex
  <1>1. TypeOK'
    BY DEF TypeOK, Slots, Increment
  <1>2. ShownIsFirst' /\ WriterHasRoom' /\ WaitsForReason' /\ ReaderHasFrame'
    BY DEF ShownIsFirst, WriterHasRoom, WaitsForReason, ReaderHasFrame,
           nbRemaining, At
  <1>3. occupied' = occupied + 1 /\ occupied < maxSize /\ occupied \in Nat
    BY DEF occupied, WriterHasRoom, WriteIndexFollows, TypeOK
  <1>4. WriteIndexFollows'
    BY <1>3 DEF WriteIndexFollows, Increment, At, TypeOK, Slots
  <1>5. FramesConsecutive'
    <2>1. \A i \in 0 .. maxSize - 1 : At(i)' = At(i)
      BY DEF At
    <2>2. fQueue[At(occupied)] = dropped + occupied + 1
      BY <1>3 DEF FramesConsecutive, WriteIndexFollows, TypeOK, dropped
    <2> QED
      BY <1>3, <2>1, <2>2 DEF FramesConsecutive, dropped, TypeOK
  <1> QED
    BY <1>1, <1>2, <1>4, <1>5

LEMMA PushSizeRing == RingInv /\ PushSize => RingInv'
  <1> SUFFICES ASSUME RingInv, PushSize
               PROVE  RingInv'
    OBVIOUS
  <1> USE MaxSize DEF RingInv, PushSize, notifyNoEmpty
  <1>1. TypeOK'
    BY DEF TypeOK, WriterHasRoom, ReaderHasFrame, nbRemaining
  <1>2. ShownIsFirst' /\ WriterHasRoom'
    BY DEF ShownIsFirst, WriterHasRoom, TypeOK
  <1>3. occupied' = occupied /\ nbRemaining' = nbRemaining + 1
    BY DEF occupied, nbRemaining, TypeOK
  <1>4. WriteIndexFollows' /\ FramesConsecutive'
    BY <1>3 DEF WriteIndexFollows, FramesConsecutive, At, dropped
  <1>5. ReaderHasFrame'
    BY <1>3 DEF ReaderHasFrame, nbRemaining, At, TypeOK
  <1>6. WaitsForReason'
    BY <1>3 DEF WaitsForReason, WriterHasRoom, nbRemaining, TypeOK
  <1> QED
    BY <1>1, <1>2, <1>4, <1>5, <1>6

LEMMA PeekRing == RingInv /\ (PollAndPeek \/ PeekReadable) => RingInv'
  <1> SUFFICES ASSUME RingInv, PollAndPeek \/ PeekReadable
               PROVE  RingInv'
    OBVIOUS
  <1> USE MaxSize DEF RingInv, PollAndPeek, PeekReadable, fields
  <1>1. vp' # vp => vp' = At(rindexShown) /\ At(rindexShown) \in Slots
    <2>1. rindexShown \in 0 .. maxSize - 1
      BY DEF ShownIsFirst, TypeOK
    <2> QED
      BY <2>1, PeekIsAt, AtInjective
  <1>2. TypeOK'
    BY <1>1 DEF TypeOK
  <1>3. ShownIsFirst' /\ WriteIndexFollows' /\ FramesConsecutive' /\ WriterHasRoom'
    BY DEF ShownIsFirst, WriteIndexFollows, FramesConsecutive, WriterHasRoom,
           occupied, dropped, At
  <1>4. nbRemaining' = nbRemaining /\ At(rindexShown)' = At(rindexShown)
    BY DEF nbRemaining, At
  <1>5. ReaderHasFrame'
    BY <1>4, PeekIsAt DEF ReaderHasFrame, Empty, nbRemaining, TypeOK
  <1>6. WaitsForReason'
    BY <1>4 DEF WaitsForReason, ReaderHasFrame, Empty, nbRemaining, TypeOK
  <1> QED
    BY <1>2, <1>3, <1>5, <1>6

LEMMA NextMarksShownRing == RingInv /\ NextMarksShown => RingInv'
  BY MaxSize DEF NextMarksShown, OnlyMarksShown, RingInv, TypeOK, Slots, ShownIsFirst, WriteIndexFollows,
     FramesConsecutive, WriterHasRoom, ReaderHasFrame, WaitsForReason,
     occupied, At, dropped, nbRemaining

LEMMA NextIndexRing == RingInv /\ NextIndex => RingInv'
  <1> SUFFICES ASSUME RingInv, NextIndex
               PROVE  RingInv'
    OBVIOUS
  <1> USE MaxSize DEF RingInv, NextIndex
  <1>1. /\ occupied' = occupied - 1 /\ dropped' = dropped + 1
        /\ occupied \in 1 .. maxSize
        /\ pcW = "push" => occupied < maxSize
        /\ nbRemaining >= 1 /\ nbRemaining' = nbRemaining
    BY DEF occupied, dropped, nbRemaining, ReaderHasFrame, WriterHasRoom,
           WriteIndexFollows, TypeOK
  <1>2. /\ \A i \in 0 .. maxSize - 2 : At(i)' = At(i + 1)
        /\ At(0) = rindex
        /\ At(occupied)' = At(occupied)
    BY <1>1 DEF At, Increment, TypeOK, Slots
  <1>3. taken + 1 <= NumFrames
    BY <1>1 DEF FramesConsecutive, dropped, occupied, nbRemaining, TypeOK, ReaderHasFrame
  <1>4. TypeOK'
    BY <1>3 DEF TypeOK, Slots, Increment
  <1>5. ShownIsFirst' /\ WriterHasRoom' /\ WaitsForReason'
    BY DEF ShownIsFirst, WriterHasRoom, WaitsForReason, OnlyMarksShown,
           nbRemaining, TypeOK
  <1>6. WriteIndexFollows'
    BY <1>1, <1>2 DEF WriteIndexFollows
  <1>7. FramesConsecutive'
    <2>1. ASSUME NEW i \in 0 .. maxSize - 1, i < occupied'
          PROVE  fQueue'[At(i)'] = dropped' + i + 1
      <3>1. i \in 0 .. maxSize - 2 /\ i + 1 < occupied /\ i + 1 \in 0 .. maxSize - 1
        BY <2>1, <1>1
      <3>2. At(i)' = At(i + 1) /\ At(i + 1) # rindex /\ At(i + 1) \in Slots
        BY <3>1, <1>2, AtInjective DEF TypeOK
      <3>3. fQueue'[At(i + 1)] = fQueue[At(i + 1)]
        BY <3>2 DEF TypeOK, Slots
      <3>4. fQueue[At(i + 1)] = dropped + (i + 1) + 1
        BY <3>1 DEF FramesConsecutive
      <3> QED
        BY <3>2, <3>3, <3>4, <1>1 DEF dropped, TypeOK
    <2>2. pcW = "push" => windex # rindex /\ windex \in Slots
      BY <1>1, <1>2, AtInjective DEF WriteIndexFollows, TypeOK
    <2>3. pcW' = "push" => fQueue'[windex'] = produced'
      BY <2>2 DEF FramesConsecutive, TypeOK, Slots
    <2>4. produced' = dropped' + occupied' + (IF pcW' = "push" THEN 1 ELSE 0)
      BY <1>1 DEF FramesConsecutive, dropped, TypeOK
    <2> QED
      BY <2>1, <2>3, <2>4 DEF FramesConsecutive
  <1>8. ReaderHasFrame'
    BY <1>1 DEF ReaderHasFrame, ShownIsFirst, OnlyMarksShown, nbRemaining, At,
                Increment, TypeOK, Slots
  <1> QED
    BY <1>4, <1>5, <1>6, <1>7, <1>8

LEMMA NextSizeRing == RingInv /\ NextSize => RingInv'
  <1> SUFFICES ASSUME RingInv, NextSize
               PROVE  RingInv'
    OBVIOUS
  <1> USE MaxSize DEF RingInv, NextSize, notifyNoFull
  <1>1. TypeOK'
    BY DEF TypeOK, WriterHasRoom, ReaderHasFrame, nbRemaining
  <1>2. ShownIsFirst' /\ WriterHasRoom'
    BY DEF ShownIsFirst, WriterHasRoom, TypeOK
  <1>3. occupied' = occupied /\ nbRemaining' = nbRemaining - 1
    BY DEF occupied, nbRemaining, TypeOK
  <1>4. WriteIndexFollows' /\ FramesConsecutive'
    BY <1>3 DEF WriteIndexFollows, FramesConsecutive, At, dropped
  <1>5. ReaderHasFrame'
    BY <1>3 DEF ReaderHasFrame, nbRemaining, At, TypeOK
  <1>6. WaitsForReason'
    BY <1>3 DEF WaitsForReason, WriterHasRoom, nbRemaining, TypeOK
  <1> QED
    BY <1>1, <1>2, <1>4, <1>5, <1>6

LEMMA OtherRing == RingInv /\ (Callback \/ SpuriousWakeup \/ UNCHANGED vars) => RingInv'
  BY MaxSize DEF Callback, SpuriousWakeup, vars, fields, RingInv, TypeOK, Slots, ShownIsFirst, WriteIndexFollows,
     FramesConsecutive, WriterHasRoom, ReaderHasFrame, WaitsForReason,
     occupied, At, dropped, nbRemaining
-----------------------------------------------------------------------------
(* RingInv implies every invariant of FrameQueue. *)

LEMMA RingImpliesPeekInOrder == RingInv => PeekInOrder
  <1> SUFFICES ASSUME RingInv, pcR = "peeked"
               PROVE  fQueue[vp] = taken + 1
    BY DEF PeekInOrder
  <1>1. rindexShown \in 0 .. maxSize - 1 /\ rindexShown < occupied
    BY MaxSize DEF RingInv, TypeOK, ShownIsFirst, ReaderHasFrame, occupied, nbRemaining
  <1>2. fQueue[At(rindexShown)] = dropped + rindexShown + 1
    BY <1>1 DEF RingInv, FramesConsecutive
  <1> QED
    BY <1>2 DEF RingInv, ReaderHasFrame, TypeOK, dropped

LEMMA RingImpliesNoSlotShared == RingInv => NoSlotShared
  <1> SUFFICES ASSUME RingInv, pcW \in {"fill", "push"}
               PROVE  /\ pcR = "peeked" => windex \notin {vp, rindex}
                      /\ rindexShown = 1 => windex # rindex
    BY DEF NoSlotShared
  <1>1. /\ occupied \in 0 .. maxSize - 1
        /\ windex = At(occupied) /\ rindex = At(0)
        /\ 0 \in 0 .. maxSize - 1
    BY MaxSize DEF RingInv, TypeOK, Slots, WriterHasRoom, WriteIndexFollows, occupied, At
  <1>2. occupied # 0 => windex # rindex
    BY <1>1, AtInjective DEF RingInv
  <1>3. /\ pcR = "peeked" => rindexShown < occupied
        /\ rindexShown = 1 => occupied > 0
        /\ rindexShown \in 0 .. maxSize - 1
    BY MaxSize DEF RingInv, TypeOK, ShownIsFirst, ReaderHasFrame, WriterHasRoom, occupied, nbRemaining
  <1>4. pcR = "peeked" => windex # vp
    BY <1>1, <1>3, AtInjective DEF RingInv, ReaderHasFrame
  <1> QED
    BY <1>1, <1>2, <1>3, <1>4

LEMMA RingImpliesRetained == RingInv => RetainedFrameIntact /\ CallbackFrameIntact
  <1> SUFFICES ASSUME RingInv, keepLast
               PROVE  /\ lastPos = (IF taken = 0 THEN -1 ELSE taken)
                      /\ pcR \in {"dequeue", "callback"} => fQueue[vp] = taken
    BY DEF RetainedFrameIntact, CallbackFrameIntact
  <1>1. At(0) = rindex /\ 0 \in 0 .. maxSize - 1
    BY MaxSize DEF RingInv, TypeOK, Slots, At
  <1>2. rindexShown = 1 => occupied > 0 /\ dropped = taken - 1
    BY DEF RingInv, TypeOK, ReaderHasFrame, occupied, nbRemaining, dropped
  <1>3. rindexShown = 1 => fQueue[rindex] = taken
    BY <1>1, <1>2 DEF RingInv, FramesConsecutive, TypeOK
  <1> QED
    BY <1>3 DEF RingInv, ShownIsFirst, ReaderHasFrame, lastPos, TypeOK

LEMMA RingImpliesSuccessor == RingInv => PeekNextIsSuccessor
  <1> SUFFICES ASSUME RingInv, pcR = "peeked", nbRemaining > 1
               PROVE  fQueue[peekNext] = taken + 2
    BY DEF PeekNextIsSuccessor
  <1>1. /\ maxSize >= 2 /\ rindexShown + 1 \in 0 .. maxSize - 1
        /\ rindexShown + 1 < occupied
    BY MaxSize DEF RingInv, TypeOK, WriteIndexFollows, occupied, nbRemaining
  <1>2. peekNext = At(rindexShown + 1)
    BY <1>1, PeekIsAt DEF RingInv
  <1>3. fQueue[At(rindexShown + 1)] = dropped + (rindexShown + 1) + 1
    BY <1>1 DEF RingInv, FramesConsecutive
  <1> QED
    BY <1>2, <1>3 DEF RingInv, TypeOK, dropped

LEMMA RingImpliesNoLostWakeup == RingInv => NoLostWakeup
  BY MaxSize DEF RingInv, TypeOK, ShownIsFirst, WaitsForReason, NoLostWakeup,
                 Full, Empty, nbRemaining

-----------------------------------------------------------------------------
(* The theorems. *)

\* Every step keeps the shape of the ring, so it holds for ever.
THEOREM RingAlways == SafeSpec => []RingInv
  <1>1. RingInv /\ [Next]_vars => RingInv'
    BY PeekWritableRing, FillRing, PushIndexRing, PushSizeRing, PeekRing,
       NextMarksShownRing, NextIndexRing, NextSizeRing, OtherRing
       DEF Next, Writer, Reader
  <1> QED
    BY InitRing, <1>1, PTL DEF SafeSpec

\* Indexes, count and slots stay in range: no index ever leaves the array.
THEOREM TypeCorrect == SafeSpec => []TypeOK
  BY RingAlways, PTL DEF RingInv

\* The showing thread peeks every frame once, in decode order, fully written.
THEOREM PeeksInOrder == SafeSpec => []PeekInOrder
  BY RingAlways, RingImpliesPeekInOrder, PTL

\* The decode thread never writes a slot the showing thread uses: the two
\* need no lock around the frame itself.
THEOREM SlotsNotShared == SafeSpec => []NoSlotShared
  BY RingAlways, RingImpliesNoSlotShared, PTL

\* The retained frame is the last one shown and is never overwritten.
THEOREM RetainedFrameSafe == SafeSpec => []RetainedFrameIntact
  BY RingAlways, RingImpliesRetained, PTL

\* The callback may use its frame after next(): the decode thread cannot have
\* been given its slot.
THEOREM CallbackFrameSafe == SafeSpec => []CallbackFrameIntact
  BY RingAlways, RingImpliesRetained, PTL

\* peekNext() after nbRemaining() > 1 is the following frame.
THEOREM SuccessorSafe == SafeSpec => []PeekNextIsSuccessor
  BY RingAlways, RingImpliesSuccessor, PTL

\* The threads never wait without reason, and never both at once.
THEOREM WakeupsNotLost == SafeSpec => []NoLostWakeup
  BY RingAlways, RingImpliesNoLostWakeup, PTL
=============================================================================
