------------------------- MODULE FrameQueue_refines -------------------------
(***************************************************************************)
(* The ring buffer implements the bounded FIFO with a retained frame,      *)
(* FrameChannel: its initial state is the channel's, and every step is a   *)
(* Send (size++), a Take (the first half of next()) or no step at all.     *)
(***************************************************************************)
EXTENDS FrameQueue_proofs, SequenceTheorems

\* What the refinement mapping amounts to once the ring has its shape.
Mapped == /\ visible \in Nat
          /\ chanQueue = [i \in 1 .. visible |-> taken + i]
          /\ chanKept = (IF rindexShown = 1 THEN taken ELSE 0)
          /\ chanSent = taken + visible
          /\ chanKept # 0 <=> rindexShown = 1
          /\ taken \in Nat

LEMMA RingMapped == RingInv => Mapped
  <1> SUFFICES ASSUME RingInv
               PROVE  Mapped
    OBVIOUS
  <1>1. /\ visible \in Nat /\ taken \in Nat /\ rindexShown \in 0 .. maxSize - 1
        /\ visible + rindexShown <= maxSize /\ visible + rindexShown <= occupied
        /\ occupied - visible - rindexShown = (IF pcW = "publish" THEN 1 ELSE 0)
    BY MaxSize DEF RingInv, TypeOK, ShownIsFirst, WriteIndexFollows, ReaderHasFrame,
                   visible, occupied, nbRemaining
  <1>2. ASSUME NEW i \in 1 .. visible
        PROVE  fQueue[(peek + i - 1) % maxSize] = taken + i
    <2>1. rindexShown + i - 1 \in 0 .. maxSize - 1 /\ rindexShown + i - 1 < occupied
      BY <1>1, MaxSize DEF RingInv, WriteIndexFollows
    <2>2. (peek + i - 1) % maxSize = At(rindexShown + i - 1)
      <3>1. /\ peek = At(rindexShown)
            /\ rindex \in 0 .. maxSize - 1
            /\ peek \in 0 .. maxSize - 1
        BY <1>1, PeekIsAt, AtInjective DEF RingInv, TypeOK, Slots
      <3>2. (peek + i - 1) % maxSize = IF peek + i - 1 < maxSize
                                       THEN peek + i - 1 ELSE peek + i - 1 - maxSize
        <4>1. peek + i - 1 \in 0 .. 2 * maxSize - 1 /\ peek \in Int /\ i \in Int
          BY <2>1, <3>1, <1>1, MaxSize
        <4> QED
          BY <4>1, MaxSize, SMTT(30)
      <3> QED
        BY <3>1, <3>2, <2>1, <1>1, MaxSize DEF At
    <2>3. fQueue[At(rindexShown + i - 1)] = dropped + (rindexShown + i - 1) + 1
      BY <2>1 DEF RingInv, FramesConsecutive
    <2> QED
      BY <2>2, <2>3, <1>1 DEF RingInv, TypeOK, dropped
  <1>3. chanQueue = [i \in 1 .. visible |-> taken + i]
    BY <1>2 DEF chanQueue
  <1>4. chanKept = (IF rindexShown = 1 THEN taken ELSE 0) /\ (rindexShown = 1 => taken > 0)
    <2>1. rindexShown = 1 => keepLast
      BY DEF RingInv, ShownIsFirst
    <2>2. RetainedFrameIntact
      BY RingImpliesRetained
    <2> QED
      BY <2>1, <2>2 DEF RetainedFrameIntact, lastPos, chanKept, RingInv, ShownIsFirst, TypeOK
  <1>5. chanSent = taken + visible
    <2>1. produced = taken - rindexShown + occupied + (IF pcW = "push" THEN 1 ELSE 0)
      BY DEF RingInv, FramesConsecutive, dropped
    <2>2. /\ occupied \in Int /\ rindexShown \in Int /\ produced \in Int
          /\ occupied = visible + rindexShown + (IF pcW = "publish" THEN 1 ELSE 0)
      BY <1>1 DEF RingInv, TypeOK, WriteIndexFollows
    <2> QED
      BY <1>1, <2>1, <2>2 DEF chanSent
  <1> QED
    BY <1>1, <1>3, <1>4, <1>5 DEF Mapped, RingInv, TypeOK

\* A step that changes neither what is visible nor what was taken is no step
\* of the channel.
LEMMA StutterMapped ==
    ASSUME Mapped, Mapped',
           visible' = visible, taken' = taken, rindexShown' = rindexShown
    PROVE  UNCHANGED Channel!chanVars
  BY DEF Mapped, Channel!chanVars

\* The second half of push() is a Send.
LEMMA PushSizeSends ==
    ASSUME RingInv, Mapped, Mapped', PushSize
    PROVE  Channel!Send
  <1>1. /\ visible' = visible + 1 /\ taken' = taken /\ rindexShown' = rindexShown
        /\ visible + rindexShown < maxSize
        /\ produced = taken + visible + 1
        /\ produced <= NumFrames
    BY MaxSize DEF PushSize, notifyNoEmpty, visible, nbRemaining, RingInv, TypeOK, WriterHasRoom,
                   FramesConsecutive, dropped, occupied
  <1>2. Len(chanQueue) = visible /\ chanQueue \in Seq(Int)
    BY DEF Mapped
  <1>3. chanQueue' = Append(chanQueue, taken + visible + 1)
    BY <1>1, <1>2 DEF Mapped
  <1>4. Channel!SlotsUsed < maxSize
    BY <1>1, <1>2, MaxSize DEF Channel!SlotsUsed, Mapped, RingInv, TypeOK
  <1> QED
    BY <1>1, <1>3, <1>4, MaxSize DEF Mapped, Channel!Send

\* The first half of next() is a Take.
LEMMA NextTakes ==
    ASSUME RingInv, Mapped, Mapped', NextMarksShown \/ NextIndex
    PROVE  Channel!Take
  <1>1. /\ visible' = visible - 1 /\ taken' = taken + 1 /\ visible >= 1
        /\ chanSent' = chanSent
        /\ rindexShown' = (IF keepLast THEN 1 ELSE 0)
    BY MaxSize DEF NextMarksShown, NextIndex, OnlyMarksShown, visible, nbRemaining, chanSent,
                   RingInv, TypeOK, ReaderHasFrame, ShownIsFirst
  <1>2. Len(chanQueue) = visible /\ chanQueue \in Seq(Int) /\ chanQueue # << >>
    BY <1>1 DEF Mapped
  <1>3. Head(chanQueue) = taken + 1
    BY <1>1, <1>2 DEF Mapped
  <1>4. chanQueue' = Tail(chanQueue)
    BY <1>1, <1>2 DEF Mapped
  <1>5. chanKept' = (IF keepLast THEN Head(chanQueue) ELSE 0)
    BY <1>1, <1>3, MaxSize DEF Mapped
  <1> QED
    BY <1>1, <1>2, <1>4, <1>5 DEF Channel!Take

LEMMA StepMapped ==
    ASSUME RingInv, RingInv', [Next]_vars
    PROVE  [Channel!Next]_(Channel!chanVars)
  <1>1. Mapped /\ Mapped'
    BY RingMapped, PTL
  <1>2. CASE PushSize
    BY <1>1, <1>2, PushSizeSends DEF Channel!Next
  <1>3. CASE NextMarksShown \/ NextIndex
    BY <1>1, <1>3, NextTakes DEF Channel!Next
  <1>4. CASE \/ PeekWritable \/ Fill \/ PushIndex \/ PollAndPeek \/ PeekReadable
             \/ NextSize \/ Callback \/ SpuriousWakeup \/ UNCHANGED vars
    <2>1. taken' = taken /\ rindexShown' = rindexShown
      BY <1>4 DEF PeekWritable, Fill, PushIndex, PollAndPeek, PeekReadable, NextSize,
                  Callback, SpuriousWakeup, vars, fields
    <2>2. NextSize => visible' = visible
      BY DEF NextSize, visible, nbRemaining, RingInv, TypeOK
    <2>3. ASSUME ~NextSize
          PROVE  visible' = visible
      <3>1. size' = size /\ (pcR' = "dequeue" <=> pcR = "dequeue")
        BY <1>4, <2>3 DEF PeekWritable, Fill, PushIndex, PollAndPeek, PeekReadable,
                          Callback, SpuriousWakeup, vars, fields
      <3> QED
        BY <2>1, <3>1 DEF visible, nbRemaining
    <2>4. visible' = visible
      BY <2>2, <2>3
    <2> QED
      BY <1>1, <2>1, <2>4, StutterMapped
  <1> QED
    BY <1>2, <1>3, <1>4 DEF Next, Writer, Reader

\* The ring buffer implements the channel: every behaviour of the two threads
\* is one of the bounded FIFO with a retained frame.
THEOREM ImplementsChannel == SafeSpec => Channel!SafeSpec
  <1>1. Init => Channel!Init
    <2> SUFFICES ASSUME Init
                 PROVE  Channel!Init
      OBVIOUS
    <2>1. Mapped /\ visible = 0 /\ taken = 0 /\ rindexShown = 0
      BY InitRing, RingMapped DEF Init, visible, nbRemaining
    <2> QED
      BY <2>1 DEF Mapped, Channel!Init
  <1>2. []RingInv /\ [][Next]_vars => [][Channel!Next]_(Channel!chanVars)
    BY StepMapped, PTL
  <1> QED
    BY <1>1, <1>2, RingAlways, PTL DEF SafeSpec, Channel!SafeSpec
=============================================================================
