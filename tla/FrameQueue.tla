----------------------------- MODULE FrameQueue -----------------------------
(***************************************************************************)
(* The ring buffer of decoded frames (src/src/utils/FrameQueue.cpp), used  *)
(* by two threads: the decode thread peeks a writable slot, fills it and   *)
(* pushes; the thread that shows the frames peeks, moves on with next()    *)
(* and then still uses the frame it peeked.  Only `size' is updated under  *)
(* qmutex.  windex, rindex and rindexShown are changed outside it, so      *)
(* push() and next() are two steps each.                                   *)
(*                                                                         *)
(* A slot of fQueue holds the number, in decode order, of the frame in it; *)
(* 0 is a slot that was never filled or was unreferenced.                  *)
(***************************************************************************)
EXTENDS Integers

CONSTANTS MAX_FRAME_QUEUE_SIZE,  \* slots of the array
          max_size,              \* first argument of init()
          keepLast,              \* second argument of init(): TRUE or FALSE
          NumFrames              \* bound: frames the stream decodes to

maxSize == IF max_size < MAX_FRAME_QUEUE_SIZE THEN max_size
                                              ELSE MAX_FRAME_QUEUE_SIZE

\* What init() does not check and its callers must respect: with one slot and
\* a retained frame no second frame could ever be written.
ASSUME QueueAssumption ==
    /\ MAX_FRAME_QUEUE_SIZE \in Nat
    /\ max_size \in Nat
    /\ keepLast \in BOOLEAN
    /\ maxSize >= (IF keepLast THEN 2 ELSE 1)
    /\ NumFrames \in Nat

VARIABLES
    rindex, windex, size, rindexShown, fQueue,   \* the object's fields
    pcW,        \* where the decode thread is
    pcR,        \* where the showing thread is
    vp,         \* the slot the showing thread peeked
    produced,   \* frames the decode thread has put in a slot
    taken       \* frames the showing thread has moved past the front

fields == <<rindex, windex, size, rindexShown, fQueue>>
vars == <<rindex, windex, size, rindexShown, fQueue, pcW, pcR, vp, produced, taken>>

Slots == 0 .. maxSize - 1

TypeOK ==
    /\ rindex \in Slots /\ windex \in Slots
    /\ size \in 0 .. maxSize
    /\ rindexShown \in {0, 1}
    /\ fQueue \in [0 .. MAX_FRAME_QUEUE_SIZE - 1 -> 0 .. NumFrames]
    /\ pcW \in {"idle", "waitNoFull", "fill", "push", "publish"}
    /\ pcR \in {"idle", "waitNoEmpty", "recheck", "peeked", "dequeue", "callback"}
    /\ vp \in Slots
    /\ produced \in 0 .. NumFrames
    /\ taken \in 0 .. NumFrames

Init ==
    /\ rindex = 0 /\ windex = 0 /\ size = 0 /\ rindexShown = 0
    /\ fQueue = [i \in 0 .. MAX_FRAME_QUEUE_SIZE - 1 |-> 0]
    /\ pcW = "idle" /\ pcR = "idle" /\ vp = 0
    /\ produced = 0 /\ taken = 0

-----------------------------------------------------------------------------
(* Index arithmetic and the reads of the class. *)

\* Mutant: compares before it increments.
IncrementLate(i) == IF i = maxSize THEN 0 ELSE i + 1

\* ++windex and ++rindex wrap by comparison, the peeks by remainder.
Increment(i) == IF i + 1 = maxSize THEN 0 ELSE i + 1

peek     == (rindex + rindexShown) % maxSize
peekLast == rindex

\* Mutant: forgets the retained frame.
peekNextOfFront == (rindex + 1) % maxSize

peekNext == (rindex + rindexShown + 1) % maxSize

\* Mutant: counts the retained frame.
nbCounted == size

nbRemaining == size - rindexShown

\* Mutant: off by one.
FullTooLate == size > maxSize

Full  == size >= maxSize
Empty == nbRemaining <= 0

\* The position of the frame shown last, -1 when none was shown.
lastPos == IF rindexShown = 1 THEN fQueue[rindex] ELSE -1

\* Mutant: next() never keeps a frame.
NeverMarksShown == FALSE

\* next() only marks the front frame as shown when it is the first one kept.
OnlyMarksShown == keepLast /\ rindexShown = 0

\* Mutant: no notification.
notifyNobody(pc) == pc

\* cond.notify_one(): the other thread, if it waits, goes back to the test of
\* its while loop.
notifyNoEmpty(pc) == IF pc = "waitNoEmpty" THEN "recheck" ELSE pc
notifyNoFull(pc)  == IF pc = "waitNoFull" THEN "idle" ELSE pc

-----------------------------------------------------------------------------
(* The decode thread. *)

\* The test of the while loop, under qmutex: wait, or return the slot.
PeekWritable ==
    /\ pcW = "idle"
    /\ produced < NumFrames
    /\ pcW' = IF Full THEN "waitNoFull" ELSE "fill"
    /\ UNCHANGED <<fields, pcR, vp, produced, taken>>

\* The decode thread writes the frame into the slot it was given.
Fill ==
    /\ pcW = "fill"
    /\ fQueue' = [fQueue EXCEPT ![windex] = produced + 1]
    /\ produced' = produced + 1
    /\ pcW' = "push"
    /\ UNCHANGED <<rindex, windex, size, rindexShown, pcR, vp, taken>>

\* First half of push(), outside the lock.
PushIndex ==
    /\ pcW = "push"
    /\ windex' = Increment(windex)
    /\ pcW' = "publish"
    /\ UNCHANGED <<rindex, size, rindexShown, fQueue, pcR, vp, produced, taken>>

\* Second half, under the lock.
PushSize ==
    /\ pcW = "publish"
    /\ size' = size + 1
    /\ pcR' = notifyNoEmpty(pcR)
    /\ pcW' = "idle"
    /\ UNCHANGED <<rindex, windex, rindexShown, fQueue, vp, produced, taken>>

-----------------------------------------------------------------------------
(* The thread that shows the frames. *)

\* nbRemaining() > 0, read without the lock, then peek().
PollAndPeek ==
    /\ pcR = "idle"
    /\ ~Empty
    /\ vp' = peek
    /\ pcR' = "peeked"
    /\ UNCHANGED <<fields, pcW, produced, taken>>

\* peekReadable(): the test of the while loop, under qmutex.
PeekReadable ==
    /\ pcR \in {"idle", "recheck"}
    /\ IF Empty THEN pcR' = "waitNoEmpty" /\ UNCHANGED vp
                ELSE pcR' = "peeked" /\ vp' = peek
    /\ UNCHANGED <<fields, pcW, produced, taken>>

\* next() when the front frame is the first to be kept.
NextMarksShown ==
    /\ pcR = "peeked"
    /\ OnlyMarksShown
    /\ rindexShown' = 1
    /\ taken' = taken + 1
    /\ pcR' = "callback"
    /\ UNCHANGED <<rindex, windex, size, fQueue, pcW, vp, produced>>

\* next() otherwise: unrefItem and ++rindex, outside the lock.
NextIndex ==
    /\ pcR = "peeked"
    /\ ~OnlyMarksShown
    /\ fQueue' = [fQueue EXCEPT ![rindex] = 0]
    /\ rindex' = Increment(rindex)
    /\ taken' = taken + 1
    /\ pcR' = "dequeue"
    /\ UNCHANGED <<windex, size, rindexShown, pcW, vp, produced>>

\* ... and size-- under the lock.
NextSize ==
    /\ pcR = "dequeue"
    /\ size' = size - 1
    /\ pcW' = notifyNoFull(pcW)
    /\ pcR' = "callback"
    /\ UNCHANGED <<rindex, windex, rindexShown, fQueue, vp, produced, taken>>

\* The callback uses *vp after next(); then the thread starts over.
Callback ==
    /\ pcR = "callback"
    /\ pcR' = "idle"
    /\ UNCHANGED <<fields, pcW, vp, produced, taken>>

\* Condition variables may wake a thread that nobody notified.
SpuriousWakeup ==
    /\ \/ pcW = "waitNoFull" /\ pcW' = "idle" /\ UNCHANGED pcR
       \/ pcR = "waitNoEmpty" /\ pcR' = "recheck" /\ UNCHANGED pcW
    /\ UNCHANGED <<fields, vp, produced, taken>>

-----------------------------------------------------------------------------
Writer == PeekWritable \/ Fill \/ PushIndex \/ PushSize
Reader == \/ PollAndPeek \/ PeekReadable \/ NextMarksShown
          \/ NextIndex \/ NextSize \/ Callback

Next == Writer \/ Reader \/ SpuriousWakeup

SafeSpec == Init /\ [][Next]_vars

\* Both threads are scheduled by the system and qmutex is held for a few
\* instructions only; a spurious wakeup is never owed.
Spec == SafeSpec /\ WF_vars(Writer) /\ WF_vars(Reader)

-----------------------------------------------------------------------------
(* Safety. *)

\* The frame the showing thread holds between peek() and next() is the one
\* after the last it moved past, completely written: push() and next() never
\* let it see a slot early, twice or out of order although windex and rindex
\* move outside the lock.
PeekInOrder == pcR = "peeked" => fQueue[vp] = taken + 1

\* The slot peekWritable() returned is not one the showing thread holds, nor
\* the retained frame's, from the moment it is returned until size counts it.
NoSlotShared ==
    pcW \in {"fill", "push"} =>
        /\ pcR = "peeked" => windex \notin {vp, rindex}
        /\ rindexShown = 1 => windex # rindex

\* With keep_last, peekLast() and lastPos() give the frame next() was called
\* on last, and its content survives every write, also while next() is half
\* done.
RetainedFrameIntact ==
    keepLast => lastPos = (IF taken = 0 THEN -1 ELSE taken)

\* With keep_last, the frame the showing thread uses after next() has neither
\* been unreferenced nor reused by the decode thread: next() unreferences the
\* frame before it.
CallbackFrameIntact ==
    keepLast /\ pcR \in {"dequeue", "callback"} => fQueue[vp] = taken

\* When nbRemaining() > 1 was read, peekNext() is the successor of the peeked
\* frame and completely written, so the duration vpDuration computes from the
\* two is that of consecutive frames.
PeekNextIsSuccessor ==
    pcR = "peeked" /\ nbRemaining > 1 => fQueue[peekNext] = taken + 2

\* A thread that waits has a reason to: the decode thread waits only while the
\* queue is full, the showing thread only while no frame is unshown.  No
\* wakeup is lost, and the two never wait for each other.
NoLostWakeup ==
    /\ pcW = "waitNoFull" => Full
    /\ pcR = "waitNoEmpty" => Empty
    /\ ~(pcW = "waitNoFull" /\ pcR = "waitNoEmpty")

-----------------------------------------------------------------------------
(* Why the above holds: the shape of the ring between any two steps. *)

\* Slots from the front one to the write index.  size lags behind: it does not
\* yet count a half-done push() and still counts a half-done next().
occupied == size + (IF pcW = "publish" THEN 1 ELSE 0)
                 - (IF pcR = "dequeue" THEN 1 ELSE 0)

\* The i-th slot from the front, by comparison as the indexes advance.
At(i) == IF rindex + i < maxSize THEN rindex + i ELSE rindex + i - maxSize

\* Frames unreferenced so far.
dropped == taken - rindexShown

ShownIsFirst == rindexShown = IF keepLast /\ taken > 0 THEN 1 ELSE 0

WriteIndexFollows ==
    /\ occupied \in 0 .. maxSize
    /\ windex = At(occupied)

FramesConsecutive ==
    /\ \A i \in 0 .. maxSize - 1 : i < occupied => fQueue[At(i)] = dropped + i + 1
    /\ produced = dropped + occupied + (IF pcW = "push" THEN 1 ELSE 0)
    /\ pcW = "push" => fQueue[windex] = produced

WriterHasRoom ==
    /\ pcW \in {"fill", "push", "publish"} => size < maxSize
    /\ pcW = "fill" => produced < NumFrames

ReaderHasFrame ==
    /\ nbRemaining >= 0
    /\ pcR \in {"peeked", "dequeue"} => nbRemaining >= 1
    /\ pcR = "peeked" => vp = At(rindexShown)
    /\ keepLast /\ pcR \in {"dequeue", "callback"} => rindexShown = 1 /\ vp = rindex

WaitsForReason ==
    /\ pcW = "waitNoFull" => size = maxSize
    /\ pcR = "waitNoEmpty" => nbRemaining = 0

\* The slots from rindex to windex hold consecutive frame numbers, each index
\* is where size and the half-done calls say, and waiting threads have a
\* reason to wait.  This is inductive and implies every invariant above.
RingInv ==
    /\ TypeOK
    /\ ShownIsFirst
    /\ WriteIndexFollows
    /\ FramesConsecutive
    /\ WriterHasRoom
    /\ ReaderHasFrame
    /\ WaitsForReason

-----------------------------------------------------------------------------
(* Liveness and refinement. *)

\* Every frame the decoder produces is moved past by the showing thread.
AllFramesTaken == <>(taken = NumFrames)

\* Frames pushed and not moved past.  size still counts the frame that a
\* half-done next() has left.
visible == nbRemaining - (IF pcR = "dequeue" THEN 1 ELSE 0)

chanQueue == [i \in 1 .. visible |-> fQueue[(peek + i - 1) % maxSize]]
chanKept  == IF rindexShown = 1 THEN fQueue[rindex] ELSE 0
chanSent  == produced - (IF pcW \in {"push", "publish"} THEN 1 ELSE 0)

Channel == INSTANCE FrameChannel WITH
    Capacity <- maxSize, Retain <- keepLast,
    queue <- chanQueue, kept <- chanKept, sent <- chanSent

\* The ring buffer implements the bounded FIFO with a retained frame.
ChannelSpec == Channel!Spec
=============================================================================
