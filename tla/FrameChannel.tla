---------------------------- MODULE FrameChannel ----------------------------
(***************************************************************************)
(* What FrameQueue promises the decode thread and the thread that shows    *)
(* the frames: a bounded FIFO of decoded frames which, when keep_last was  *)
(* asked for, retains the frame taken last (and its slot) until the next   *)
(* one is taken.  A frame is its number in decode order; 0 is no frame.    *)
(***************************************************************************)
EXTENDS Naturals, Sequences

CONSTANTS Capacity,   \* slots of the queue
          Retain,     \* is the frame taken last retained?
          NumFrames   \* frames the stream decodes to

VARIABLES queue,   \* frames sent and not taken
          kept,    \* the retained frame, or 0
          sent     \* frames sent so far

chanVars == <<queue, kept, sent>>

TypeOK ==
    /\ queue \in Seq(1..NumFrames)
    /\ kept \in 0..NumFrames
    /\ sent \in 0..NumFrames

SlotsUsed == Len(queue) + (IF kept = 0 THEN 0 ELSE 1)

Init ==
    /\ queue = << >>
    /\ kept = 0
    /\ sent = 0

Send ==
    /\ sent < NumFrames
    /\ SlotsUsed < Capacity
    /\ sent' = sent + 1
    /\ queue' = Append(queue, sent + 1)
    /\ UNCHANGED kept

Take ==
    /\ queue # << >>
    /\ queue' = Tail(queue)
    /\ kept' = IF Retain THEN Head(queue) ELSE 0
    /\ UNCHANGED sent

Next == Send \/ Take

SafeSpec == Init /\ [][Next]_chanVars

Spec == SafeSpec /\ WF_chanVars(Send) /\ WF_chanVars(Take)
=============================================================================
