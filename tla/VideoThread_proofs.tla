------------------------- MODULE VideoThread_proofs -------------------------
(***************************************************************************)
(* The pace of the showing thread and the life of the frame it shows, for  *)
(* every queue length, every stream and every threshold.                   *)
(***************************************************************************)
EXTENDS VideoThread, SequenceTheorems, TLAPS

Inv == TypeOK /\ PaceInv /\ CallbackFrameKept /\ PeekedIsFirst

-----------------------------------------------------------------------------
(* Frames and durations. *)

\* The first frame of the queue and the one before it are frames.
LEMMA FramesTyped ==
    ASSUME TypeOK, queue # << >>
    PROVE  /\ Head(queue) \in Frames /\ lastvp \in Frames
           /\ Tail(queue) \in Seq(Frames)
  <1>1. queue \in Seq(Frames) /\ kept \in Frames \cup {0}
    BY DEF TypeOK, Chan!TypeOK, Frames
  <1> QED
    BY <1>1, HeadTailProperties DEF lastvp

\* Between frames of one serial a duration is positive when the frame rate is
\* known; it is zero where the serial changes.
LEMMA DurationTyped ==
    ASSUME TypeOK, NEW f \in Frames, NEW g \in Frames
    PROVE  /\ vpDuration(f, g) \in Nat
           /\ FrameDuration > 0 /\ Stale(f) = Stale(g) => vpDuration(f, g) > 0
           /\ Stale(f) # Stale(g) => vpDuration(f, g) = 0
  <1>1. pts[f] \in Int \cup {NaN} /\ pts[g] \in Int \cup {NaN}
    BY VideoAssumption DEF TypeOK, VideoAssumption
  <1>2. CASE NaN \in {pts[f], pts[g]}
    BY <1>2, VideoAssumption DEF vpDuration, VideoAssumption
  <1>3. CASE NaN \notin {pts[f], pts[g]}
    BY <1>1, <1>3, VideoAssumption DEF vpDuration, VideoAssumption
  <1> QED
    BY <1>2, <1>3

\* What a due frame does to the times while frameTimer is a number: see PaceInv.
LEMMA DuePace ==
    ASSUME TypeOK, FrameDue, timerNow = "number"
    PROVE  /\ delay \in Nat /\ lag' \in Times /\ lag' >= 0
           /\ \/ lag' = 0 /\ delay = 0
              \/ lag' = lag - delay
              \/ lag' = 0 /\ lag - delay > SyncMax
           /\ FrameDuration > 0 => lag' <= SyncMax
           /\ lag >= delay \/ delay = 0
  <1>1. delay \in Nat /\ (FrameDuration > 0 /\ Stale(lastvp) = Stale(Head(queue)) => delay > 0)
                      /\ (Stale(lastvp) # Stale(Head(queue)) => delay = 0)
    BY FramesTyped, DurationTyped DEF FrameDue, delay, computeTargetDelay
  <1>2. lag \in Times /\ lagNow \in Times /\ lagNow >= delay /\ lag' = lagAfter
    BY VideoAssumption DEF VideoAssumption, FrameDue, TimeReached, lagNow, TypeOK, Times
  <1>3. CASE Stale(lastvp) # Stale(Head(queue))
    <2>1. lagNow = 0 /\ delay = 0
      BY <1>1, <1>3 DEF lagNow
    <2>2. lag' = 0
      BY <1>2, <2>1 DEF lagAfter
    <2> QED
      BY <2>1, <2>2, VideoAssumption DEF VideoAssumption, Times
  <1>4. CASE Stale(lastvp) = Stale(Head(queue))
    <2>1. lagNow = lag
      BY <1>4 DEF lagNow
    <2>2. lag' = IF delay > 0 /\ lag - delay > SyncMax THEN 0 ELSE lag - delay
      BY <1>2, <2>1 DEF lagAfter
    <2> QED
      BY <1>1, <1>2, <1>4, <2>1, <2>2, VideoAssumption DEF VideoAssumption, Times
  <1> QED
    BY <1>3, <1>4

-----------------------------------------------------------------------------
(* Inv is inductive. *)

LEMMA InitInv == Init => Inv
  BY VideoAssumption DEF VideoAssumption, Init, Inv, TypeOK, Chan!Init, Chan!TypeOK,
     Times, PaceInv, CallbackFrameKept, PeekedIsFirst

\* Sending a frame leaves the first one alone.
LEMMA SendTyped ==
    ASSUME Chan!TypeOK, Chan!Send
    PROVE  /\ Chan!TypeOK'
           /\ queue # << >> => queue' # << >> /\ Head(queue') = Head(queue)
  BY VideoAssumption DEF VideoAssumption, Chan!TypeOK, Chan!Send

LEMMA TakeTyped ==
    ASSUME Chan!TypeOK, Chan!Take
    PROVE  Chan!TypeOK' /\ kept' = Head(queue)
  <1>1. Head(queue) \in 1 .. NumFrames /\ Tail(queue) \in Seq(1 .. NumFrames)
    BY HeadTailProperties DEF Chan!TypeOK, Chan!Take
  <1> QED
    BY <1>1 DEF Chan!TypeOK, Chan!Take

LEMMA FrameDueInv == Inv /\ FrameDue => Inv'
  <1> SUFFICES ASSUME Inv, FrameDue
               PROVE  Inv'
    OBVIOUS
  <1> USE DEF Inv
  <1>1. TypeOK'
    <2>1. timer' \in {"number", "NaN", "Inf"}
      BY DEF FrameDue, timerNow, TypeOK
    <2>2. lag' \in Times /\ ahead' \in Int
      BY DuePace DEF FrameDue, TypeOK
    <2> QED
      BY <2>1, <2>2, FramesTyped DEF FrameDue, TypeOK, Chan!TypeOK, chan, stream, Frames
  <1>2. PaceInv'
    <2>1. CASE timerNow = "number"
      BY <2>1, DuePace, VideoAssumption DEF VideoAssumption, FrameDue, PaceInv, TypeOK, Times
    <2>2. CASE timerNow # "number"
      BY <2>2 DEF FrameDue, PaceInv
    <2> QED
      BY <2>1, <2>2
  <1>3. CallbackFrameKept' /\ PeekedIsFirst'
    BY DEF FrameDue, CallbackFrameKept, PeekedIsFirst, chan
  <1> QED
    BY <1>1, <1>2, <1>3

LEMMA TickInv == Inv /\ Tick => Inv'
  <1> SUFFICES ASSUME Inv, Tick
               PROVE  Inv'
    OBVIOUS
  <1> USE DEF Inv, Tick, chan, stream
  <1>1. TypeOK'
    BY VideoAssumption DEF VideoAssumption, TypeOK, Times, Chan!TypeOK
  <1>2. PaceInv'
    BY VideoAssumption DEF VideoAssumption, PaceInv, TypeOK, Times
  <1>3. CallbackFrameKept' /\ PeekedIsFirst'
    BY DEF CallbackFrameKept, PeekedIsFirst
  <1> QED
    BY <1>1, <1>2, <1>3

LEMMA OtherInv == Inv /\ (DropStale \/ NextFrame \/ Callback \/ Decode \/ UNCHANGED vars) => Inv'
  <1> SUFFICES ASSUME Inv, DropStale \/ NextFrame \/ Callback \/ Decode \/ UNCHANGED vars
               PROVE  Inv'
    OBVIOUS
  <1> USE DEF Inv, DropStale, NextFrame, Callback, Decode, vars, chan, stream, pace
  <1>1. TypeOK'
    <2>1. Chan!TypeOK'
      BY SendTyped, TakeTyped DEF TypeOK, Chan!TypeOK
    <2> QED
      BY <2>1 DEF TypeOK
  <1>2. PaceInv'
    BY DEF PaceInv
  <1>3. CallbackFrameKept' /\ PeekedIsFirst'
    BY SendTyped, TakeTyped DEF TypeOK, CallbackFrameKept, PeekedIsFirst, Chan!Send
  <1> QED
    BY <1>1, <1>2, <1>3

-----------------------------------------------------------------------------
LEMMA InvAlways == SafeSpec => []Inv
  <1>1. Inv /\ [Next]_vars => Inv'
    BY FrameDueInv, TickInv, OtherInv DEF Next, Thread
  <1> QED
    BY InitInv, <1>1, PTL DEF SafeSpec

\* Times stay within the bounds and every field has its type.
THEOREM VideoTypeCorrect == SafeSpec => []TypeOK
  BY InvAlways, PTL DEF Inv

\* With a known frame rate, catching up after a delay never shows any run of
\* frames more than SyncMax ahead of their durations.
THEOREM PaceBounded == SafeSpec => []NeverAhead
  <1>1. Inv => NeverAhead
    BY DEF Inv, PaceInv, NeverAhead
  <1> QED
    BY InvAlways, <1>1, PTL

\* The frame given to the callback after next() is the one the queue retains.
THEOREM CallbackSafe == SafeSpec => []CallbackFrameKept
  BY InvAlways, PTL DEF Inv

-----------------------------------------------------------------------------
(* Which frames are passed over. *)

\* The queue holds the frames after the one that left it last; what was passed
\* over since the last frame shown is of another serial.
OrderInv ==
    /\ kept = sent - Len(queue)
    /\ \A i \in 1 .. Len(queue) : queue[i] = kept + i
    /\ pc = "next" => vp = kept + 1
    /\ pc # "next" => vp <= kept /\ \A f \in vp + 1 .. kept : Stale(f)

\* No integer lies between n and its successor.
LEMMA NothingBetween ==
    ASSUME NEW n \in Nat
    PROVE  \A f \in n + 1 .. n : FALSE
  OBVIOUS

\* Types in the form the steps below need.
LEMMA QueueTyped ==
    ASSUME TypeOK
    PROVE  /\ kept \in Nat /\ sent \in Nat /\ vp \in Nat /\ Len(queue) \in Nat
           /\ queue \in Seq(Frames)
  <1>1. queue \in Seq(Frames) /\ kept \in Nat /\ sent \in Nat /\ vp \in Nat
    BY VideoAssumption DEF TypeOK, Chan!TypeOK, VideoAssumption, Frames
  <1> QED
    BY <1>1

LEMMA TakeOrder ==
    ASSUME TypeOK, OrderInv, Chan!Take
    PROVE  /\ kept' = kept + 1 /\ Head(queue) = kept + 1
           /\ kept' = sent' - Len(queue')
           /\ \A i \in 1 .. Len(queue') : queue'[i] = kept' + i
  <1>1. queue # << >> /\ queue' = Tail(queue) /\ kept' = Head(queue) /\ sent' = sent
    BY DEF Chan!Take
  <1>2. /\ Len(queue) > 0 /\ Head(queue) = queue[1] /\ Len(Tail(queue)) = Len(queue) - 1
        /\ \A i \in 1 .. Len(Tail(queue)) : Tail(queue)[i] = queue[i + 1]
    BY <1>1, QueueTyped
  <1>3. Head(queue) = kept + 1
    BY <1>2, QueueTyped DEF OrderInv
  <1>4. kept' = sent' - Len(queue')
    BY <1>1, <1>2, <1>3, QueueTyped DEF OrderInv
  <1>5. \A i \in 1 .. Len(queue') : queue'[i] = kept' + i
    <2> SUFFICES ASSUME NEW i \in 1 .. Len(queue')
                 PROVE  queue'[i] = kept' + i
      OBVIOUS
    <2>1. i + 1 \in 1 .. Len(queue) /\ queue'[i] = queue[i + 1]
      BY <1>1, <1>2, QueueTyped
    <2>2. queue[i + 1] = kept + (i + 1)
      BY <2>1 DEF OrderInv
    <2> QED
      BY <1>1, <1>3, <2>1, <2>2, QueueTyped
  <1> QED
    BY <1>1, <1>3, <1>4, <1>5

LEMMA SendOrder ==
    ASSUME TypeOK, OrderInv, Chan!Send
    PROVE  /\ kept' = kept /\ kept' = sent' - Len(queue')
           /\ \A i \in 1 .. Len(queue') : queue'[i] = kept' + i
  <1>1. queue' = Append(queue, sent + 1) /\ sent' = sent + 1 /\ kept' = kept
    BY DEF Chan!Send
  <1>2. /\ Len(queue') = Len(queue) + 1 /\ queue'[Len(queue) + 1] = sent + 1
        /\ \A i \in 1 .. Len(queue) : queue'[i] = queue[i]
    BY <1>1, QueueTyped
  <1>3. sent + 1 = kept + (Len(queue) + 1)
    BY QueueTyped DEF OrderInv
  <1> QED
    BY <1>1, <1>2, <1>3, QueueTyped DEF OrderInv

\* The frame that is due is the next one.
LEMMA DueIsNext ==
    ASSUME TypeOK, OrderInv, FrameDue
    PROVE  vp' = kept + 1
  <1>1. Len(queue) > 0 /\ Head(queue) = queue[1]
    BY QueueTyped DEF FrameDue
  <1> QED
    BY <1>1, QueueTyped DEF FrameDue, OrderInv

LEMMA OrderInit == Init => OrderInv
  <1> SUFFICES ASSUME Init
               PROVE  OrderInv
    OBVIOUS
  <1>1. queue = << >> /\ kept = 0 /\ sent = 0 /\ vp = 0 /\ pc = "loop"
    BY DEF Init, Chan!Init
  <1>2. \A f \in vp + 1 .. kept : FALSE
    <2>1. vp = kept /\ kept \in Nat
      BY <1>1
    <2> QED
      BY <2>1, NothingBetween
  <1>3. Len(<< >>) = 0
    OBVIOUS
  <1>4. Len(queue) = 0
    BY <1>1, <1>3
  <1>5. kept = sent - Len(queue)
    <2>1. kept = 0 /\ sent = 0
      BY <1>1
    <2>2. 0 = 0 - 0
      OBVIOUS
    <2> QED
      BY <2>1, <2>2, <1>4
  <1>6. \A i \in 1 .. Len(queue) : queue[i] = kept + i
    <2> SUFFICES ASSUME NEW i \in 1 .. Len(queue)
                 PROVE  FALSE
      OBVIOUS
    <2> QED
      BY <1>4
  <1>7. (pc = "next" => vp = kept + 1) /\ (pc # "next" => vp <= kept)
    BY <1>1
  <1> QED
    BY <1>2, <1>5, <1>6, <1>7 DEF OrderInv

LEMMA OrderStep ==
    ASSUME TypeOK, OrderInv, [Next]_vars
    PROVE  OrderInv'
  <1>1. staleSlots' = staleSlots
    BY DEF Next, Thread, DropStale, FrameDue, NextFrame, Callback, Decode, Tick, vars, stream
  <1>2. \A f : (Stale(f))' = Stale(f)
    BY <1>1 DEF Stale
  <1>3. CASE DropStale
    <2>1. pc = "loop" /\ pc' = "loop" /\ vp' = vp /\ Stale(Head(queue)) /\ Chan!Take
      BY <1>3 DEF DropStale
    <2>2. vp <= kept /\ \A f \in vp + 1 .. kept : Stale(f)
      BY <2>1 DEF OrderInv
    <2>3. vp' <= kept' /\ \A f \in vp' + 1 .. kept' : Stale(f)
      <3>1. vp + 1 .. kept + 1 = (vp + 1 .. kept) \cup {kept + 1}
        BY <2>2, QueueTyped
      <3> QED
        BY <2>1, <2>2, <3>1, TakeOrder, QueueTyped
    <2> QED
      BY <1>2, <2>1, <2>3, TakeOrder DEF OrderInv
  <1>4. CASE FrameDue
    <2>1. pc' = "next" /\ queue' = queue /\ kept' = kept /\ sent' = sent
      BY <1>4 DEF FrameDue, chan
    <2> QED
      BY <1>4, <2>1, DueIsNext DEF OrderInv
  <1>5. CASE NextFrame
    <2>1. pc = "next" /\ pc' = "callback" /\ vp' = vp /\ Chan!Take
      BY <1>5 DEF NextFrame
    <2>2. vp' = kept' /\ kept' \in Nat
      BY <2>1, TakeOrder, QueueTyped DEF OrderInv
    <2>3. \A f \in vp' + 1 .. kept' : FALSE
      BY <2>2, NothingBetween
    <2> QED
      BY <2>1, <2>2, <2>3, TakeOrder DEF OrderInv
  <1>6. CASE Decode
    <2>1. pc' = pc /\ vp' = vp /\ Chan!Send
      BY <1>6 DEF Decode
    <2> QED
      BY <1>2, <2>1, SendOrder DEF OrderInv
  <1>7. CASE Callback \/ Tick \/ UNCHANGED vars
    <2>1. /\ queue' = queue /\ kept' = kept /\ sent' = sent /\ vp' = vp
          /\ (pc' = "next") = (pc = "next")
      BY <1>7 DEF Callback, Tick, vars, chan
    <2> QED
      BY <1>2, <2>1 DEF OrderInv
  <1> QED
    BY <1>3, <1>4, <1>5, <1>6, <1>7 DEF Next, Thread

\* For any queue length, any number of frames, any pts and whatever serials the
\* slots hold: a frame is shown once, in decode order, and of those between two
\* shown ones each is of another serial.
THEOREM OnlyStalePassedOver == SafeSpec => OnlyStaleSkipped
  <1> DEFINE Skips == vp' # vp => /\ vp' > vp
                                  /\ ~Stale(vp')
                                  /\ \A f \in vp + 1 .. vp' - 1 : Stale(f)
  <1>1. TypeOK /\ OrderInv /\ [Next]_vars => [Skips]_vars
    <2> SUFFICES ASSUME TypeOK, OrderInv, Next, vp' # vp
                 PROVE  /\ vp' > vp /\ ~Stale(vp')
                        /\ \A f \in vp + 1 .. vp' - 1 : Stale(f)
      OBVIOUS
    <2>1. FrameDue
      BY DEF Next, Thread, DropStale, NextFrame, Callback, Decode, Tick
    <2>2. vp' = kept + 1 /\ vp' = Head(queue) /\ ~Stale(Head(queue)) /\ pc = "loop"
      BY <2>1, DueIsNext DEF FrameDue
    <2>3. vp <= kept /\ \A f \in vp + 1 .. kept : Stale(f)
      BY <2>2 DEF OrderInv
    <2>4. vp' - 1 = kept
      BY <2>2, QueueTyped
    <2> QED
      BY <2>2, <2>3, <2>4, QueueTyped
  <1>2. TypeOK /\ OrderInv /\ [Next]_vars => OrderInv'
    BY OrderStep
  <1>3. SafeSpec => []OrderInv
    BY <1>2, OrderInit, VideoTypeCorrect, PTL DEF SafeSpec
  <1> QED
    BY <1>1, <1>3, VideoTypeCorrect, PTL DEF SafeSpec, OnlyStaleSkipped
=============================================================================
