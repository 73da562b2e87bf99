----------------------------- MODULE VideoThread -----------------------------
(***************************************************************************)
(* The thread that shows the video frames                                  *)
(* (Player::vidCallbackThreadFunc, src/src/control/Player.cpp), over the   *)
(* queue FrameQueue implements: when is the next frame due, and what       *)
(* happens to one that is not of the stream being played.                  *)
(*                                                                         *)
(* Time is in ticks, and only differences of times matter: `lag' is the    *)
(* system time minus frameTimer.  A pts is a number of ticks, or NaN.      *)
(* frameTimer, an uninitialised double, may at first be a number, not a    *)
(* number or infinite; minus infinity acts like any number long past.      *)
(***************************************************************************)
EXTENDS Integers, Sequences

CONSTANTS
    Capacity,            \* slots of the frame queue
    NumFrames,           \* bound: frames the stream decodes to
    PtsValues, NaN,      \* bound: the pts a frame may have, NaN among them
    FrameDuration,       \* vp->duration, 0 when the frame rate is unknown
    MaxFrameDuration,    \* SyncManager::max_frame_duration
    SyncMax,             \* AV_SYNC_THRESHOLD_MAX
    StaleChoices,        \* bound: the sets of slots that may hold another serial
    TimerKinds,          \* bound: what frameTimer may be at first
    MaxLag               \* bound: larger time differences are not told apart

Frames == 1 .. NumFrames

ASSUME VideoAssumption ==
    /\ Capacity \in Nat \ {0, 1}
    /\ NumFrames \in Nat
    /\ PtsValues \ {NaN} \subseteq Int
    /\ FrameDuration \in Nat /\ MaxFrameDuration \in Nat /\ SyncMax \in Nat
    /\ StaleChoices \subseteq SUBSET (0 .. Capacity - 1)
    /\ TimerKinds \subseteq {"number", "NaN", "Inf"}
    /\ MaxLag \in Nat
    /\ MaxLag > SyncMax + FrameDuration /\ MaxLag > SyncMax + MaxFrameDuration

VARIABLES
    queue, kept, sent,   \* the frame queue
    pts,      \* the pts of each frame, which decoding determines
    staleSlots,   \* slots whose `serial' is not the player's
    timer,    \* what frameTimer is
    lag,      \* now - frameTimer, if that is a number
    vp,       \* the frame the thread peeked last, or 0
    pc,       \* where the thread is
    ahead     \* by how much a run of frames shown so far is ahead of the clock

chan == <<queue, kept, sent>>
stream == <<pts, staleSlots>>
pace == <<timer, lag, ahead>>
vars == <<queue, kept, sent, pts, staleSlots, timer, lag, vp, pc, ahead>>

Chan == INSTANCE FrameChannel WITH Retain <- TRUE

Times == -MaxLag .. MaxLag

TypeOK ==
    /\ Chan!TypeOK
    /\ pts \in [Frames -> PtsValues] /\ staleSlots \in StaleChoices
    /\ timer \in {"number", "NaN", "Inf"} /\ lag \in Times /\ ahead \in Int
    /\ vp \in 0 .. NumFrames
    /\ pc \in {"loop", "next", "callback"}

\* Neither frameTimer nor the serials of the slots are initialised: the first
\* frame may be overdue or not due, and any slot may hold another serial.
Init ==
    /\ Chan!Init
    /\ pts \in [Frames -> PtsValues] /\ staleSlots \in StaleChoices
    /\ timer \in TimerKinds
    /\ lag \in IF timer = "number" THEN Times ELSE {0}
    /\ ahead = -MaxLag
    /\ vp = 0
    /\ pc = "loop"

-----------------------------------------------------------------------------
(* Frames and durations. *)

\* The decode thread fills the slots in turn and never sets `serial', so a
\* frame has the serial its slot happens to hold.
Stale(f) == ((f - 1) % Capacity) \in staleSlots

\* peekLast() is peek() until a frame was kept.
lastvp == IF kept = 0 THEN Head(queue) ELSE kept

\* SyncManager::vpDuration
vpDuration(f, g) ==
    IF Stale(f) # Stale(g) THEN 0
    ELSE IF \/ NaN \in {pts[f], pts[g]}
            \/ pts[g] - pts[f] <= 0
            \/ pts[g] - pts[f] > MaxFrameDuration
         THEN FrameDuration
         ELSE pts[g] - pts[f]

\* computeTargetDelay: the video clock is always the master.
computeTargetDelay(d) == d

delay == computeTargetDelay(vpDuration(lastvp, Head(queue)))

\* frameTimer is set to the system time when the previous frame was of another
\* serial.
timerNow == IF Stale(lastvp) # Stale(Head(queue)) THEN "number" ELSE timer

\* Mutant: set when the serials agree.
lagNowInverted == IF Stale(lastvp) = Stale(Head(queue)) THEN 0 ELSE lag

lagNow == IF Stale(lastvp) # Stale(Head(queue)) THEN 0 ELSE lag

\* Mutants: the delay is taken off frameTimer; frameTimer is never reset.
lagAfterBack    == lagNow + delay
lagAfterNoReset == lagNow - delay

\* frameTimer += delay, and is reset when it is too far behind.
lagAfter == IF delay > 0 /\ lagNow - delay > SyncMax THEN 0 ELSE lagNow - delay

-----------------------------------------------------------------------------
(* The loop. *)

\* Mutants: any frame is passed over; a frame of another serial stays.
DropAny == pc = "loop" /\ Chan!Take /\ UNCHANGED <<stream, pace, vp, pc>>

DropNothing ==
    pc = "loop" /\ queue # << >> /\ Stale(Head(queue)) /\ UNCHANGED vars

\* A frame of another serial is passed over at once.
DropStale ==
    /\ pc = "loop"
    /\ queue # << >>
    /\ Stale(Head(queue))
    /\ Chan!Take
    /\ UNCHANGED <<stream, pace, vp, pc>>

\* The time is not before frameTimer + delay, which no time is if frameTimer is
\* not a number, and every time if it is infinite.
TimeReached == timerNow = "NaN" \/ (timerNow = "number" /\ lagNow >= delay)

\* The frame's time has come; until then the thread polls.  A frameTimer that is
\* not a number stays so, and is never found too far behind.
FrameDue ==
    /\ pc = "loop"
    /\ queue # << >>
    /\ ~Stale(Head(queue))
    /\ TimeReached
    /\ vp' = Head(queue)
    /\ timer' = timerNow
    /\ IF timerNow = "number"
       THEN /\ lag' = lagAfter
            /\ ahead' = IF ahead + delay > 0 THEN ahead + delay ELSE 0
       ELSE UNCHANGED <<lag, ahead>>
    /\ pc' = "next"
    /\ UNCHANGED <<chan, stream>>

\* Mutant: the callback comes before next().
NextForgotten ==
    pc = "next" /\ pc' = "callback" /\ UNCHANGED <<chan, stream, pace, vp>>

\* next(): the frame is retained.
NextFrame ==
    /\ pc = "next"
    /\ Chan!Take
    /\ pc' = "callback"
    /\ UNCHANGED <<stream, pace, vp>>

\* The callback is given the frame peeked before next().
Callback ==
    /\ pc = "callback"
    /\ pc' = "loop"
    /\ UNCHANGED <<chan, stream, pace, vp>>

\* The decode thread pushes a frame.
Decode ==
    /\ Chan!Send
    /\ UNCHANGED <<stream, pace, vp, pc>>

Tick ==
    /\ lag' = IF timer = "number" /\ lag < MaxLag THEN lag + 1 ELSE lag
    /\ ahead' = IF ahead > -MaxLag THEN ahead - 1 ELSE ahead
    /\ UNCHANGED <<chan, stream, timer, vp, pc>>

-----------------------------------------------------------------------------
Thread == DropStale \/ FrameDue \/ NextFrame \/ Callback

Next == Thread \/ Decode \/ Tick

SafeSpec == Init /\ [][Next]_vars

\* The decode thread and this one are scheduled by the system; time passes.
Spec == SafeSpec /\ WF_vars(Thread) /\ WF_vars(Decode) /\ WF_vars(Tick)

-----------------------------------------------------------------------------
(* Properties. *)

\* However late frames come and however often frameTimer is reset, no run of
\* consecutively shown frames is shown faster than their delays by more than
\* SyncMax: `ahead' is the largest sum of delays minus time taken over all
\* runs that end with the frame shown last.  It needs a known frame rate, and
\* counts the frames shown while frameTimer is a number: as long as it is not,
\* there is no pace.
NeverAhead == FrameDuration > 0 => ahead <= SyncMax

\* Why: as long as frameTimer is not reset, lag grows by what `ahead' loses,
\* and a reset is only made when that much time was lost.
PaceInv ==
    FrameDuration > 0 => /\ ahead <= SyncMax
                         /\ ahead + lag <= SyncMax
                         /\ ahead >= -MaxLag

\* A frame is shown at most once, in decode order, and the frames passed over
\* between two shown ones are exactly those of another serial.
OnlyStaleSkipped ==
    [][vp' # vp => /\ vp' > vp
                   /\ ~Stale(vp')
                   /\ \A f \in vp + 1 .. vp' - 1 : Stale(f)]_vars

\* The callback is given a frame the queue still retains.
CallbackFrameKept == pc = "callback" => kept = vp

\* Why: until next() the frame peeked is still the first of the queue.
PeekedIsFirst == pc = "next" => queue # << >> /\ Head(queue) = vp

\* An infinite frameTimer stops the thread, unless a frame follows one of another
\* serial, which makes it a number.
Stopped == <>[](timer = "Inf")

\* Every decoded frame leaves the queue, whatever else frameTimer was at first.
AllFramesLeave == Stopped \/ <>(kept = NumFrames)

\* Every frame with the player's serial is shown, whatever the others do.
CurrentFramesShown == Stopped \/ \A f \in Frames : <>(vp = f \/ Stale(f))

-----------------------------------------------------------------------------
(* What the code does not keep. *)

\* A decoded frame carries the serial of the decoder that decoded it; there is
\* one stream, so every frame is shown.
AllFramesShown == \A f \in Frames : <>(vp = f)
=============================================================================
