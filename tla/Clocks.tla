------------------------------- MODULE Clocks -------------------------------
(***************************************************************************)
(* The three clocks (src/src/utils/YClock.cpp) behind SyncManager          *)
(* (src/src/control/SyncManager.cpp), and what sets them in the player     *)
(* (src/src/control/Player.cpp): the showing thread with every frame, and  *)
(* streamTogglePause, which the showing thread calls when it steps and     *)
(* which is there for the player's callers to pause and to resume.         *)
(*                                                                         *)
(* Time is in ticks and every method reads one system time.  frameTimer is *)
(* a number; how the delay of a frame comes about, and a frameTimer that   *)
(* is none, are in VideoThread.                                            *)
(***************************************************************************)
EXTENDS Integers

CONSTANTS
    PtsValues, NaN,   \* the pts a frame may have, NaN among them
    Delays,           \* the delays computeTargetDelay may return, zero among them
    Speeds,           \* the speeds setClockSpeed may be given
    FrameTimers,      \* what the uninitialised frameTimer may hold
    SyncMax,          \* AV_SYNC_THRESHOLD_MAX
    StartTime,        \* the system time when the clocks are made
    MaxTime           \* bound: the system time the model stops at

ASSUME ClocksAssumption ==
    /\ PtsValues \ {NaN} \subseteq Int
    /\ Delays \subseteq Nat
    /\ Speeds \subseteq Nat
    /\ FrameTimers \subseteq Int
    /\ SyncMax \in Nat
    /\ StartTime \in Nat /\ MaxTime \in Nat

ClockTypes == {"AUDIO", "VIDEO", "EXTERNAL"}

VARIABLES
    now,                                  \* the system time
    pts, ptsDrift, lastUpdated,           \* the fields of each clock
    speed, clockPaused,
    paused, step, frameTimer,             \* the fields of the player
    pc,                                   \* where the showing thread is
    timed,    \* did the frame shown last have a pts?  (history)
    lagShown  \* how far frameTimer was behind when it was shown  (history)

clocks == <<pts, ptsDrift, lastUpdated, speed, clockPaused>>
player == <<paused, step, frameTimer>>
lastShown == <<timed, lagShown>>
vars == <<now, pts, ptsDrift, lastUpdated, speed, clockPaused,
          paused, step, frameTimer, pc, timed, lagShown>>

TypeOK ==
    /\ now \in 0 .. MaxTime \cup {StartTime}
    /\ pts \in [ClockTypes -> Int] /\ ptsDrift \in [ClockTypes -> Int]
    /\ lastUpdated \in [ClockTypes -> 0 .. now]
    /\ speed \in [ClockTypes -> Speeds \cup {1}]
    /\ clockPaused \in [ClockTypes -> BOOLEAN]
    /\ paused \in BOOLEAN /\ step \in BOOLEAN /\ frameTimer \in Int
    /\ pc \in {"loop", "shown"}
    /\ timed \in BOOLEAN /\ lagShown \in Nat

\* The clocks as constructed.  The player initialises none of the fields used
\* here.
Init ==
    /\ now = StartTime
    /\ pts = [c \in ClockTypes |-> 0] /\ ptsDrift = [c \in ClockTypes |-> 0]
    /\ lastUpdated = [c \in ClockTypes |-> 0]
    /\ speed = [c \in ClockTypes |-> 1]
    /\ clockPaused = [c \in ClockTypes |-> FALSE]
    /\ paused \in BOOLEAN /\ step \in BOOLEAN /\ frameTimer \in FrameTimers
    /\ pc = "loop" /\ timed = FALSE /\ lagShown = 0

-----------------------------------------------------------------------------
(* Clock *)

\* What a running clock shows.
runningTime(c) == ptsDrift[c] + now - (now - lastUpdated[c]) * (1 - speed[c])

getClock(c) == IF clockPaused[c] THEN pts[c] ELSE runningTime(c)

\* Mutant: setClockAt(time, pts).
setClocksSwapped(v) ==
    /\ pts' = [c \in ClockTypes |-> IF c \in DOMAIN v THEN now ELSE pts[c]]
    /\ lastUpdated' = [c \in ClockTypes |-> IF c \in DOMAIN v THEN v[c] ELSE lastUpdated[c]]
    /\ ptsDrift' = [c \in ClockTypes |-> IF c \in DOMAIN v THEN now - v[c] ELSE ptsDrift[c]]

\* setClock of each clock in the domain of v to its value there.
setClocks(v) ==
    /\ pts' = [c \in ClockTypes |-> IF c \in DOMAIN v THEN v[c] ELSE pts[c]]
    /\ lastUpdated' = [c \in ClockTypes |-> IF c \in DOMAIN v THEN now ELSE lastUpdated[c]]
    /\ ptsDrift' = [c \in ClockTypes |-> IF c \in DOMAIN v THEN v[c] - now ELSE ptsDrift[c]]

getLastUpdated(c) == lastUpdated[c]

\* setClockPasuse of all three clocks.  It does not touch what the clock is set
\* to: callers set the clock to what it shows before they pause it.
setClocksPasuse(pause) == clockPaused' = [c \in ClockTypes |-> pause]

\* The video clock is set to p and the external clock then to what the video
\* clock shows at that time, which is p, running or not.
syncClockToSlave(p) == setClocks([c \in {"VIDEO", "EXTERNAL"} |-> p])

\* Mutant: only the speed changes.
setSpeedOnly(s) ==
    /\ speed' = [speed EXCEPT !["EXTERNAL"] = s]
    /\ UNCHANGED <<now, pts, ptsDrift, lastUpdated, clockPaused, player, pc, lastShown>>

\* The clock is set to what it shows before the speed changes.  Only the
\* external clock is meant to have another speed than 1.
setClockSpeed(s) ==
    /\ setClocks([c \in {"EXTERNAL"} |-> getClock(c)])
    /\ speed' = [speed EXCEPT !["EXTERNAL"] = s]
    /\ UNCHANGED <<now, clockPaused, player, pc, lastShown>>

-----------------------------------------------------------------------------
(* Player *)

\* Mutant: the pause is not taken out of frameTimer.
frameTimerStill == frameTimer

\* Moved by the time since the last frame with a pts, or since the last resume.
frameTimerResumed == frameTimer + (now - getLastUpdated("VIDEO"))

\* The video clock is set running before it is read, the external clock is
\* read as it was; then all three are paused or set running together.
streamTogglePause ==
    /\ IF paused
       THEN /\ frameTimer' = frameTimerResumed
            /\ setClocks([c \in {"VIDEO", "EXTERNAL"} |->
                            IF c = "VIDEO" THEN runningTime(c) ELSE getClock(c)])
       ELSE /\ UNCHANGED frameTimer
            /\ setClocks([c \in {"EXTERNAL"} |-> getClock(c)])
    /\ paused' = ~paused
    /\ setClocksPasuse(~paused)
    /\ UNCHANGED <<now, speed, step, lastShown>>

\* A frame of another serial than the one before it starts its own time.
frameTimerFor(otherSerial) == IF otherSerial THEN now ELSE frameTimer

\* frameTimer += delay, and a positive delay resets it when it is too far behind.
frameTimerShown(timer, d) ==
    IF d > 0 /\ now - (timer + d) > SyncMax THEN now ELSE timer + d

\* A frame with pts p is due; one of another serial has no delay.  The video
\* clock is set to its pts, and the external clock to what the video clock then
\* shows.  The thread does not look at paused.
ShowFrame(p, d, otherSerial) ==
    LET timer == frameTimerFor(otherSerial) IN
    /\ pc = "loop"
    /\ otherSerial => d = 0
    /\ now >= timer + d
    /\ frameTimer' = frameTimerShown(timer, d)
    /\ IF p = NaN THEN UNCHANGED <<pts, ptsDrift, lastUpdated>>
                  ELSE syncClockToSlave(p)
    /\ timed' = (p # NaN)
    /\ lagShown' = now - frameTimer'
    /\ pc' = "shown"
    /\ UNCHANGED <<now, speed, clockPaused, paused, step>>

\* After next(): in step mode the player is paused.
AfterFrame ==
    /\ pc = "shown"
    /\ pc' = "loop"
    /\ IF step /\ ~paused THEN streamTogglePause
                          ELSE UNCHANGED <<now, clocks, player, lastShown>>

CallTogglePause == streamTogglePause /\ UNCHANGED pc

Tick ==
    /\ now < MaxTime
    /\ now' = now + 1
    /\ UNCHANGED <<clocks, player, pc, lastShown>>

-----------------------------------------------------------------------------
Next ==
    \/ \E p \in PtsValues, d \in Delays, otherSerial \in BOOLEAN :
          ShowFrame(p, d, otherSerial)
    \/ AfterFrame
    \/ CallTogglePause
    \/ \E s \in Speeds : setClockSpeed(s)
    \/ Tick

Spec == Init /\ [][Next]_vars

-----------------------------------------------------------------------------
(* Properties. *)

\* The external clock is an ideal clock of media time: whatever the order of
\* frames, pauses, resumes and changes of speed, its reading neither drifts
\* nor jumps but where a frame sets it.
ExternalClock == INSTANCE MediaClock WITH
    time <- now, reading <- getClock("EXTERNAL"),
    running <- ~clockPaused["EXTERNAL"], rate <- speed["EXTERNAL"],
    showing <- pc = "shown"

ExternalClockSpec == ExternalClock!Spec

\* After a resume the next frame comes neither in a burst nor late: frameTimer
\* is behind the system time by what it was when the frame on show was shown,
\* however long the pause and however many went before.  It needs a pts on the
\* frame on show.
ResumeKeepsPace ==
    [][paused /\ ~paused' /\ timed => now - frameTimer' = lagShown]_vars

\* Why: the video clock was last set at the moment the frame on show was shown,
\* or at a resume, which moved frameTimer by as much.
SetWithFrame == timed => lastUpdated["VIDEO"] - frameTimer = lagShown

\* ptsDrift is what its comment says, and a clock is paused only while the
\* player is.  (It need not be before the first toggle: paused is uninitialised
\* while the clocks start running.)
ClocksSound ==
    \A c \in ClockTypes :
        /\ ptsDrift[c] = pts[c] - lastUpdated[c]
        /\ clockPaused[c] => paused

\* Between any two steps the clocks are consistent with each other, with the
\* player's pause and with the frame on show.
ClocksInv == SetWithFrame /\ ClocksSound

-----------------------------------------------------------------------------
(* What the code does not keep. *)

\* In step mode the player stays paused after a frame: with a frame on show
\* and the clocks stopped, no other frame is shown.
StepStops ==
    [][step /\ timed /\ clockPaused["VIDEO"] => pc' # "shown" \/ pc = "shown"]_vars
=============================================================================
