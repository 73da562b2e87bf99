----------------------------- MODULE MediaClock -----------------------------
(***************************************************************************)
(* What a clock of media time promises: its reading advances with the      *)
(* system time at the clock's rate while it runs, stands still while it is *)
(* paused, and otherwise changes only where a frame that is shown sets it. *)
(***************************************************************************)
EXTENDS Integers

VARIABLES time,      \* the system time
          reading,   \* the media time the clock shows
          running,   \* is it not paused?
          rate,      \* media time per system time
          showing    \* has a frame just been shown?

clockVars == <<time, reading, running, rate, showing>>

Init ==
    /\ time \in Int /\ reading \in Int
    /\ running = TRUE
    /\ rate = 1
    /\ showing = FALSE

NoFrame == showing' => showing

Advance ==
    /\ time' = time + 1
    /\ reading' = IF running THEN reading + rate ELSE reading
    /\ UNCHANGED <<running, rate, showing>>

\* The frame may have no pts and leave the reading as it is.
Set ==
    /\ ~showing /\ showing'
    /\ reading' \in Int
    /\ UNCHANGED <<time, running, rate>>

Toggle ==
    /\ running' = ~running
    /\ NoFrame
    /\ UNCHANGED <<time, reading, rate>>

SetRate ==
    /\ rate' \in Int
    /\ NoFrame
    /\ UNCHANGED <<time, reading, running>>

FrameDone ==
    /\ showing' = FALSE
    /\ UNCHANGED <<time, reading, running, rate>>

Next == Advance \/ Set \/ Toggle \/ SetRate \/ FrameDone

Spec == Init /\ [][Next]_clockVars
=============================================================================
