------------------------------- MODULE Screen -------------------------------
(***************************************************************************)
(* What a viewer is promised of the video, whatever demuxer, codec, queues *)
(* and threads do: after a seek perhaps a few frames of before it, then    *)
(* the frames from the place of the seek on, in the order of the file,     *)
(* each once, and none before those that precede it except such as were    *)
(* lost on the way.                                                        *)
(***************************************************************************)
EXTENDS Integers

CONSTANTS FileLen,    \* frames of the file
          Corrupt,    \* frames that cannot be shown
          MaxOld      \* frames of before a seek that may come after it

VARIABLES from,       \* where the last seek went to
          seen,       \* frames seen since
          old,        \* number of frames of before it seen since
          lost        \* frames lost since, and perhaps the end of the file

screenVars == <<from, seen, old, lost>>

Wanted == (from .. FileLen) \ Corrupt

Init ==
    /\ from = 1 /\ seen = {} /\ old = 0 /\ lost = {}

ShowNext ==
    /\ \E f \in Wanted \ lost :
          /\ \A g \in seen : g < f
          /\ \A g \in Wanted : g < f => g \in seen \cup lost
          /\ seen' = seen \cup {f}
    /\ UNCHANGED <<from, old, lost>>

ShowOld ==
    /\ seen = {}
    /\ old < MaxOld /\ old' = old + 1
    /\ UNCHANGED <<from, seen, lost>>

Seek ==
    /\ from' \in 1 .. FileLen + 1
    /\ seen' = {} /\ old' = 0 /\ lost' = {}

\* What is lost comes after all that has been seen.
Lose ==
    /\ \E f \in from .. FileLen + 1 :
          /\ f \notin lost /\ \A g \in seen : g < f
          /\ lost' = lost \cup {f}
    /\ UNCHANGED <<from, seen, old>>

Next == ShowNext \/ ShowOld \/ Seek \/ Lose

Spec == Init /\ [][Next]_screenVars
=============================================================================
