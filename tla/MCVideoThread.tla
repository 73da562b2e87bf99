--------------------------- MODULE MCVideoThread ---------------------------
(* Small instances of VideoThread: one tick is 50 ms, so SyncMax is 2 ticks. *)
EXTENDS VideoThread

\* Between consecutive frames: a gap shorter than the frame duration, one
\* longer than SyncMax, one beyond MaxFrameDuration, a step back, and no pts.
MCPts == {0, 1, 5, NaN}

\* All slots of the player's serial, or one that is not.
MCStale == {{}, {1}}
MCOneStale == {{1}}
=============================================================================
