----------------------------- MODULE MCPlayback -----------------------------
(* Playback of a small file. *)
EXTENDS Playback

MCPacketDuration == [s \in {"audio", "video", "subtitle"} |-> 1]
=============================================================================
