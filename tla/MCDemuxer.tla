------------------------------ MODULE MCDemuxer ------------------------------
(* The demuxer thread on a small file. *)
EXTENDS Demuxer

MCPacketDuration == [s \in Streams |-> IF s = "subtitle" THEN 0 ELSE 1]

\* Indexes that memory may happen to hold: two streams swapped; one stream twice
\* and one that has no queue.
MCGarbage ==
    {[audio |-> "video", video |-> "audio", subtitle |-> None],
     [audio |-> "audio", video |-> "audio", subtitle |-> "other"]}
=============================================================================
