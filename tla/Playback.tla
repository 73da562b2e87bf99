------------------------------ MODULE Playback ------------------------------
(***************************************************************************)
(* The demuxer thread, the decode thread of the video and the thread that  *)
(* shows the frames, composed: the packets go through the demuxer's video  *)
(* queue, the codec and the frame queue, while seeks are asked for.  The   *)
(* demuxer knows its streams; the file is a local one with a video only.   *)
(***************************************************************************)
EXTENDS Integers, Sequences

CONSTANTS
    FileLen, MIN_FRAMES, MAX_QUEUE_SIZE, PacketSize, NodeSize, PacketDuration,
    Second, None, MaxErrors, MaxSeeks,                        \* Demuxer
    Corrupt, Delay, Capacity, NodeSerials, MaxSerial          \* SoftDecoder

VARIABLES
    file, present, attachedPic, index, infiniteBuffer, eof, seekReq, pos, queue,
    pc, errors, seeks, start, got,                            \* Demuxer
    frames, codec, draining, thread, pkt, pktSerial, frame, packetPending,
    currentSerial, staleSent,                                 \* SoftDecoder
    epoch,            \* seeks done
    epochs,           \* of each packet in the video queue, the seek it was read after
    shown,            \* frames shown that were read since the last seek
    thrown,           \* packets read since that the check of the serial threw away
    oldShown          \* number of others shown since the last seek
                      \* (all five history)

\* The video queue as the decode thread's source.
source == [i \in 1 .. Len(queue["video"]) |-> <<epochs[i], queue["video"][i]>>]

Demux  == INSTANCE Demuxer WITH Garbage <- {}
Decode == INSTANCE SoftDecoder

ASSUME PlaybackAssumption ==
    /\ Decode!DecoderAssumption
    /\ MaxErrors \in Nat /\ MaxSeeks \in Nat
    /\ None \notin Demux!Streams \cup {"other"}

demuxVars == <<file, present, attachedPic, index, infiniteBuffer, eof, seekReq,
               pos, queue, pc, errors, seeks, start, got>>
decodeVars == <<frames, codec, draining, thread, pkt, pktSerial, frame,
                packetPending, currentSerial, staleSent>>
history == <<epoch, epochs, shown, thrown, oldShown>>
vars == <<demuxVars, decodeVars, history>>

TypeOK == Demux!TypeOK /\ Decode!TypeOK

Init ==
    /\ Demux!Init /\ Decode!Init
    /\ \A f \in 1 .. FileLen : file[f] = "video"
    /\ present = {"video"} /\ ~attachedPic /\ ~infiniteBuffer /\ ~eof
    /\ epoch = 0 /\ epochs = << >> /\ shown = {} /\ thrown = {} /\ oldShown = 0

-----------------------------------------------------------------------------
(* The demuxer's steps.  What it puts is of this epoch, what a seek leaves in  *)
(* the queue of an earlier one.                                                *)

Reads ==
    /\ Demux!NoSeek \/ Demux!SeekFails \/ Demux!Throttle \/ Demux!ReadPacket
       \/ Demux!ReadEnd \/ Demux!ReadFails \/ Demux!ReadBreaks \/ Demux!WaitEnds
    /\ epochs' = SubSeq(Append(epochs, epoch), 1, Len(queue'["video"]))
    /\ UNCHANGED <<epoch, shown, thrown, oldShown, decodeVars>>

Seeks ==
    /\ Demux!Seek
    /\ epoch' = epoch + 1
    /\ epochs' = SubSeq(epochs, 1, Len(queue'["video"]))
    /\ shown' = {} /\ thrown' = {} /\ oldShown' = 0
    /\ UNCHANGED decodeVars

RequestSeek == Demux!RequestSeek /\ UNCHANGED <<decodeVars, history>>

-----------------------------------------------------------------------------
(* The decode thread's and the showing thread's. *)

GetPacket ==
    /\ Demux!getPacket("video")
    /\ epochs' = Tail(epochs)
    /\ Decode!Get
    /\ UNCHANGED <<epoch, shown, thrown, oldShown>>

\* The packet in the decode thread's hand is about to be thrown away.
Discarded == thread = "check" /\ ~Decode!validSerial(pktSerial)

Decodes ==
    /\ UNCHANGED <<demuxVars, epoch, epochs, shown, oldShown>>
    /\ Decode!DecodeStep
    /\ thrown' = IF Discarded /\ pkt[1] = epoch THEN thrown \cup {pkt[2]} ELSE thrown

Launch ==
    /\ UNCHANGED <<demuxVars, history>>
    /\ Decode!Launch \/ (pc = "closed" /\ Decode!LaunchCrashes)

NewSerial == UNCHANGED <<demuxVars, history>> /\ Decode!incrementSerial

Shows ==
    /\ UNCHANGED <<demuxVars, epoch, epochs, thrown>>
    /\ Decode!Take
    /\ IF Head(frames)[1] = epoch
       THEN shown' = shown \cup {Head(frames)[2]} /\ UNCHANGED oldShown
       ELSE oldShown' = oldShown + 1 /\ UNCHANGED shown

-----------------------------------------------------------------------------
Alive == pc # "crashed" /\ thread # "crashed"

Next ==
    /\ Alive
    /\ Reads \/ Seeks \/ RequestSeek \/ GetPacket \/ Decodes \/ Launch \/ NewSerial \/ Shows

\* The three threads are scheduled.
Spec == Init /\ [][Next]_vars
             /\ WF_vars(Alive /\ (Reads \/ Seeks))
             /\ WF_vars(Alive /\ (GetPacket \/ Decodes))
             /\ WF_vars(Alive /\ Shows)

-----------------------------------------------------------------------------
(* Properties. *)

\* The check of a packet's serial against a serial that may change before the
\* packet is sent.
OneStaleSent == Decode!OneStaleSent

\* Nothing flushes the codec or the frame queue on a seek.  All the same no more
\* frames of before it are shown than these and the decode thread can hold.
OldFramesBounded == oldShown <= Capacity + Delay + 1

\* Nothing is on its way through the queues, the codec and the decode thread.
Drained ==
    /\ queue["video"] = << >> /\ frames = << >> /\ codec = << >>
    /\ thread \notin {"check", "send", "push"}

\* Whatever was read since the last seek and is not on its way has been shown, the
\* frames included that the codec holds back until the null packet; only what the
\* check of the serial threw away is missing, whatever serials packets carry.
NothingLost ==
    Drained => shown = ((start .. pos - 1) \ Corrupt) \ thrown

\* On the screen the threads keep the abstract specification: of before a seek no
\* more than OldFramesBounded allows, and only first; then what was asked for, in
\* order, each frame once, and no frame before all those that precede it, but for
\* those that were thrown away.
ViewerSees == INSTANCE Screen WITH
    from <- start, seen <- shown, old <- oldShown, lost <- thrown,
    MaxOld <- Capacity + Delay + 1

ScreenSpec == ViewerSees!Spec

\* The packets to show since the last seek.
Wanted == (start .. FileLen) \ Corrupt

\* If the decode thread is started again whenever it has returned, every frame
\* from the last seek to the end of the file is shown but for those whose packets
\* the check of the serial threw away, and those that the codec holds back too if
\* the null packet was not thrown away with them; unless a thread is over.
AllShown ==
    WF_vars(Alive /\ Launch)
        => <>[](~Alive \/ pc = "closed" \/ FileLen + 1 \in thrown \/ shown = Wanted \ thrown)
=============================================================================
